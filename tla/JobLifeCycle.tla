----------------------------- MODULE JobLifeCycle -----------------------------
(***************************************************************************)
(* What clients may rely on when they ask for the status of a job, or of a *)
(* pipeline, which the API accepts without waiting for it.                 *)
(*                                                                         *)
(* A job is Working from the time it is accepted, and becomes Finished or  *)
(* Failed once.  An outcome never changes.  The executor does not promise  *)
(* to remember: the status of a job may be evicted, though only when there *)
(* is no room for all, and a restart forgets all of them.  A job that was  *)
(* evicted while Working is known again when it ends, one that is          *)
(* forgotten never is.                                                     *)
(***************************************************************************)
EXTENDS Naturals, FiniteSets

CONSTANTS Key,  \* the jobs
          Room  \* how many statuses are remembered for sure

VARIABLE state  \* of each job

Known == {j \in Key : state[j] \in {"Working", "Finished", "Failed"}}
UnderWay(j) == state[j] \in {"Working", "evicted"}

Init == state = [j \in Key |-> "none"]

\* s becomes the status of j, and that of another job may be evicted.
Becomes(j, s) ==
    LET new == [state EXCEPT ![j] = s]
        full == Cardinality(Known \union {j}) > Room
    IN  \/ state' = new
        \/ \E k \in Known \ {j} :
              /\ full
              /\ state' = [new EXCEPT ![k] = IF UnderWay(k) THEN "evicted"
                                             ELSE "forgotten"]

Accept(j) == state[j] = "none" /\ Becomes(j, "Working")
End(j) == UnderWay(j) /\ (Becomes(j, "Finished") \/ Becomes(j, "Failed"))
Restart ==
    state' = [j \in Key |-> IF state[j] = "none" THEN "none" ELSE "forgotten"]

Next == Restart \/ \E j \in Key : Accept(j) \/ End(j)

Spec == Init /\ [][Next]_state

\* Moreover, each job ends, unless it is forgotten first.
FairSpec == Spec /\ \A j \in Key : WF_state(End(j))
=============================================================================
