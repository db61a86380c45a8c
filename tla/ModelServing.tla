----------------------------- MODULE ModelServing -----------------------------
(***************************************************************************)
(* What the online predictor promises about the model it names, whatever   *)
(* happens between the engine executor and the engine.                     *)
(*                                                                         *)
(* Clients have models loaded one after the other: a reload is accepted    *)
(* unless the predictor waits for an earlier one.  Each reload has at most *)
(* one outcome, which is the engine's, or is lost; and each outcome counts *)
(* at most once.  The predictor is Ready because of an outcome only, and   *)
(* then names the protocol of that very reload; it may give up waiting at  *)
(* any time, and takes what comes later for the outcome of a later reload. *)
(***************************************************************************)
EXTENDS Naturals

CONSTANTS Protocol,  \* the models a client may ask for
          None,      \* no protocol: what is on the disk
          Bound      \* reloads that are accepted

VARIABLES state,    \* "Unavailable", "Reloading" or "Ready"
          named,    \* the protocol of the model that the predictor names
          issued,   \* reloads accepted so far
          protocol, \* of each of them
          outcome   \* of each: "none", "open", "loaded", "failed" or "over"

vars == <<state, named, issued, protocol, outcome>>

Init ==
    /\ state = "Unavailable" /\ named = None /\ issued = 0
    /\ protocol = [n \in 1..Bound |-> None]
    /\ outcome = [n \in 1..Bound |-> "none"]

Accept(p) ==
    /\ state # "Reloading" /\ issued < Bound
    /\ issued' = issued + 1
    /\ protocol' = [protocol EXCEPT ![issued'] = p]
    /\ outcome' = [outcome EXCEPT ![issued'] = "open"]
    /\ state' = "Reloading" /\ named' = p

\* The engine has loaded the model, or has not.
Answer(n) ==
    /\ outcome[n] = "open"
    /\ \E o \in {"loaded", "failed"} : outcome' = [outcome EXCEPT ![n] = o]
    /\ UNCHANGED <<state, named, issued, protocol>>

\* Reloads that time out, or whose message or call is lost.
Lose(lost) ==
    /\ \A n \in lost : outcome[n] = "open"
    /\ outcome' = [n \in 1..Bound |-> IF n \in lost THEN "over" ELSE outcome[n]]
    /\ UNCHANGED <<state, named, issued, protocol>>

\* An outcome is taken note of, which matters only to a predictor that waits.
Note(n) ==
    /\ outcome[n] \in {"loaded", "failed"}
    /\ outcome' = [outcome EXCEPT ![n] = "over"]
    /\ IF state # "Reloading" THEN UNCHANGED <<state, named>>
       ELSE IF outcome[n] = "loaded" THEN state' = "Ready" /\ named' = protocol[n]
       ELSE state' = "Unavailable" /\ named' = named
    /\ UNCHANGED <<issued, protocol>>

GiveUp ==
    /\ state = "Reloading" /\ state' = "Unavailable"
    /\ UNCHANGED <<named, issued, protocol, outcome>>

Next ==
    \/ \E p \in Protocol \union {None} : Accept(p)
    \/ \E n \in 1..Bound : Answer(n) \/ Note(n)
    \/ \E lost \in SUBSET (1..Bound) : Lose(lost)
    \/ GiveUp

Spec == Init /\ [][Next]_vars
=============================================================================
