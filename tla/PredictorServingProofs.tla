------------------------ MODULE PredictorServingProofs ------------------------
(***************************************************************************)
(* PredictorReload implements ModelServing, for every set of protocols,    *)
(* artifacts, stored versions and every bound: a refinement proof on top   *)
(* of the inductive invariant of PredictorReloadProofs.                    *)
(***************************************************************************)
EXTENDS PredictorReloadProofs

USE DEF Reloads, Request, Asks, Waiting, Outcome, SaveAsk, Message, Answer

\* Only a reloading FSM has a StateTimeout to handle.
TimerIsDue == timeoutDue => fsm = "Reloading"

ServingInv == IInv /\ TimerIsDue

\* Every message the FSM handles makes a waiting StateTimeout void, and
\* it leaves Reloading by a message only.
LEMMA StepTimer == TimerIsDue /\ [Next]_vars => TimerIsDue'
<1> SUFFICES ASSUME TimerIsDue, [Next]_vars PROVE TimerIsDue'
  OBVIOUS
<1>1. CASE UNCHANGED fsmVars
  BY <1>1 DEF TimerIsDue, fsmVars
<1>2. CASE Client
  BY <1>2 DEF Client, AcceptReload, Refuse, Forward, fsmVars, TimerIsDue
<1>3. CASE HandleAnswer \/ TimerFires \/ HandleStateTimeout
  BY <1>3 DEF HandleAnswer, TimerFires, HandleStateTimeout, TimerIsDue
<1> QED
  BY <1>1, <1>2, <1>3
  DEF Next, vars, fsmVars, ReloadFromDisk, ReloadProtocol, PassRequest, AllSaved,
      AskTimesOut, Escalate, Restart, Save, SaveFails, CallRequest, CallReload,
      ReloadSucceeds, ReloadFails, Return

\* The inductive invariant, strengthened by the state timer.
LEMMA ServingInvariant == Spec => []ServingInv
<1>1. Init => TimerIsDue
  BY DEF Init, TimerIsDue
<1>2. Spec => []TimerIsDue
  BY <1>1, StepTimer, PTL DEF Spec
<1> QED BY <1>2, Inductive, PTL DEF ServingInv

-----------------------------------------------------------------------------
(* What a step does to the outcomes                                         *)

\* A step that adds no answer can only lose conversations that were open.
LEMMA PhaseStep ==
    ASSUME TypeOK, TypeOK', OneOutcome, UNCHANGED <<fsm, data, issued, protocol, answers>>,
           \A n \in Reloads : \/ phase'[n] = phase[n]
                              \/ /\ phase[n] \in Waiting
                                 /\ phase'[n] \in Waiting \union {"over"}
    PROVE  Serving!Lose({n \in Reloads : phase[n] \in Waiting /\ phase'[n] = "over"})
<1> DEFINE lost == {n \in Reloads : phase[n] \in Waiting /\ phase'[n] = "over"}
<1>1. ASSUME NEW n \in Reloads
      PROVE  Outcomes'[n] = IF n \in lost THEN "over" ELSE Outcomes[n]
  <2>1. \A e : Answered(n, e)' = Answered(n, e)
    BY DEF Answered
  <2>2. phase[n] \in Waiting => \A e : ~Answered(n, e)
    BY DEF OneOutcome, Answered
  <2> QED BY <2>1, <2>2 DEF Outcomes
<1>2. \A n \in lost : Outcomes[n] = "open"
  BY DEF Outcomes
<1>3. Outcomes' = [n \in Reloads |-> IF n \in lost THEN "over" ELSE Outcomes[n]]
  BY <1>1 DEF Outcomes
<1> QED BY <1>2, <1>3 DEF Serving!Lose

\* An answer is added to the FSM's mailbox.
LEMMA AnswerStep ==
    ASSUME TypeOK, OneOutcome, NEW n \in Reloads,
           NEW e \in {"Reloaded", "FailedToReload", "Failure"},
           answers' = Append(answers, Answer(n, e)),
           phase[n] \in Waiting, phase' = [phase EXCEPT ![n] = "over"]
    PROVE  /\ Outcomes[n] = "open"
           /\ Outcomes' = [Outcomes EXCEPT ![n] =
                              IF e = "Reloaded" THEN "loaded"
                              ELSE IF e = "FailedToReload" THEN "failed" ELSE "over"]
<1>1. answers \in Seq(Outcome) /\ Answer(n, e) \in Outcome
  BY DEF TypeOK
<1>2. PICK last \in DOMAIN answers' :
        /\ last \notin DOMAIN answers /\ answers'[last] = Answer(n, e)
        /\ \A i \in DOMAIN answers' : i # last => i \in DOMAIN answers
  BY <1>1, AddLast
<1>3. \A i \in DOMAIN answers : i \in DOMAIN answers' /\ answers'[i] = answers[i]
  BY <1>1, AddLast
<1>4. \A i \in DOMAIN answers : answers[i].reload # n
  BY DEF OneOutcome
<1>5. ASSUME NEW d PROVE Answered(n, d)' <=> d = e
  BY <1>2, <1>3, <1>4 DEF Answered
<1>6. ASSUME NEW m \in Reloads, m # n, NEW d
      PROVE  Answered(m, d)' <=> Answered(m, d)
  BY <1>2, <1>3, <1>6 DEF Answered
<1>7. phase'[n] = "over" /\ \A m \in Reloads : m # n => phase'[m] = phase[m]
  BY DEF TypeOK
<1>8. Outcomes'[n] = IF e = "Reloaded" THEN "loaded"
                     ELSE IF e = "FailedToReload" THEN "failed" ELSE "over"
  BY <1>5, <1>7 DEF Outcomes
<1>9. \A m \in Reloads : m # n => Outcomes'[m] = Outcomes[m]
  BY <1>6, <1>7 DEF Outcomes
<1>10. Outcomes[n] = "open"
  BY DEF Outcomes
<1> QED BY <1>8, <1>9, <1>10 DEF Outcomes

\* The FSM takes the first answer from its mailbox.
LEMMA NoteStep ==
    ASSUME TypeOK, OneOutcome, answers # <<>>, answers' = Tail(answers), phase' = phase
    PROVE  LET n == Head(answers).reload IN
           /\ n \in Reloads
           /\ Head(answers).event = "Reloaded" => Outcomes[n] = "loaded"
           /\ Head(answers).event = "FailedToReload" => Outcomes[n] = "failed"
           /\ Head(answers).event = "Failure" => Outcomes[n] = "over"
           /\ Outcomes' = [Outcomes EXCEPT ![n] = "over"]
<1> DEFINE a == Head(answers)
<1>1. answers \in Seq(Outcome)
  BY DEF TypeOK
<1>2. /\ a \in Outcome /\ a = answers[1] /\ 1 \in DOMAIN answers
      /\ \A i \in DOMAIN answers' : /\ answers'[i] = answers[i + 1]
                                    /\ i + 1 \in DOMAIN answers /\ i + 1 # 1
  BY <1>1, TakeFirst
<1>3. PICK n \in Reloads, e \in {"Reloaded", "FailedToReload", "Failure"} :
         a = Answer(n, e)
  BY <1>2
<1>4. \A i \in DOMAIN answers : i # 1 => i - 1 \in DOMAIN answers' /\ answers'[i - 1] = answers[i]
  <2>1. /\ Len(answers) \in Nat \ {0} /\ DOMAIN answers = 1..Len(answers)
    BY <1>1, EmptySeq, LenProperties
  <2>2. /\ answers' \in Seq(Outcome) /\ Len(answers') = Len(answers) - 1
        /\ \A i \in 1..Len(answers') : answers'[i] = answers[i + 1]
    BY <1>1, HeadTailProperties
  <2>3. DOMAIN answers' = 1..(Len(answers) - 1)
    BY <2>2, LenProperties
  <2> QED BY <2>1, <2>2, <2>3
<1>5. answers[1].reload = n /\ answers[1].event = e
  BY <1>2, <1>3
<1>6. phase[n] = "over" /\ \A i \in DOMAIN answers : answers[i].reload = n => i = 1
  BY <1>2, <1>5 DEF OneOutcome
<1>7. ASSUME NEW d PROVE Answered(n, d) <=> d = e
  BY <1>2, <1>3, <1>5, <1>6 DEF Answered
<1>8. ASSUME NEW d PROVE ~Answered(n, d)'
  BY <1>2, <1>6 DEF Answered
<1>9. ASSUME NEW m \in Reloads, m # n, NEW d
      PROVE  Answered(m, d)' <=> Answered(m, d)
  <2>1. Answered(m, d)' => Answered(m, d)
    BY <1>2 DEF Answered
  <2>2. ASSUME NEW i \in DOMAIN answers, answers[i] = Answer(m, d)
        PROVE  Answered(m, d)'
    <3>1. i # 1
      BY <1>5, <1>9, <2>2
    <3> QED BY <1>4, <2>2, <3>1 DEF Answered
  <2> QED BY <2>1, <2>2 DEF Answered
<1>10. /\ e = "Reloaded" => Outcomes[n] = "loaded"
       /\ e = "FailedToReload" => Outcomes[n] = "failed"
       /\ e = "Failure" => Outcomes[n] = "over"
  BY <1>6, <1>7 DEF Outcomes
<1>11. Outcomes'[n] = "over" /\ \A m \in Reloads : m # n => Outcomes'[m] = Outcomes[m]
  BY <1>6, <1>8, <1>9 DEF Outcomes
<1>12. Outcomes' = [Outcomes EXCEPT ![n] = "over"]
  BY <1>11 DEF Outcomes
<1> QED BY <1>2, <1>5, <1>10, <1>12

-----------------------------------------------------------------------------
(* The refinement                                                           *)

\* The initial state is one of ModelServing.
LEMMA InitServing == Init => Serving!Init
<1> SUFFICES ASSUME Init PROVE Serving!Init
  OBVIOUS
<1>1. Outcomes = [n \in Reloads |-> "none"]
  BY DEF Init, Outcomes
<1> QED BY <1>1 DEF Init, NoModel, Serving!Init

\* A step that touches neither the FSM nor the asks is no step of ModelServing.
LEMMA Stutter ==
    ASSUME UNCHANGED <<fsm, data, issued, protocol, phase, answers>>
    PROVE  UNCHANGED Serving!vars
<1>1. Outcomes' = Outcomes
  BY DEF Outcomes, Answered
<1> QED BY <1>1 DEF Serving!vars

\* Every handler and callback is a step of ModelServing, or invisible there.
LEMMA StepServing ==
    ServingInv /\ ServingInv' /\ [Next]_vars => [Serving!Next]_Serving!vars
<1> SUFFICES ASSUME ServingInv, ServingInv', [Next]_vars
             PROVE  [Serving!Next]_Serving!vars
  OBVIOUS
<1> USE DEF ServingInv, IInv, fsmVars, conversation, engine
<1>1. ASSUME NEW p \in Protocol \union {NoProtocol}, AcceptReload(p)
      PROVE  Serving!Accept(p)
  <2>1. issued + 1 \in Reloads /\ phase \in [Reloads -> {"none", "over"} \union Waiting]
    BY <1>1 DEF AcceptReload, TypeOK
  <2>2. \A n \in Reloads : \A e : Answered(n, e)' = Answered(n, e)
    BY <1>1 DEF AcceptReload, Answered
  <2>3. Outcomes' = [Outcomes EXCEPT ![issued + 1] = "open"]
    BY <1>1, <2>1, <2>2 DEF AcceptReload, Outcomes
  <2> QED BY <1>1, <2>3 DEF AcceptReload, ToReload, Serving!Accept
<1>2. CASE HandleAnswer
  <2> DEFINE a == Head(answers)
             n == a.reload
  <2>1. /\ n \in Reloads
        /\ a.event = "Reloaded" => Outcomes[n] = "loaded"
        /\ a.event = "FailedToReload" => Outcomes[n] = "failed"
        /\ a.event = "Failure" => Outcomes[n] = "over"
        /\ Outcomes' = [Outcomes EXCEPT ![n] = "over"]
    BY <1>2, NoteStep DEF HandleAnswer
  <2>2. a.event \in {"Reloaded", "FailedToReload", "Failure"}
    <3>1. answers \in Seq(Outcome) /\ answers # <<>>
      BY <1>2 DEF HandleAnswer, TypeOK
    <3>2. a \in Outcome
      BY <3>1, TakeFirst
    <3> QED BY <3>2
  <2>3. CASE a.event = "Failure"
    <3>1. Outcomes' = Outcomes
      BY <2>1, <2>3 DEF Outcomes
    <3>2. UNCHANGED <<fsm, data, issued, protocol>>
      BY <1>2, <2>3 DEF HandleAnswer, AfterAnswer
    <3> QED BY <3>1, <3>2 DEF Serving!vars
  <2>4. CASE a.event # "Failure"
    <3>1. Serving!Note(n)
      BY <1>2, <2>1, <2>2, <2>4 DEF HandleAnswer, AfterAnswer, Model, Serving!Note
    <3> QED BY <2>1, <3>1 DEF Serving!Next
  <2> QED BY <2>3, <2>4
<1>3. CASE HandleStateTimeout
  <2>1. Outcomes' = Outcomes
    BY <1>3 DEF HandleStateTimeout, Outcomes, Answered
  <2>2. Serving!GiveUp
    BY <1>3, <2>1 DEF HandleStateTimeout, TimerIsDue, Serving!GiveUp
  <2> QED BY <2>2 DEF Serving!Next
<1>4. ASSUME UNCHANGED <<fsm, data, issued, protocol, answers>>,
             \A n \in Reloads : \/ phase'[n] = phase[n]
                                \/ /\ phase[n] \in Waiting
                                   /\ phase'[n] \in Waiting \union {"over"}
      PROVE  Serving!Next
  <2> DEFINE lost == {n \in Reloads : phase[n] \in Waiting /\ phase'[n] = "over"}
  <2>1. Serving!Lose(lost)
    BY <1>4, PhaseStep
  <2>2. lost \in SUBSET (1..MaxReloads)
    OBVIOUS
  <2> QED BY <2>1, <2>2 DEF Serving!Next
<1>5. CASE ReloadFromDisk \/ ReloadProtocol
  <2>1. Head(mailbox) \in Reloads /\ phase[Head(mailbox)] = "sent"
    <3>1. mailbox \in Seq(Message) /\ mailbox # <<>> /\ Head(mailbox) # Request
      BY <1>5 DEF ReloadFromDisk, ReloadProtocol, TypeOK
    <3>2. Head(mailbox) = mailbox[1] /\ 1 \in DOMAIN mailbox /\ Head(mailbox) \in Message
      BY <3>1, TakeFirst
    <3> QED BY <3>1, <3>2 DEF Queued
  <2>2. \A n \in Reloads : \/ phase'[n] = phase[n]
                           \/ /\ phase[n] \in Waiting
                              /\ phase'[n] \in Waiting \union {"over"}
    BY <1>5, <2>1 DEF ReloadFromDisk, ReloadProtocol, TypeOK
  <2> QED BY <1>4, <1>5, <2>2 DEF ReloadFromDisk, ReloadProtocol
<1>6. ASSUME NEW n \in Reloads, AllSaved(n) PROVE Serving!Next
  BY <1>4, <1>6 DEF AllSaved, TypeOK
<1>7. CASE Restart
  BY <1>4, <1>7 DEF Restart, TypeOK
<1>8. ASSUME NEW n \in Reloads, AskTimesOut(n) PROVE Serving!Next
  <2>1. phase[n] \in Waiting
    BY <1>8 DEF AskTimesOut
  <2>2. Outcomes[n] = "open" /\ Outcomes' = [Outcomes EXCEPT ![n] = "over"]
    BY <1>8, <2>1, AnswerStep DEF AskTimesOut
  <2>3. Outcomes' = [m \in Reloads |-> IF m \in {n} THEN "over" ELSE Outcomes[m]]
    BY <2>2 DEF Outcomes
  <2>4. Serving!Lose({n})
    BY <1>8, <2>2, <2>3 DEF AskTimesOut, Serving!Lose
  <2>5. {n} \in SUBSET (1..MaxReloads)
    OBVIOUS
  <2> QED BY <2>4, <2>5 DEF Serving!Next
<1>9. ASSUME NEW e \in {"Reloaded", "FailedToReload"}, Return(e)
      PROVE  [Serving!Next]_Serving!vars
  <2>1. rpc \in Reloads
    BY <1>9 DEF Return, TypeOK
  <2>2. CASE phase[rpc] # "loading"
    BY <1>9, <2>2, Stutter DEF Return
  <2>3. CASE phase[rpc] = "loading"
    <3>1. /\ answers' = Append(answers, Answer(rpc, e))
          /\ phase' = [phase EXCEPT ![rpc] = "over"]
      BY <1>9, <2>3 DEF Return
    <3>2. /\ Outcomes[rpc] = "open"
          /\ Outcomes' = [Outcomes EXCEPT ![rpc] =
                IF e = "Reloaded" THEN "loaded"
                ELSE IF e = "FailedToReload" THEN "failed" ELSE "over"]
      BY <2>1, <2>3, <3>1, AnswerStep
    <3>3. Serving!Answer(rpc)
      BY <1>9, <3>2 DEF Return, Serving!Answer
    <3> QED BY <2>1, <3>3 DEF Serving!Next
  <2> QED BY <2>2, <2>3
<1>10. CASE UNCHANGED <<fsm, data, issued, protocol, phase, answers>>
  BY <1>10, Stutter
<1>11. CASE Refuse \/ Forward \/ TimerFires \/ PassRequest \/ Escalate \/ Save
            \/ SaveFails \/ CallRequest \/ CallReload \/ UNCHANGED vars
  BY <1>10, <1>11
  DEF Refuse, Forward, TimerFires, PassRequest, Escalate, Save, SaveFails,
      CallRequest, CallReload, vars
<1> QED
  BY <1>1, <1>2, <1>3, <1>5, <1>6, <1>7, <1>8, <1>9, <1>11
  DEF Next, Client, ReloadSucceeds, ReloadFails, Serving!Next

\* PredictorReload implements ModelServing, for every set of protocols,
\* artifacts and stored versions and any number of reloads, overlapping or
\* not: PredictorFSM becomes Ready by an outcome the engine gave only, takes
\* no outcome for two, and names the protocol of the reload it belongs to.
THEOREM ServesWhatWasLoaded == Spec => ImplementsModelServing
<1> QED
  BY InitServing, StepServing, ServingInvariant, PTL
  DEF Spec, ImplementsModelServing, Serving!Spec
=============================================================================
