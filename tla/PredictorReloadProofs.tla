------------------------ MODULE PredictorReloadProofs ------------------------
(***************************************************************************)
(* Theorems about PredictorReload, for every set of protocols, artifacts,  *)
(* stored versions and every bound.                                        *)
(***************************************************************************)
EXTENDS PredictorReload, MailboxLemmas

Outcome == [reload : Reloads, event : {"Reloaded", "FailedToReload", "Failure"}]
SaveAsk == [reload : Reloads, ask : Asks]
Message == Reloads \union {Request}

-----------------------------------------------------------------------------
(* The saver's mailbox                                                      *)

\* Adding several messages made from the asks 1..k of a conversation.
LEMMA AddAsks ==
    ASSUME NEW q \in Seq(SaveAsk), NEW n \in Reloads,
           NEW k \in 0..Len(ArtifactsToLoad)
    PROVE  q \o [i \in 1..k |-> SaveToLocal(n, i)] \in Seq(SaveAsk)
<1>1. /\ Len(ArtifactsToLoad) \in Nat
      /\ DOMAIN ArtifactsToLoad = 1..Len(ArtifactsToLoad)
  BY LoadAssumption, LenProperties
<1>2. [i \in 1..k |-> SaveToLocal(n, i)] \in [1..k -> SaveAsk]
  BY <1>1 DEF SaveToLocal, SaveAsk, Asks
<1>3. [i \in 1..k |-> SaveToLocal(n, i)] \in Seq(SaveAsk)
  BY <1>1, <1>2, SeqDef
<1> QED BY <1>3, ConcatProperties

-----------------------------------------------------------------------------
(* Types                                                                    *)

USE DEF Reloads, Request, Asks, Waiting, Outcome, SaveAsk, Message, Answer

\* The actors start with values of their types.
LEMMA InitTypes == Init => TypeOK
<1> SUFFICES ASSUME Init PROVE TypeOK
  OBVIOUS
<1>1. <<>> \in Seq(Outcome) /\ <<>> \in Seq(Message) /\ <<>> \in Seq(SaveAsk)
  BY EmptySeq
<1>2. /\ answers \in Seq(Outcome) /\ mailbox \in Seq(Message)
      /\ toSave \in Seq(SaveAsk) /\ toProxy \in Seq(Message)
  BY <1>1 DEF Init
<1>3. data \in [kind : {"NoModel", "ToReload", "Model"},
               protocol : Protocol \union {NoProtocol}]
  BY DEF Init, NoModel
<1>4. local \in [Artifact -> File] /\ loaded \in [Artifact -> File]
  BY DEF Init, File
<1>5. /\ phase \in [Reloads -> {"none", "over"} \union Waiting]
      /\ pending \in [Reloads -> SUBSET Asks]
      /\ protocol \in [Reloads -> Protocol \union {NoProtocol}]
  BY DEF Init
<1>6. issued \in 0..MaxReloads
  BY BoundAssumption DEF Init
<1> QED BY <1>2, <1>3, <1>4, <1>5, <1>6 DEF Init, TypeOK

\* Every handler and callback keeps the variables within their types.
LEMMA StepTypes == TypeOK /\ [Next]_vars => TypeOK'
<1> SUFFICES ASSUME TypeOK, [Next]_vars PROVE TypeOK'
  OBVIOUS
<1> USE BoundAssumption, LoadAssumption DEF TypeOK, fsmVars, conversation, engine
<1>1. ASSUME NEW p \in Protocol \union {NoProtocol}, AcceptReload(p)
      PROVE  TypeOK'
  <2>1. issued + 1 \in Reloads
    BY <1>1 DEF AcceptReload
  <2>2. mailbox' \in Seq(Message)
    BY <1>1, <2>1, AddLast DEF AcceptReload
  <2>3. data' \in [kind : {"NoModel", "ToReload", "Model"},
                  protocol : Protocol \union {NoProtocol}]
    BY <1>1 DEF AcceptReload, ToReload
  <2>4. alone' \in BOOLEAN
    BY <1>1 DEF AcceptReload, Idle
  <2>5. issued' \in 0..MaxReloads
    BY <1>1 DEF AcceptReload
  <2>6. /\ protocol' \in [Reloads -> Protocol \union {NoProtocol}]
        /\ phase' \in [Reloads -> {"none", "over"} \union Waiting]
    BY <1>1, <2>1 DEF AcceptReload
  <2> QED BY <1>1, <2>2, <2>3, <2>4, <2>5, <2>6 DEF AcceptReload
<1>2. CASE Refuse
  BY <1>2 DEF Refuse
<1>3. CASE Forward
  BY <1>3, AddLast DEF Forward
<1>4. CASE HandleAnswer
  BY <1>4, TakeFirst DEF HandleAnswer, AfterAnswer, Model
<1>5. CASE TimerFires
  BY <1>5 DEF TimerFires
<1>6. CASE HandleStateTimeout
  BY <1>6 DEF HandleStateTimeout
<1>7. CASE ReloadFromDisk
  BY <1>7, TakeFirst, AddLast DEF ReloadFromDisk
<1>8. CASE ReloadProtocol
  <2>1. Head(mailbox) \in Reloads /\ mailbox' \in Seq(Message)
    BY <1>8, TakeFirst DEF ReloadProtocol
  <2>2. toSave' \in Seq(SaveAsk)
    <3>1. PICK k \in 0..Len(ArtifactsToLoad) :
            toSave' = toSave \o [i \in 1..k |-> SaveToLocal(Head(mailbox), i)]
      BY <1>8 DEF ReloadProtocol
    <3>2. toSave \in Seq(SaveAsk)
      OBVIOUS
    <3> QED BY <2>1, <3>1, <3>2, AddAsks
  <2>3. phase' \in [Reloads -> {"none", "over"} \union Waiting]
    BY <1>8, <2>1 DEF ReloadProtocol
  <2>4. pending' \in [Reloads -> SUBSET Asks] /\ actor' \in {"up", "restarting"}
    BY <1>8, <2>1 DEF ReloadProtocol
  <2> QED BY <1>8, <2>1, <2>2, <2>3, <2>4 DEF ReloadProtocol
<1>9. CASE PassRequest
  BY <1>9, TakeFirst, AddLast DEF PassRequest
<1>10. ASSUME NEW n \in Reloads, AllSaved(n) PROVE TypeOK'
  BY <1>10, AddLast DEF AllSaved
<1>11. ASSUME NEW n \in Reloads, AskTimesOut(n) PROVE TypeOK'
  BY <1>11, AddLast DEF AskTimesOut
<1>12. CASE Escalate
  BY <1>12 DEF Escalate
<1>13. CASE Restart
  BY <1>13, EmptySeq DEF Restart
<1>14. CASE Save
  <2> DEFINE m == Head(toSave)
  <2>1. m \in SaveAsk /\ toSave' \in Seq(SaveAsk)
    BY <1>14, TakeFirst DEF Save
  <2>2. pending' \in [Reloads -> SUBSET Asks]
    BY <1>14, <2>1 DEF Save
  <2>3. local' \in [Artifact -> File]
    <3>1. <<FileOf(m), VersionOf(m)>> \in Remote => VersionOf(m) \in File
      BY RemoteAssumption DEF File
    <3> QED BY <1>14, <3>1 DEF Save
  <2> QED BY <1>14, <2>1, <2>2, <2>3 DEF Save
<1>15. CASE SaveFails
  <2> DEFINE m == Head(toSave)
  <2>1. m \in SaveAsk /\ toSave' \in Seq(SaveAsk)
    BY <1>15, TakeFirst DEF SaveFails
  <2>2. local' \in [Artifact -> File]
    <3>1. \E v \in {local[FileOf(m)], NoFile, Torn} :
             local' = [local EXCEPT ![FileOf(m)] = v]
      BY <1>15 DEF SaveFails
    <3>2. local \in [Artifact -> File] /\ NoFile \in File /\ Torn \in File
      BY DEF File
    <3> HIDE DEF TypeOK, m
    <3> QED BY <3>1, <3>2
  <2> QED BY <1>15, <2>1, <2>2 DEF SaveFails
<1>16. CASE CallRequest
  BY <1>16, TakeFirst DEF CallRequest
<1>17. CASE CallReload
  BY <1>17, TakeFirst DEF CallReload
<1>18. ASSUME NEW e \in {"Reloaded", "FailedToReload"}, Return(e),
              EngineLoads \/ UNCHANGED engine
       PROVE  TypeOK'
  <2>1. rpc \in Reloads
    BY <1>18 DEF Return
  <2>2. answers' \in Seq(Outcome) /\ phase' \in [Reloads -> {"none", "over"} \union Waiting]
    <3>1. CASE phase[rpc] = "loading"
      <4>1. Answer(rpc, e) \in Outcome /\ answers \in Seq(Outcome)
        BY <2>1
      <4>2. answers' = Append(answers, Answer(rpc, e))
        BY <1>18, <3>1 DEF Return
      <4>3. answers' \in Seq(Outcome)
        BY <4>1, <4>2, AddLast
      <4> QED BY <1>18, <2>1, <3>1, <4>3 DEF Return
    <3>2. CASE phase[rpc] # "loading"
      BY <1>18, <3>2 DEF Return
    <3> QED BY <3>1, <3>2
  <2>3. served' \in Reloads \union {0} /\ loaded' \in [Artifact -> File]
    BY <1>18, <2>1 DEF EngineLoads
  <2> QED BY <1>18, <2>1, <2>2, <2>3 DEF Return
<1>19. CASE UNCHANGED vars
  BY <1>19 DEF vars
<1> QED
  BY <1>1, <1>2, <1>3, <1>4, <1>5, <1>6, <1>7, <1>8, <1>9, <1>10, <1>11, <1>12,
     <1>13, <1>14, <1>15, <1>16, <1>17, <1>18, <1>19
  DEF Next, Client, ReloadSucceeds, ReloadFails

\* Every state of PredictorFSM, OnlineAction, the saver and the proxy is one
\* its code can hold.
THEOREM Types == Spec => []TypeOK
<1> QED BY InitTypes, StepTypes, PTL DEF Spec

-----------------------------------------------------------------------------
(* The inductive invariant                                                  *)

\* What the latest reload wants on the disk, and whether the store has it.
Wanted(i) == Split[protocol[issued]][ArtifactsToLoad[i]]
Stored(i) == <<ArtifactsToLoad[i], Wanted(i)>> \in Remote
FreshIn(files, asks) ==
    protocol[issued] # NoProtocol =>
        \A i \in asks : Stored(i) => files[ArtifactsToLoad[i]] = Wanted(i)

NoReload(q) == q \in Seq({Request})
Once(q, n) ==
    \E i \in DOMAIN q :
        q[i] = n /\ \A j \in DOMAIN q : j # i => q[j] = Request

Up == actor = "up" /\ saver = "up"
Free == toSave = <<>> /\ NoReload(toProxy) /\ rpc = 0 /\ Up

\* The latest reload went all the way and left nothing behind.
Settled ==
    /\ phase[issued] = "over" /\ Free
    /\ served = issued /\ FreshIn(loaded, Asks)

Numbered == \A n \in Reloads : phase[n] = "none" <=> n > issued

Queued ==
    \A i, j \in DOMAIN mailbox :
        mailbox[i] # Request =>
            /\ phase[mailbox[i]] = "sent"
            /\ mailbox[i] = mailbox[j] => i = j

\* Whatever is under way belongs to the latest reload.
OnlyLatest ==
    /\ \A m \in Reloads \ {issued} : phase[m] \notin Waiting
    /\ toSave \in Seq([reload : {issued}, ask : Asks])
    /\ toProxy \in Seq({Request, issued})
    /\ rpc \in {0, issued}
    /\ answers \in Seq([reload : {issued},
                        event : {"Reloaded", "FailedToReload", "Failure"}])

StageSent == phase[issued] = "sent" => Free

StageSaving ==
    phase[issued] = "saving" =>
        /\ NoReload(toProxy) /\ rpc = 0
        /\ \A i, j \in DOMAIN toSave :
              /\ toSave[i].ask \in pending[issued]
              /\ toSave[i].ask = toSave[j].ask => i = j
        /\ ~Up => saver = "failed" /\ pending[issued] # {}
        /\ Up => FreshIn(local, Asks \ pending[issued])

StageLoading ==
    phase[issued] = "loading" =>
        /\ toSave = <<>> /\ Up
        /\ \/ rpc = issued /\ NoReload(toProxy)
           \/ rpc = 0 /\ Once(toProxy, issued)
        /\ FreshIn(local, Asks)

StageAnswered ==
    \A i \in DOMAIN answers : answers[i].event = "Reloaded" => Settled

StageReady ==
    fsm = "Ready" =>
        Settled /\ answers = <<>> /\ data = Model(protocol[issued])

\* A reload that was issued alone goes through its stages one by one.
Stages ==
    /\ OnlyLatest
    /\ issued = 0 => fsm # "Ready"
    /\ issued # 0 => /\ StageSent /\ StageSaving /\ StageLoading
                     /\ StageAnswered /\ StageReady

IInv ==
    /\ TypeOK
    /\ Numbered /\ Queued /\ OneOutcome
    /\ alone => Stages

-----------------------------------------------------------------------------
(* Conversations are numbered in order, sent once and answered once         *)

\* Only outcomes wait in the FSM's mailbox.
LEMMA AnswerTypes == TypeOK => \A i \in DOMAIN answers : answers[i] \in Outcome
<1> SUFFICES ASSUME TypeOK, NEW i \in DOMAIN answers PROVE answers[i] \in Outcome
  OBVIOUS
<1> answers \in Seq(Outcome)
  BY DEF TypeOK
<1> QED BY ElementIn

\* A message taken from a mailbox leaves the others as they were.
LEMMA QueuedTail ==
    ASSUME TypeOK, Queued, mailbox # <<>>, mailbox' = Tail(mailbox),
           \A n \in Reloads : n # Head(mailbox) => phase'[n] = phase[n]
    PROVE  Queued'
<1>1. mailbox \in Seq(Message) /\ mailbox' \in Seq(Message)
  BY TakeFirst DEF TypeOK
<1>2. ASSUME NEW i \in DOMAIN mailbox', NEW j \in DOMAIN mailbox',
             mailbox'[i] # Request
      PROVE  /\ phase'[mailbox'[i]] = "sent"
             /\ mailbox'[i] = mailbox'[j] => i = j
  <2>1. /\ i + 1 \in DOMAIN mailbox /\ mailbox'[i] = mailbox[i + 1]
        /\ j + 1 \in DOMAIN mailbox /\ mailbox'[j] = mailbox[j + 1]
        /\ 1 \in DOMAIN mailbox /\ Head(mailbox) = mailbox[1]
        /\ i + 1 # 1 /\ (i # j => i + 1 # j + 1)
    BY <1>1, <1>2, TakeFirst
  <2>2. /\ phase[mailbox[i + 1]] = "sent"
        /\ mailbox[i + 1] = mailbox[j + 1] => i + 1 = j + 1
        /\ mailbox[i + 1] = mailbox[1] => i + 1 = 1
    BY <1>2, <2>1 DEF Queued
  <2>3. mailbox[i + 1] \in Reloads
    BY <1>1, <1>2, <2>1, ElementIn
  <2> QED BY <2>1, <2>2, <2>3
<1> QED BY <1>2 DEF Queued

\* A message added to the mailbox is new, or a client request.
LEMMA QueuedAppend ==
    ASSUME TypeOK, Queued, NEW e \in Message, mailbox' = Append(mailbox, e),
           e # Request => phase'[e] = "sent" /\ phase[e] # "sent",
           \A n \in Reloads : n # e => phase'[n] = phase[n]
    PROVE  Queued'
<1> mailbox \in Seq(Message)
  BY DEF TypeOK
<1>1. PICK last \in DOMAIN mailbox' :
        /\ last \notin DOMAIN mailbox /\ mailbox'[last] = e
        /\ \A i \in DOMAIN mailbox' : i # last => i \in DOMAIN mailbox
  BY AddLast
<1>2. \A i \in DOMAIN mailbox : i \in DOMAIN mailbox' /\ mailbox'[i] = mailbox[i]
  BY AddLast DEF TypeOK
<1>3. \A i \in DOMAIN mailbox : mailbox[i] \in Message
  BY ElementIn DEF TypeOK
<1>4. \A i \in DOMAIN mailbox : mailbox[i] # Request =>
         phase[mailbox[i]] = "sent" /\ mailbox[i] # e
  BY DEF Queued
<1> QED BY <1>1, <1>2, <1>3, <1>4 DEF Queued

\* An outcome taken from the FSM's mailbox.
LEMMA OutcomeTail ==
    ASSUME TypeOK, OneOutcome, answers # <<>>, answers' = Tail(answers),
           phase' = phase
    PROVE  OneOutcome'
<1>1. \A i \in DOMAIN answers' : i + 1 \in DOMAIN answers /\ answers'[i] = answers[i + 1]
  BY TakeFirst DEF TypeOK
<1>2. \A i, j \in DOMAIN answers' : i # j => i + 1 # j + 1
  BY TakeFirst DEF TypeOK
<1> QED BY <1>1, <1>2 DEF OneOutcome

\* The outcome of a conversation that had none yet.
LEMMA OutcomeAppend ==
    ASSUME TypeOK, OneOutcome, NEW n \in Reloads,
           NEW e \in {"Reloaded", "FailedToReload", "Failure"},
           answers' = Append(answers, Answer(n, e)),
           phase[n] # "over", phase' = [phase EXCEPT ![n] = "over"]
    PROVE  OneOutcome'
<1>1. Answer(n, e) \in Outcome /\ answers \in Seq(Outcome)
  BY DEF TypeOK
<1>2. PICK last \in DOMAIN answers' :
        /\ last \notin DOMAIN answers /\ answers'[last] = Answer(n, e)
        /\ \A i \in DOMAIN answers' : i # last => i \in DOMAIN answers
  BY <1>1, AddLast
<1>3. \A i \in DOMAIN answers : i \in DOMAIN answers' /\ answers'[i] = answers[i]
  BY <1>1, AddLast
<1>4. \A i \in DOMAIN answers : answers[i].reload # n /\ answers[i].reload \in Reloads
  BY AnswerTypes DEF OneOutcome
<1>5. \A m \in Reloads : phase'[m] = IF m = n THEN "over" ELSE phase[m]
  BY DEF TypeOK
<1> QED BY <1>2, <1>3, <1>4, <1>5 DEF OneOutcome

\* A phase change of conversations that are not over disturbs no outcome.
LEMMA OutcomeKept ==
    ASSUME TypeOK, OneOutcome, answers' = answers,
           \A n \in Reloads : phase[n] = "over" => phase'[n] = "over"
    PROVE  OneOutcome'
<1>1. \A i \in DOMAIN answers : answers[i].reload \in Reloads
  BY AnswerTypes
<1> QED BY <1>1 DEF OneOutcome

\* A phase change of conversations that left the mailbox disturbs nothing in it.
LEMMA QueuedKept ==
    ASSUME TypeOK, Queued, mailbox' = mailbox,
           \A n \in Reloads : phase[n] = "sent" => phase'[n] = "sent"
    PROVE  Queued'
<1>1. \A i \in DOMAIN mailbox : mailbox[i] # Request => mailbox[i] \in Reloads
  BY ElementIn DEF TypeOK
<1> QED BY <1>1 DEF Queued

Ordered == Numbered /\ Queued /\ OneOutcome

\* No step reuses a conversation's number, its place in OnlineAction's mailbox
\* or its outcome.
LEMMA StepOrdered == TypeOK /\ TypeOK' /\ Ordered /\ [Next]_vars => Ordered'
<1> SUFFICES ASSUME TypeOK, TypeOK', Numbered, Queued, OneOutcome, [Next]_vars
             PROVE  Numbered' /\ Queued' /\ OneOutcome'
  BY DEF Ordered
<1> USE BoundAssumption DEF fsmVars, conversation, engine
<1>0. phase \in [Reloads -> {"none", "over"} \union Waiting] /\ issued \in 0..MaxReloads
  BY DEF TypeOK
<1>1. ASSUME NEW p \in Protocol \union {NoProtocol}, AcceptReload(p)
      PROVE  Numbered' /\ Queued' /\ OneOutcome'
  <2>1. issued + 1 \in Reloads /\ phase[issued + 1] = "none"
    BY <1>1, <1>0 DEF AcceptReload, Numbered
  <2>2. \A m \in Reloads : phase'[m] = IF m = issued + 1 THEN "sent" ELSE phase[m]
    BY <1>1, <1>0, <2>1 DEF AcceptReload
  <2>3. Numbered'
    BY <1>1, <1>0, <2>1, <2>2 DEF AcceptReload, Numbered
  <2>4. Queued'
    BY <1>1, <2>1, <2>2, QueuedAppend DEF AcceptReload
  <2>5. OneOutcome'
    BY <1>1, <2>1, <2>2, OutcomeKept DEF AcceptReload
  <2> QED BY <2>3, <2>4, <2>5
<1>2. CASE Forward
  <2>1. Queued'
    BY <1>2, QueuedAppend DEF Forward
  <2> QED BY <1>2, <2>1, OutcomeKept DEF Forward, Numbered
<1>3. CASE HandleAnswer
  BY <1>3, OutcomeTail, QueuedKept DEF HandleAnswer, Numbered
<1>4. CASE ReloadFromDisk \/ ReloadProtocol
  <2> DEFINE n == Head(mailbox)
  <2>1. n \in Reloads /\ mailbox # <<>> /\ mailbox' = Tail(mailbox)
    BY <1>4, TakeFirst DEF ReloadFromDisk, ReloadProtocol, TypeOK
  <2>2. phase[n] = "sent"
    BY <1>4, <2>1, TakeFirst DEF ReloadFromDisk, ReloadProtocol, Queued, TypeOK
  <2>3. /\ \A m \in Reloads : m # n => phase'[m] = phase[m]
        /\ phase'[n] # "none" /\ issued' = issued /\ answers' = answers
    BY <1>4, <1>0, <2>1 DEF ReloadFromDisk, ReloadProtocol
  <2>4. Numbered'
    BY <2>1, <2>2, <2>3 DEF Numbered
  <2>5. Queued'
    BY <2>1, <2>3, QueuedTail
  <2>6. OneOutcome'
    BY <2>1, <2>2, <2>3, OutcomeKept
  <2> QED BY <2>4, <2>5, <2>6
<1>5. CASE PassRequest
  BY <1>5, QueuedTail, OutcomeKept DEF PassRequest, Numbered
<1>6. ASSUME NEW n \in Reloads, AllSaved(n)
      PROVE  Numbered' /\ Queued' /\ OneOutcome'
  <2>1. \A m \in Reloads : phase'[m] = IF m = n THEN "loading" ELSE phase[m]
    BY <1>6, <1>0 DEF AllSaved
  <2>2. phase[n] = "saving" /\ mailbox' = mailbox /\ answers' = answers
    BY <1>6 DEF AllSaved
  <2>3. Numbered'
    BY <1>6, <2>1, <2>2 DEF AllSaved, Numbered
  <2> QED BY <2>1, <2>2, <2>3, QueuedKept, OutcomeKept
<1>7. ASSUME NEW n \in Reloads, NEW e \in {"Reloaded", "FailedToReload", "Failure"},
             phase[n] \in {"saving", "loading", "orphan"},
             phase' = [phase EXCEPT ![n] = "over"],
             answers' = Append(answers, Answer(n, e)),
             UNCHANGED <<issued, mailbox>>
      PROVE  Numbered' /\ Queued' /\ OneOutcome'
  <2>1. \A m \in Reloads : phase'[m] = IF m = n THEN "over" ELSE phase[m]
    BY <1>7, <1>0
  <2>2. Numbered'
    BY <1>7, <2>1 DEF Numbered
  <2>3. Queued'
    BY <1>7, <2>1, QueuedKept
  <2>4. OneOutcome'
    BY <1>7, OutcomeAppend
  <2> QED BY <2>2, <2>3, <2>4
<1>8. ASSUME NEW n \in Reloads, AskTimesOut(n)
      PROVE  Numbered' /\ Queued' /\ OneOutcome'
  <2>1. /\ phase[n] \in {"saving", "loading", "orphan"}
        /\ phase' = [phase EXCEPT ![n] = "over"]
        /\ answers' = Append(answers, Answer(n, "Failure"))
        /\ UNCHANGED <<issued, mailbox>>
    BY <1>8 DEF AskTimesOut
  <2> QED BY <2>1, <1>7
<1>9. CASE Restart
  <2>1. \A m \in Reloads :
           phase'[m] # phase[m] =>
              phase[m] \in {"saving", "loading"} /\ phase'[m] \in {"over", "orphan"}
    BY <1>9 DEF Restart
  <2>2. issued' = issued /\ mailbox' = mailbox /\ answers' = answers
    BY <1>9 DEF Restart
  <2>3. Numbered'
    BY <2>1, <2>2 DEF Numbered
  <2>4. Queued'
    BY <2>1, <2>2, QueuedKept
  <2>5. OneOutcome'
    BY <2>1, <2>2, OutcomeKept
  <2> QED BY <2>3, <2>4, <2>5
<1>10. ASSUME NEW e \in {"Reloaded", "FailedToReload"}, Return(e)
       PROVE  Numbered' /\ Queued' /\ OneOutcome'
  <2>1. CASE phase[rpc] = "loading"
    <3>1. /\ rpc \in Reloads /\ phase' = [phase EXCEPT ![rpc] = "over"]
          /\ answers' = Append(answers, Answer(rpc, e))
          /\ UNCHANGED <<issued, mailbox>>
      BY <1>10, <2>1 DEF Return, TypeOK
    <3> QED BY <2>1, <3>1, <1>7
  <2>2. CASE phase[rpc] # "loading"
    BY <1>10, <2>2, QueuedKept, OutcomeKept DEF Return, Numbered
  <2> QED BY <2>1, <2>2
<1>11. CASE UNCHANGED <<issued, phase, mailbox, answers>>
  BY <1>11, QueuedKept, OutcomeKept DEF Numbered
<1>12. CASE Refuse \/ TimerFires \/ HandleStateTimeout \/ Escalate \/ Save
            \/ SaveFails \/ CallRequest \/ CallReload \/ UNCHANGED vars
  BY <1>11, <1>12
  DEF Refuse, TimerFires, HandleStateTimeout, Escalate, Save, SaveFails,
      CallRequest, CallReload, vars
<1> QED
  BY <1>1, <1>2, <1>3, <1>4, <1>5, <1>6, <1>8, <1>9, <1>10, <1>12
  DEF Next, Client, ReloadSucceeds, ReloadFails
-----------------------------------------------------------------------------
(* A reload issued alone goes through its stages                            *)

\* Narrowing the elements of a sequence.
LEMMA SeqOf ==
    ASSUME NEW S, NEW T, NEW q \in Seq(S), \A i \in DOMAIN q : q[i] \in T
    PROVE  q \in Seq(T)
<1>1. Len(q) \in Nat /\ DOMAIN q = 1..Len(q) /\ q \in [1..Len(q) -> S]
  BY LenProperties
<1>2. q \in [1..Len(q) -> T]
  BY <1>1
<1> QED BY <1>1, <1>2, SeqDef

\* The proxy's mailbox gets the reload, or hands something on.
LEMMA OnceAdded ==
    ASSUME NEW q \in Seq({Request}), NEW n
    PROVE  Once(Append(q, n), n)
<1> q \in Seq({Request, n})
  BY SeqMonotonic
<1>1. \A i \in DOMAIN q : q[i] = Request
  BY ElementIn
<1> QED BY <1>1, AddLast DEF Once

\* A client request behind the call of reload n leaves that the only reload.
LEMMA OnceWithRequest ==
    ASSUME NEW n, NEW q \in Seq({Request, n}), Once(q, n)
    PROVE  Once(Append(q, Request), n)
<1>1. PICK i \in DOMAIN q :
        q[i] = n /\ \A j \in DOMAIN q : j # i => q[j] = Request
  BY DEF Once
<1>2. PICK last \in DOMAIN Append(q, Request) :
        /\ last \notin DOMAIN q /\ Append(q, Request)[last] = Request
        /\ \A j \in DOMAIN Append(q, Request) : j # last => j \in DOMAIN q
  BY AddLast
<1>3. \A j \in DOMAIN q : j \in DOMAIN Append(q, Request) /\ Append(q, Request)[j] = q[j]
  BY AddLast
<1>4. i \in DOMAIN Append(q, Request) /\ Append(q, Request)[i] = n
  BY <1>1, <1>3
<1>5. \A j \in DOMAIN Append(q, Request) : j # i => Append(q, Request)[j] = Request
  BY <1>1, <1>2, <1>3
<1> QED BY <1>4, <1>5 DEF Once

\* When the proxy takes the call of reload n, no other reload is left.
LEMMA OnceTaken ==
    ASSUME NEW n, n # Request, NEW q \in Seq({Request, n}), q # <<>>, Once(q, n)
    PROVE  IF Head(q) = Request THEN Once(Tail(q), n)
           ELSE Head(q) = n /\ NoReload(Tail(q))
<1>1. PICK i \in DOMAIN q :
        q[i] = n /\ \A j \in DOMAIN q : j # i => q[j] = Request
  BY DEF Once
<1>2. /\ Head(q) = q[1] /\ 1 \in DOMAIN q
      /\ Tail(q) \in Seq({Request, n})
      /\ \A j \in DOMAIN Tail(q) : Tail(q)[j] = q[j + 1] /\ j + 1 \in DOMAIN q /\ j + 1 # 1
  BY TakeFirst
<1>3. CASE i = 1
  <2>1. \A j \in DOMAIN Tail(q) : Tail(q)[j] \in {Request}
    BY <1>1, <1>2, <1>3
  <2> QED BY <1>1, <1>2, <1>3, <2>1, SeqOf DEF NoReload
<1>4. CASE i # 1
  <2>1. Len(q) \in Nat \ {0} /\ DOMAIN q = 1..Len(q)
    BY EmptySeq, LenProperties
  <2>2. Len(Tail(q)) = Len(q) - 1 /\ DOMAIN Tail(q) = 1..(Len(q) - 1)
    BY <1>2, <2>1, HeadTailProperties, LenProperties
  <2>3. i - 1 \in DOMAIN Tail(q) /\ Tail(q)[i - 1] = n
    BY <1>1, <1>2, <1>4, <2>1, <2>2
  <2>4. \A j \in DOMAIN Tail(q) : j # i - 1 => Tail(q)[j] = Request
    BY <1>1, <1>2, <2>1, <2>2
  <2> QED BY <1>1, <1>2, <1>4, <2>3, <2>4 DEF Once
<1> QED BY <1>3, <1>4

\* A conversation has no more than one outcome.
LEMMA SingleOutcome ==
    ASSUME TypeOK, OneOutcome, OnlyLatest, answers # <<>>
    PROVE  /\ issued \in Reloads /\ phase[issued] = "over"
           /\ Head(answers).reload = issued /\ Head(answers) = answers[1]
           /\ 1 \in DOMAIN answers /\ Tail(answers) = <<>>
<1>1. /\ answers \in Seq(Outcome)
      /\ answers \in Seq([reload : {issued},
                        event : {"Reloaded", "FailedToReload", "Failure"}])
  BY DEF TypeOK, OnlyLatest
<1>2. ASSUME NEW i \in DOMAIN answers
      PROVE  answers[i].reload = issued /\ answers[i].reload \in Reloads
  <2>1. answers[i] \in [reload : {issued},
                        event : {"Reloaded", "FailedToReload", "Failure"}]
    BY <1>1, ElementIn
  <2> QED BY <2>1, AnswerTypes
<1>3. Len(answers) \in Nat \ {0} /\ DOMAIN answers = 1..Len(answers)
  BY <1>1, EmptySeq, LenProperties
<1>4. 1 \in DOMAIN answers /\ Head(answers) = answers[1]
  BY <1>1, TakeFirst
<1>5. Len(answers) = 1
  <2>1. \A i \in DOMAIN answers : i = 1
    BY <1>2, <1>4 DEF OneOutcome
  <2> QED BY <1>3, <2>1
<1>6. Tail(answers) \in Seq(Outcome) /\ Len(Tail(answers)) = 0
  BY <1>1, <1>5, HeadTailProperties
<1>7. Tail(answers) = <<>>
  BY <1>6, EmptySeq
<1> QED BY <1>2, <1>4, <1>7 DEF OneOutcome
\* A new reload that finds nothing under way is in its first stage.
LEMMA AcceptStages ==
    ASSUME TypeOK, TypeOK', Ordered, NEW p \in Protocol \union {NoProtocol},
           AcceptReload(p), alone'
    PROVE  Stages'
<1> USE BoundAssumption DEF TypeOK
<1>1. Idle /\ issued' = issued + 1 /\ issued + 1 \in Reloads
  BY DEF AcceptReload
<1>2. \A m \in Reloads : ~InFlight(m)
  BY <1>1 DEF Idle
<1>3. \A m \in Reloads : /\ phase[m] \notin Waiting /\ rpc # m
                         /\ \A i \in DOMAIN toSave : toSave[i].reload # m
                         /\ \A i \in DOMAIN toProxy : toProxy[i] # m
                         /\ \A i \in DOMAIN answers : answers[i].reload # m
  BY <1>2 DEF InFlight
<1>4. toProxy \in Seq({Request})
  <2>1. toProxy \in Seq(Message) /\ \A i \in DOMAIN toProxy : toProxy[i] \in Message
    BY ElementIn
  <2>2. \A i \in DOMAIN toProxy : toProxy[i] \in {Request}
    BY <1>3, <2>1
  <2> QED BY <2>1, <2>2, SeqOf
<1>5. toSave = <<>>
  <2>1. toSave \in Seq(SaveAsk)
    OBVIOUS
  <2>2. \A i \in DOMAIN toSave : toSave[i] \notin SaveAsk
    BY <1>3
  <2> QED BY <2>1, <2>2, NothingIn
<1>6. answers = <<>>
  <2>1. answers \in Seq(Outcome)
    OBVIOUS
  <2>2. \A i \in DOMAIN answers : answers[i] \notin Outcome
    BY <1>3
  <2> QED BY <2>1, <2>2, NothingIn
<1>7. rpc = 0 /\ Up
  BY <1>1, <1>3 DEF Idle, Up
<1>8. /\ UNCHANGED <<toProxy, toSave, answers, rpc, actor, saver>>
      /\ fsm' = "Reloading" /\ phase' = [phase EXCEPT ![issued + 1] = "sent"]
  BY DEF AcceptReload
<1>9. phase'[issued'] = "sent" /\ \A m \in Reloads \ {issued'} : phase'[m] = phase[m]
  BY <1>1, <1>8
<1>10. OnlyLatest'
  <2>1. toSave' \in Seq([reload : {issued'}, ask : Asks])
    BY <1>5, <1>8, EmptySeq
  <2>2. answers' \in Seq([reload : {issued'},
                    event : {"Reloaded", "FailedToReload", "Failure"}])
    BY <1>6, <1>8, EmptySeq
  <2>3. toProxy' \in Seq({Request, issued'})
    BY <1>4, <1>8, SeqMonotonic
  <2> QED BY <1>3, <1>7, <1>8, <1>9, <2>1, <2>2, <2>3 DEF OnlyLatest
<1>11. StageSent'
  BY <1>4, <1>5, <1>7, <1>8 DEF StageSent, Free, Up, NoReload
<1>12. StageSaving' /\ StageLoading'
  BY <1>9 DEF StageSaving, StageLoading
<1>13. StageAnswered' /\ StageReady'
  BY <1>6, <1>8 DEF StageAnswered, StageReady
<1> QED BY <1>1, <1>8, <1>10, <1>11, <1>12, <1>13 DEF Stages

\* A step that does not touch the reload machinery keeps the stages.
LEMMA QuietStages ==
    ASSUME TypeOK, Ordered, alone, Stages,
           UNCHANGED <<issued, protocol, phase, pending, actor, toSave, saver,
                       rpc, local, served, loaded>>,
           answers' = answers, toProxy' = toProxy,
           fsm' = fsm \/ fsm' # "Ready", data' = data \/ fsm' # "Ready"
    PROVE  Stages'
<1>1. OnlyLatest'
  BY DEF Stages, OnlyLatest
<1>2. (issued = 0 => fsm # "Ready")'
  BY DEF Stages
<1>3. ASSUME issued # 0 PROVE StageSent' /\ StageSaving'
  BY <1>3 DEF Stages, StageSent, StageSaving, Free, Up, NoReload, FreshIn, Stored, Wanted
<1>4. ASSUME issued # 0 PROVE StageLoading'
  BY <1>4 DEF Stages, StageLoading, Once, Up, NoReload, FreshIn, Stored, Wanted
<1>5. Settled' = Settled
  BY DEF Settled, Free, Up, NoReload, FreshIn, Stored, Wanted
<1>6. ASSUME issued # 0 PROVE StageAnswered' /\ StageReady'
  BY <1>5, <1>6 DEF Stages, StageAnswered, StageReady, Model
<1> QED BY <1>1, <1>2, <1>3, <1>4, <1>6 DEF Stages
\* The FSM takes an outcome.
LEMMA AnswerStages ==
    ASSUME TypeOK, Ordered, Stages, HandleAnswer
    PROVE  Stages'
<1> DEFINE a == Head(answers)
<1>1. /\ issued \in Reloads /\ phase[issued] = "over" /\ a.reload = issued
      /\ a = answers[1] /\ 1 \in DOMAIN answers /\ answers' = <<>>
  BY SingleOutcome DEF HandleAnswer, Stages, Ordered
<1>2. UNCHANGED <<issued, protocol, phase, pending, actor, toSave, saver, toProxy,
                  rpc, local, served, loaded>>
  BY DEF HandleAnswer, conversation, engine
<1>3. OnlyLatest'
  BY <1>1, <1>2, EmptySeq DEF Stages, OnlyLatest
<1>4. issued # 0
  BY <1>1
<1>5. Settled' = Settled
  BY <1>2 DEF Settled, Free, Up, NoReload, FreshIn, Stored, Wanted
<1>6. fsm' = "Ready" /\ fsm # "Ready" =>
         a.event = "Reloaded" /\ data' = Model(protocol[issued])
  BY <1>1 DEF HandleAnswer, AfterAnswer
<1>7. fsm = "Ready" => answers = <<>>
  BY <1>4 DEF Stages, StageReady
<1>8. fsm' = "Ready" => Settled /\ data' = Model(protocol[issued])
  BY <1>1, <1>4, <1>6, <1>7 DEF Stages, StageAnswered, HandleAnswer
<1>9. StageReady' /\ StageAnswered'
  BY <1>1, <1>2, <1>5, <1>8 DEF StageReady, StageAnswered, Model
<1>10. StageSent' /\ StageSaving' /\ StageLoading'
  BY <1>1, <1>2 DEF StageSent, StageSaving, StageLoading
<1> QED BY <1>2, <1>3, <1>4, <1>9, <1>10 DEF Stages

\* OnlineAction takes the reload from its mailbox: it is the latest one.
LEMMA TakenIsLatest ==
    ASSUME TypeOK, Ordered, Stages, mailbox # <<>>, Head(mailbox) # Request
    PROVE  /\ Head(mailbox) = issued /\ issued \in Reloads
           /\ phase[issued] = "sent" /\ Free /\ answers = <<>>
           /\ fsm # "Ready"
<1>1. Head(mailbox) \in Message /\ 1 \in DOMAIN mailbox /\ Head(mailbox) = mailbox[1]
  BY TakeFirst DEF TypeOK
<1>2. Head(mailbox) \in Reloads /\ phase[Head(mailbox)] = "sent"
  BY <1>1 DEF Ordered, Queued
<1>3. Head(mailbox) = issued
  BY <1>2 DEF Stages, OnlyLatest
<1>4. issued # 0
  BY <1>2, <1>3
<1>5. answers = <<>>
  BY <1>2, <1>3, SingleOutcome DEF Stages, Ordered
<1>6. Free /\ fsm # "Ready"
  BY <1>2, <1>3, <1>4 DEF Stages, StageSent, StageReady, Settled
<1> QED BY <1>2, <1>3, <1>5, <1>6
\* An empty protocol goes straight to the proxy.
LEMMA FromDiskStages ==
    ASSUME TypeOK, Ordered, Stages, ReloadFromDisk
    PROVE  Stages'
<1>1. /\ Head(mailbox) = issued /\ issued \in Reloads
      /\ phase[issued] = "sent" /\ Free /\ answers = <<>> /\ fsm # "Ready"
  BY TakenIsLatest DEF ReloadFromDisk
<1>2. /\ protocol[issued] = NoProtocol
      /\ phase' = [phase EXCEPT ![issued] = "loading"]
      /\ toProxy' = Append(toProxy, issued)
      /\ UNCHANGED <<fsm, issued, protocol, answers, actor, toSave, saver, rpc>>
  BY <1>1 DEF ReloadFromDisk, fsmVars, conversation
<1>3. /\ phase'[issued] = "loading"
      /\ \A m \in Reloads \ {issued} : phase'[m] = phase[m]
  BY <1>1, <1>2 DEF TypeOK
<1>4. toProxy \in Seq({Request})
  BY <1>1 DEF Free, NoReload
<1>5. Once(toProxy', issued) /\ toProxy' \in Seq({Request, issued})
  <2>1. toProxy \in Seq({Request, issued})
    BY <1>4, SeqMonotonic
  <2> QED BY <1>2, <1>4, <2>1, OnceAdded, AddLast
<1>6. OnlyLatest'
  BY <1>2, <1>3, <1>5 DEF Stages, OnlyLatest
<1>7. StageLoading'
  BY <1>1, <1>2, <1>3, <1>5 DEF StageLoading, Free, Up, FreshIn, Once
<1>8. StageSent' /\ StageSaving'
  BY <1>2, <1>3 DEF StageSent, StageSaving
<1>9. StageAnswered' /\ StageReady'
  BY <1>1, <1>2 DEF StageAnswered, StageReady
<1> QED BY <1>1, <1>2, <1>6, <1>7, <1>8, <1>9 DEF Stages

\* What a full round of asks looks like in the saver's mailbox.
LEMMA AllAsks ==
    ASSUME NEW n, NEW k \in 0..Len(ArtifactsToLoad)
    PROVE  LET q == [i \in 1..k |-> SaveToLocal(n, i)]
           IN  /\ q \in Seq([reload : {n}, ask : Asks])
               /\ DOMAIN q \subseteq Asks
               /\ \A i \in DOMAIN q : q[i].ask = i
<1>1. Len(ArtifactsToLoad) \in Nat /\ Asks = 1..Len(ArtifactsToLoad)
  BY LoadAssumption, LenProperties
<1>2. [i \in 1..k |-> SaveToLocal(n, i)] \in [1..k -> [reload : {n}, ask : Asks]]
  BY <1>1 DEF SaveToLocal
<1>3. [i \in 1..k |-> SaveToLocal(n, i)] \in Seq([reload : {n}, ask : Asks])
  BY <1>1, <1>2, SeqDef
<1> QED BY <1>1, <1>3 DEF SaveToLocal

\* A protocol is split and its artifacts are asked for, or it throws.
LEMMA ProtocolStages ==
    ASSUME TypeOK, Ordered, Stages, ReloadProtocol
    PROVE  Stages'
<1>1. /\ Head(mailbox) = issued /\ issued \in Reloads
      /\ phase[issued] = "sent" /\ Free /\ answers = <<>> /\ fsm # "Ready"
  BY TakenIsLatest DEF ReloadProtocol
<1>2. UNCHANGED <<fsm, issued, protocol, answers, saver, toProxy, rpc>>
  BY DEF ReloadProtocol, fsmVars, conversation
<1>3. PICK k \in 0..Len(ArtifactsToLoad) :
         toSave' = toSave \o [i \in 1..k |-> SaveToLocal(issued, i)]
  BY <1>1 DEF ReloadProtocol
<1>4. /\ toSave' \in Seq([reload : {issued}, ask : Asks])
      /\ DOMAIN toSave' \subseteq Asks
      /\ \A i \in DOMAIN toSave' : toSave'[i].ask = i
  <2>1. toSave' = [i \in 1..k |-> SaveToLocal(issued, i)]
    <3>1. [i \in 1..k |-> SaveToLocal(issued, i)] \in Seq([reload : {issued}, ask : Asks])
      BY AllAsks
    <3> QED BY <1>1, <1>3, <3>1, ConcatEmptySeq DEF Free
  <2> QED BY <2>1, AllAsks
<1>5. CASE Throws(protocol[issued])
  <2>1. phase' = [phase EXCEPT ![issued] = "over"]
    BY <1>1, <1>5 DEF ReloadProtocol
  <2>2. /\ phase'[issued] = "over"
        /\ \A m \in Reloads \ {issued} : phase'[m] = phase[m]
    BY <1>1, <2>1 DEF TypeOK
  <2>3. OnlyLatest'
    BY <1>2, <1>4, <2>2 DEF Stages, OnlyLatest
  <2>4. StageSent' /\ StageSaving' /\ StageLoading'
    BY <1>2, <2>2 DEF StageSent, StageSaving, StageLoading
  <2> QED BY <1>1, <1>2, <2>3, <2>4 DEF Stages, StageAnswered, StageReady
<1>6. CASE ~Throws(protocol[issued])
  <2>1. /\ phase' = [phase EXCEPT ![issued] = "saving"]
        /\ pending' = [pending EXCEPT ![issued] = Asks] /\ actor' = actor
    BY <1>1, <1>6 DEF ReloadProtocol
  <2>2. /\ phase'[issued] = "saving" /\ pending'[issued] = Asks
        /\ \A m \in Reloads \ {issued} : phase'[m] = phase[m]
    BY <1>1, <2>1 DEF TypeOK
  <2>3. OnlyLatest'
    BY <1>2, <1>4, <2>2 DEF Stages, OnlyLatest
  <2>4. StageSaving'
    <3>1. FreshIn(local, Asks \ pending[issued])'
      BY <1>2, <2>2 DEF FreshIn
    <3> QED BY <1>1, <1>2, <1>4, <2>1, <2>2, <3>1
            DEF StageSaving, Free, Up, NoReload
  <2>5. StageSent' /\ StageLoading'
    BY <1>2, <2>2 DEF StageSent, StageLoading
  <2> QED BY <1>1, <1>2, <2>3, <2>4, <2>5 DEF Stages, StageAnswered, StageReady
<1> QED BY <1>5, <1>6

\* A client request passes through OnlineAction and the proxy.
LEMMA RequestStages ==
    ASSUME TypeOK, Stages, PassRequest \/ CallRequest
    PROVE  Stages'
<1>1. UNCHANGED <<fsm, data, answers, issued, protocol, phase, pending, actor,
                  toSave, saver, rpc, local, served, loaded>>
  BY DEF PassRequest, CallRequest, fsmVars, conversation, engine
<1>2. \/ toProxy' = Append(toProxy, Request)
      \/ toProxy # <<>> /\ Head(toProxy) = Request /\ toProxy' = Tail(toProxy)
  BY DEF PassRequest, CallRequest
<1>3. NoReload(toProxy) => NoReload(toProxy)'
  BY <1>2, AddLast, TakeFirst DEF NoReload
<1>4. toProxy \in Seq({Request, issued}) /\ toProxy' \in Seq({Request, issued})
  <2>1. toProxy \in Seq({Request, issued}) /\ Request \in {Request, issued}
    BY DEF Stages, OnlyLatest
  <2> QED BY <1>2, <2>1, AddLast, TakeFirst
<1>5. OnlyLatest'
  BY <1>1, <1>4 DEF Stages, OnlyLatest
<1>6. issued # 0 /\ Once(toProxy, issued) => Once(toProxy', issued)
  BY <1>2, <1>4, OnceWithRequest, OnceTaken
<1>7. ASSUME issued # 0 PROVE StageSent' /\ StageSaving'
  BY <1>1, <1>3, <1>7
  DEF Stages, StageSent, StageSaving, Free, Up, FreshIn, Stored, Wanted
<1>8. ASSUME issued # 0 PROVE StageLoading'
  BY <1>1, <1>3, <1>6, <1>8
  DEF Stages, StageLoading, Up, FreshIn, Stored, Wanted, Once
<1>9. Settled => Settled'
  BY <1>1, <1>3 DEF Settled, Free, Up, FreshIn, Stored, Wanted
<1>10. ASSUME issued # 0 PROVE StageAnswered' /\ StageReady'
  BY <1>1, <1>9, <1>10 DEF Stages, StageAnswered, StageReady, Model
<1> QED BY <1>1, <1>5, <1>7, <1>8, <1>10 DEF Stages
\* A step that leaves the latest reload neither sent, saving nor loading, and
\* was taken before it had an outcome.
LEMMA OtherStages ==
    ASSUME Stages, issued # 0, answers = <<>>, fsm # "Ready", fsm' = fsm,
           issued' = issued, OnlyLatest',
           phase'[issued] \notin {"sent", "saving", "loading"},
           \A i \in DOMAIN answers' : answers'[i].event # "Reloaded"
    PROVE  Stages'
<1> QED BY DEF Stages, StageSent, StageSaving, StageLoading, StageAnswered, StageReady

\* Every copy was answered: the proxy is asked to reload.
LEMMA SavedStages ==
    ASSUME TypeOK, Ordered, Stages, NEW n \in Reloads, AllSaved(n)
    PROVE  Stages'
<1>1. n = issued /\ issued # 0 /\ phase[issued] = "saving" /\ pending[issued] = {}
  BY DEF AllSaved, Stages, OnlyLatest
<1>2. answers = <<>> /\ fsm # "Ready"
  BY <1>1, SingleOutcome DEF Stages, StageReady, Settled, Ordered
<1>3. /\ phase' = [phase EXCEPT ![issued] = "loading"]
      /\ toProxy' = Append(toProxy, issued)
      /\ UNCHANGED <<fsm, answers, issued, protocol, toSave, actor, saver, rpc, local>>
  BY <1>1 DEF AllSaved, fsmVars, conversation
<1>4. /\ phase'[issued] = "loading"
      /\ \A m \in Reloads \ {issued} : phase'[m] = phase[m]
  BY <1>1, <1>3 DEF TypeOK
<1>5. /\ toProxy \in Seq({Request}) /\ rpc = 0 /\ Up
      /\ FreshIn(local, Asks \ pending[issued])
      /\ \A i \in DOMAIN toSave : toSave[i].ask \in {}
  BY <1>1 DEF Stages, StageSaving, NoReload
<1>6. toSave = <<>>
  <2>1. toSave \in Seq(SaveAsk)
    BY DEF TypeOK
  <2>2. \A i \in DOMAIN toSave : toSave[i] \notin SaveAsk
    BY <1>5
  <2> QED BY <2>1, <2>2, NothingIn
<1>7. Once(toProxy', issued) /\ toProxy' \in Seq({Request, issued})
  <2>1. toProxy \in Seq({Request, issued})
    BY <1>5, SeqMonotonic
  <2> QED BY <1>3, <1>5, <2>1, OnceAdded, AddLast
<1>8. FreshIn(local, Asks)
  BY <1>1, <1>5 DEF FreshIn
<1>9. OnlyLatest'
  BY <1>3, <1>4, <1>7 DEF Stages, OnlyLatest
<1>10. StageLoading'
  BY <1>3, <1>4, <1>5, <1>6, <1>7, <1>8
  DEF StageLoading, Up, Once, FreshIn, Stored, Wanted
<1>11. StageSent' /\ StageSaving'
  BY <1>3, <1>4 DEF StageSent, StageSaving
<1> QED BY <1>1, <1>2, <1>3, <1>9, <1>10, <1>11 DEF Stages, StageAnswered, StageReady

\* An ask times out: the outcome is a failure.
LEMMA TimeoutStages ==
    ASSUME TypeOK, Ordered, Stages, NEW n \in Reloads, AskTimesOut(n)
    PROVE  Stages'
<1>1. n = issued /\ issued # 0 /\ phase[issued] # "over"
  BY DEF AskTimesOut, Stages, OnlyLatest
<1>2. answers = <<>> /\ fsm # "Ready"
  BY <1>1, SingleOutcome DEF Stages, StageReady, Settled, Ordered
<1>3. /\ phase' = [phase EXCEPT ![issued] = "over"]
      /\ answers' = Append(answers, Answer(issued, "Failure"))
      /\ UNCHANGED <<fsm, issued, toSave, toProxy, rpc>>
  BY <1>1 DEF AskTimesOut, fsmVars, conversation
<1>4. /\ phase'[issued] = "over"
      /\ \A m \in Reloads \ {issued} : phase'[m] = phase[m]
  BY <1>1, <1>3 DEF TypeOK
<1> DEFINE F == [reload : {issued}, event : {"Failure"}]
           R == [reload : {issued}, event : {"Reloaded", "FailedToReload", "Failure"}]
<1>5. answers' \in Seq(F)
  <2>1. answers \in Seq(F) /\ Answer(issued, "Failure") \in F
    BY <1>2, EmptySeq
  <2> HIDE DEF F
  <2> QED BY <1>3, <2>1, AddLast
<1>6. answers' \in Seq(R)
  <2>1. F \subseteq R
    OBVIOUS
  <2> HIDE DEF F, R
  <2> QED BY <1>5, <2>1, SeqMonotonic
<1>7. \A i \in DOMAIN answers' : answers'[i].event # "Reloaded"
  <2>1. \A i \in DOMAIN answers' : answers'[i] \in F
    BY <1>5, ElementIn
  <2> QED BY <2>1
<1>8. OnlyLatest'
  BY <1>3, <1>4, <1>6 DEF Stages, OnlyLatest
<1> QED BY <1>1, <1>2, <1>3, <1>4, <1>7, <1>8, OtherStages

\* OnlineAction stops and starts again.
LEMMA RestartStages ==
    ASSUME TypeOK, Ordered, Stages, Escalate \/ Restart
    PROVE  Stages'
<1>1. UNCHANGED <<fsm, data, answers, issued, protocol, pending, rpc, local, served, loaded>>
  BY DEF Escalate, Restart, fsmVars, conversation, engine
<1>2. CASE Escalate
  <2>1. UNCHANGED <<phase, toSave, saver, toProxy>> /\ saver = "failed"
    BY <1>2 DEF Escalate
  <2>2. OnlyLatest'
    BY <1>1, <2>1 DEF Stages, OnlyLatest
  <2>3. ASSUME issued # 0 PROVE StageSent' /\ StageLoading'
    BY <1>1, <2>1, <2>3 DEF Stages, StageSent, StageLoading, Free, Up
  <2>4. ASSUME issued # 0 PROVE StageSaving'
    BY <1>1, <2>1, <2>4 DEF Stages, StageSaving, Up, NoReload
  <2>5. ASSUME issued # 0 PROVE StageAnswered' /\ StageReady'
    BY <1>1, <2>1, <2>5 DEF Stages, StageAnswered, StageReady, Settled, Free, Up
  <2> QED BY <1>1, <2>2, <2>3, <2>4, <2>5 DEF Stages
<1>3. CASE Restart
  <2>1. /\ actor = "restarting" /\ toSave' = <<>> /\ toProxy' = <<>>
        /\ \A m \in Reloads :
              phase'[m] = IF phase[m] \notin {"saving", "loading"} THEN phase[m]
                          ELSE IF protocol[m] = NoProtocol THEN "over" ELSE "orphan"
    BY <1>3 DEF Restart
  <2>2. OnlyLatest'
    <3>1. \A m \in Reloads \ {issued} : phase'[m] \notin Waiting
      BY <2>1 DEF Stages, OnlyLatest
    <3>2. <<>> \in Seq([reload : {issued}, ask : Asks]) /\ <<>> \in Seq({Request, issued})
      BY EmptySeq
    <3> QED BY <1>1, <2>1, <3>1, <3>2 DEF Stages, OnlyLatest
  <2>3. CASE issued # 0
    <3>1. issued \in Reloads
      BY <2>3 DEF TypeOK
    <3>2. ~Settled /\ phase[issued] # "sent"
      BY <2>1, <2>3 DEF Settled, Free, Up, Stages, StageSent
    <3>3. fsm # "Ready" /\ \A i \in DOMAIN answers : answers[i].event # "Reloaded"
      BY <2>3, <3>2 DEF Stages, StageReady, StageAnswered
    <3>4. phase'[issued] \notin {"sent", "saving", "loading"}
      BY <2>1, <3>1, <3>2
    <3>5. StageSent' /\ StageSaving' /\ StageLoading'
      BY <1>1, <3>4 DEF StageSent, StageSaving, StageLoading
    <3> QED BY <1>1, <2>2, <2>3, <3>3, <3>5 DEF Stages, StageAnswered, StageReady
  <2> QED BY <1>1, <2>2, <2>3 DEF Stages
<1> QED BY <1>2, <1>3
\* What the saver works on belongs to the latest reload.
LEMMA SavedIsLatest ==
    ASSUME TypeOK, Stages, toSave # <<>>
    PROVE  /\ Head(toSave) \in SaveAsk /\ Head(toSave).reload = issued
           /\ issued \in Reloads /\ ~Settled
           /\ phase[issued] \notin {"sent", "loading"}
<1>1. toSave \in Seq(SaveAsk) /\ toSave \in Seq([reload : {issued}, ask : Asks])
  BY DEF TypeOK, Stages, OnlyLatest
<1>2. Head(toSave) \in SaveAsk /\ Head(toSave) \in [reload : {issued}, ask : Asks]
  <2> DEFINE T == [reload : {issued}, ask : Asks]
  <2>1. Head(toSave) \in T
    <3> HIDE DEF T
    <3> QED BY <1>1, TakeFirst DEF T
  <2> QED BY <1>1, <2>1, TakeFirst
<1>3. issued \in Reloads
  BY <1>2
<1> QED BY <1>2, <1>3 DEF Settled, Free, Stages, StageSent, StageLoading

\* The saver takes an ask, whatever comes of it.
LEMMA SaverStages ==
    ASSUME TypeOK, Ordered, Stages, Save \/ SaveFails
    PROVE  Stages'
<1> DEFINE m == Head(toSave)
<1>1. /\ m \in SaveAsk /\ m.reload = issued /\ issued \in Reloads /\ ~Settled
      /\ phase[issued] \notin {"sent", "loading"} /\ toSave # <<>>
  BY SavedIsLatest DEF Save, SaveFails
<1>2. /\ UNCHANGED <<fsm, data, answers, issued, protocol, phase, actor, toProxy, rpc>>
      /\ toSave' = Tail(toSave) /\ saver = "up"
  BY DEF Save, SaveFails, fsmVars, conversation
<1>3. toSave' \in Seq([reload : {issued}, ask : Asks])
  <2>1. toSave \in Seq([reload : {issued}, ask : Asks])
    BY DEF Stages, OnlyLatest
  <2> DEFINE T == [reload : {issued}, ask : Asks]
  <2> HIDE DEF T
  <2>2. toSave \in Seq(T)
    BY <2>1 DEF T
  <2>3. toSave' \in Seq(T)
    BY <1>1, <1>2, <2>2, TakeFirst
  <2> QED BY <2>3 DEF T
<1>4. OnlyLatest'
  BY <1>2, <1>3 DEF Stages, OnlyLatest
<1>5. StageSent' /\ StageLoading'
  BY <1>1, <1>2 DEF StageSent, StageLoading
<1>6. StageAnswered' /\ StageReady'
  <2>1. fsm # "Ready" /\ \A i \in DOMAIN answers : answers[i].event # "Reloaded"
    BY <1>1 DEF Stages, StageReady, StageAnswered
  <2> QED BY <1>2, <2>1 DEF StageReady, StageAnswered
<1>7. ASSUME phase[issued] = "saving" PROVE StageSaving'
  <2>1. /\ NoReload(toProxy) /\ rpc = 0
        /\ \A i, j \in DOMAIN toSave :
              /\ toSave[i].ask \in pending[issued]
              /\ toSave[i].ask = toSave[j].ask => i = j
        /\ actor = "up" /\ FreshIn(local, Asks \ pending[issued])
    BY <1>1, <1>2, <1>7 DEF Stages, StageSaving, Up
  <2>2. toSave \in Seq(SaveAsk)
    BY DEF TypeOK
  <2>3. /\ m = toSave[1] /\ 1 \in DOMAIN toSave
        /\ \A i \in DOMAIN toSave' : /\ toSave'[i] = toSave[i + 1]
                                     /\ i + 1 \in DOMAIN toSave /\ i + 1 # 1
        /\ \A i, j \in DOMAIN toSave' : i # j => i + 1 # j + 1
    BY <1>1, <1>2, <2>2, TakeFirst
  <2>4. m.ask \in pending[issued]
    BY <2>1, <2>3
  <2>5. \A i, j \in DOMAIN toSave' :
           /\ toSave'[i].ask \in pending[issued] \ {m.ask}
           /\ toSave'[i].ask = toSave'[j].ask => i = j
    BY <2>1, <2>3
  <2>6. CASE SaveFails
    BY <1>2, <1>7, <2>1, <2>4, <2>5, <2>6 DEF SaveFails, StageSaving, Up, NoReload
  <2>7. CASE Save
    <3>1. pending'[issued] = pending[issued] \ {m.ask}
      BY <1>1, <2>7 DEF Save, TypeOK
    <3>2. FreshIn(local, Asks \ pending[issued])'
      <4>1. SUFFICES ASSUME protocol[issued] # NoProtocol,
                            NEW i \in Asks \ pending'[issued], Stored(i)
                     PROVE  local'[ArtifactsToLoad[i]] = Wanted(i)
        BY <1>2 DEF FreshIn, Stored, Wanted
      <4>2. /\ FileOf(m) = ArtifactsToLoad[m.ask] /\ VersionOf(m) = Wanted(m.ask)
            /\ FileOf(m) \in Artifact
        BY <1>1, LoadAssumption, ElementIn DEF FileOf, VersionOf, Wanted
      <4>3. local' = IF Stored(m.ask)
                     THEN [local EXCEPT ![FileOf(m)] = Wanted(m.ask)] ELSE local
        BY <2>7, <4>2 DEF Save, Stored
      <4>4. DOMAIN local = Artifact /\ ArtifactsToLoad[i] \in Artifact
        BY LoadAssumption, ElementIn DEF TypeOK
      <4>5. CASE ArtifactsToLoad[i] = FileOf(m)
        BY <4>1, <4>2, <4>3, <4>4, <4>5 DEF Stored, Wanted
      <4>6. CASE ArtifactsToLoad[i] # FileOf(m)
        <5>1. i \in Asks \ pending[issued]
          BY <3>1, <4>2, <4>6
        <5> QED BY <2>1, <4>1, <4>3, <4>4, <4>6, <5>1 DEF FreshIn
      <4> QED BY <4>5, <4>6
    <3>3. saver' = saver
      BY <2>7 DEF Save
    <3> QED BY <1>2, <1>7, <2>1, <2>5, <3>1, <3>2, <3>3 DEF StageSaving, Up, NoReload
  <2> QED BY <2>6, <2>7
<1>8. StageSaving'
  BY <1>2, <1>7 DEF StageSaving
<1>9. issued # 0
  BY <1>1
<1> QED BY <1>2, <1>4, <1>5, <1>6, <1>8, <1>9 DEF Stages

\* The proxy starts the blocking call.
LEMMA CallStages ==
    ASSUME TypeOK, Ordered, Stages, CallReload
    PROVE  Stages'
<1>1. UNCHANGED <<fsm, data, answers, issued, protocol, phase, pending, actor,
                  toSave, saver, local, served, loaded>>
  BY DEF CallReload, fsmVars, conversation, engine
<1>2. /\ rpc = 0 /\ toProxy # <<>> /\ Head(toProxy) # Request
      /\ rpc' = Head(toProxy) /\ toProxy' = Tail(toProxy)
  BY DEF CallReload
<1>3. /\ toProxy \in Seq({Request, issued}) /\ rpc' = issued
      /\ toProxy' \in Seq({Request, issued})
  <2>1. toProxy \in Seq({Request, issued})
    BY DEF Stages, OnlyLatest
  <2>2. Head(toProxy) \in {Request, issued} /\ Tail(toProxy) \in Seq({Request, issued})
    BY <1>2, <2>1, TakeFirst
  <2> QED BY <1>2, <2>1, <2>2
<1>4. ~NoReload(toProxy) /\ issued # 0
  <2>1. NoReload(toProxy) => Head(toProxy) \in {Request}
    BY <1>2, TakeFirst DEF NoReload
  <2> QED BY <1>2, <1>3, <2>1
<1>5. OnlyLatest'
  BY <1>1, <1>3 DEF Stages, OnlyLatest
<1>6. phase[issued] \notin {"sent", "saving"} /\ ~Settled
  BY <1>4 DEF Stages, StageSent, StageSaving, Free, Settled
<1>7. StageSent' /\ StageSaving'
  BY <1>1, <1>6 DEF StageSent, StageSaving
<1>8. StageLoading'
  <2>1. SUFFICES ASSUME phase[issued] = "loading" PROVE StageLoading'
    BY <1>1 DEF StageLoading
  <2>2. toSave = <<>> /\ Up /\ Once(toProxy, issued) /\ FreshIn(local, Asks)
    BY <1>2, <1>4, <2>1 DEF Stages, StageLoading
  <2>3. NoReload(toProxy')
    BY <1>2, <1>3, <1>4, <2>2, OnceTaken
  <2> QED BY <1>1, <1>3, <2>2, <2>3 DEF StageLoading, Up, NoReload, FreshIn, Stored, Wanted
<1>9. fsm # "Ready" /\ \A i \in DOMAIN answers : answers[i].event # "Reloaded"
  BY <1>4, <1>6 DEF Stages, StageReady, StageAnswered
<1> QED BY <1>1, <1>4, <1>5, <1>7, <1>8, <1>9 DEF Stages, StageReady, StageAnswered
\* The blocking call returns, with the engine's new model or without.
LEMMA ReturnStages ==
    ASSUME TypeOK, Ordered, Stages, ReloadSucceeds \/ ReloadFails
    PROVE  Stages'
<1>1. PICK e \in {"Reloaded", "FailedToReload"} :
         Return(e) /\ (e = "Reloaded" => EngineLoads)
  BY DEF ReloadSucceeds, ReloadFails
<1>2. /\ rpc # 0 /\ rpc' = 0
      /\ UNCHANGED <<fsm, data, issued, protocol, pending, actor, toSave, saver, toProxy, local>>
  BY <1>1 DEF Return, fsmVars, conversation
<1>3. rpc = issued /\ issued # 0 /\ issued \in Reloads
  BY <1>2 DEF Stages, OnlyLatest, TypeOK
<1>4. phase[issued] \notin {"sent", "saving"} /\ ~Settled
  BY <1>2, <1>3 DEF Stages, StageSent, StageSaving, Free, Settled
<1>5. fsm # "Ready" /\ \A i \in DOMAIN answers : answers[i].event # "Reloaded"
  BY <1>3, <1>4 DEF Stages, StageReady, StageAnswered
<1>6. CASE phase[issued] # "loading"
  <2>1. phase' = phase /\ answers' = answers
    BY <1>1, <1>3, <1>6 DEF Return
  <2>2. OnlyLatest'
    BY <1>2, <1>3, <2>1 DEF Stages, OnlyLatest
  <2>3. StageSent' /\ StageSaving' /\ StageLoading'
    BY <1>2, <1>4, <1>6, <2>1 DEF StageSent, StageSaving, StageLoading
  <2> QED BY <1>2, <1>3, <1>5, <2>1, <2>2, <2>3 DEF Stages, StageReady, StageAnswered
<1>7. CASE phase[issued] = "loading"
  <2>1. /\ phase' = [phase EXCEPT ![issued] = "over"]
        /\ answers' = Append(answers, Answer(issued, e))
    BY <1>1, <1>3, <1>7 DEF Return
  <2>2. /\ phase'[issued] = "over"
        /\ \A m \in Reloads \ {issued} : phase'[m] = phase[m]
    BY <1>3, <2>1 DEF TypeOK
  <2>3. answers = <<>>
    BY <1>7, SingleOutcome DEF Stages, Ordered
  <2> DEFINE R == [reload : {issued}, event : {"Reloaded", "FailedToReload", "Failure"}]
  <2>4. answers' \in Seq(R)
    <3>1. answers \in Seq(R) /\ Answer(issued, e) \in R
      BY <2>3, EmptySeq
    <3> HIDE DEF R
    <3> QED BY <2>1, <3>1, AddLast
  <2>5. OnlyLatest'
    BY <1>2, <2>2, <2>4 DEF Stages, OnlyLatest
  <2>6. StageSent' /\ StageSaving' /\ StageLoading'
    BY <1>2, <2>2 DEF StageSent, StageSaving, StageLoading
  <2>7. e = "Reloaded" => Settled'
    <3>1. toSave = <<>> /\ Up /\ NoReload(toProxy) /\ FreshIn(local, Asks)
      BY <1>2, <1>3, <1>7 DEF Stages, StageLoading
    <3>2. SUFFICES ASSUME EngineLoads PROVE Settled'
      BY <1>1
    <3>3. served' = issued /\ loaded' = local
      BY <1>3, <3>2 DEF EngineLoads
    <3> QED BY <1>2, <2>2, <3>1, <3>3
            DEF Settled, Free, Up, NoReload, FreshIn, Stored, Wanted
  <2>8. e = "FailedToReload" => \A i \in DOMAIN answers' : answers'[i].event # "Reloaded"
    <3>1. SUFFICES ASSUME e = "FailedToReload", NEW i \in DOMAIN answers'
                   PROVE  answers'[i].event # "Reloaded"
      OBVIOUS
    <3> DEFINE F == [reload : {issued}, event : {"FailedToReload"}]
    <3>2. answers \in Seq(F) /\ Answer(issued, e) \in F
      BY <2>3, <3>1, EmptySeq
    <3>3. answers'[i] \in F
      <4> HIDE DEF F
      <4> QED BY <2>1, <3>1, <3>2, AddLast, ElementIn
    <3> QED BY <3>3
  <2>9. StageAnswered'
    BY <2>7, <2>8 DEF StageAnswered
  <2> QED BY <1>2, <1>3, <1>5, <2>5, <2>6, <2>9 DEF Stages, StageReady
<1> QED BY <1>6, <1>7

\* Every step keeps a reload that was issued alone in one of its stages.
LEMMA StepStages ==
    TypeOK /\ TypeOK' /\ Ordered /\ (alone => Stages) /\ [Next]_vars
        => (alone' => Stages')
<1> SUFFICES ASSUME TypeOK, TypeOK', Ordered, alone => Stages, [Next]_vars, alone'
             PROVE  Stages'
  OBVIOUS
<1>1. CASE \E p \in Protocol \union {NoProtocol} : AcceptReload(p)
  BY <1>1, AcceptStages
<1>2. CASE Refuse \/ Forward \/ TimerFires \/ HandleStateTimeout \/ UNCHANGED vars
  <2>1. /\ UNCHANGED <<issued, protocol, phase, pending, actor, toSave, saver,
                       rpc, local, served, loaded, answers, toProxy, alone, data>>
        /\ fsm' = fsm \/ fsm' = "Unavailable"
    BY <1>2 DEF Refuse, Forward, TimerFires, HandleStateTimeout, vars, fsmVars,
                conversation, engine
  <2> QED BY <2>1, QuietStages
<1>3. CASE HandleAnswer
  BY <1>3, AnswerStages DEF HandleAnswer, conversation
<1>4. CASE ReloadFromDisk
  BY <1>4, FromDiskStages DEF ReloadFromDisk, conversation
<1>5. CASE ReloadProtocol
  BY <1>5, ProtocolStages DEF ReloadProtocol, conversation
<1>6. CASE PassRequest \/ CallRequest
  BY <1>6, RequestStages DEF PassRequest, CallRequest, conversation
<1>7. ASSUME NEW n \in Reloads, AllSaved(n) PROVE Stages'
  BY <1>7, SavedStages DEF AllSaved, conversation
<1>8. ASSUME NEW n \in Reloads, AskTimesOut(n) PROVE Stages'
  BY <1>8, TimeoutStages DEF AskTimesOut, conversation
<1>9. CASE Escalate \/ Restart
  BY <1>9, RestartStages DEF Escalate, Restart, conversation
<1>10. CASE Save \/ SaveFails
  BY <1>10, SaverStages DEF Save, SaveFails, conversation
<1>11. CASE CallReload
  BY <1>11, CallStages DEF CallReload, conversation
<1>12. CASE ReloadSucceeds \/ ReloadFails
  BY <1>12, ReturnStages DEF ReloadSucceeds, ReloadFails, Return, conversation
<1> QED
  BY <1>1, <1>2, <1>3, <1>4, <1>5, <1>6, <1>7, <1>8, <1>9, <1>10, <1>11, <1>12
  DEF Next, Client

-----------------------------------------------------------------------------
(* The theorems                                                             *)

\* The inductive invariant holds at the start.
LEMMA InitInv == Init => IInv
<1> SUFFICES ASSUME Init PROVE IInv
  OBVIOUS
<1>1. TypeOK
  BY InitTypes
<1>2. Numbered
  BY DEF Init, Numbered
<1>3. Queued /\ OneOutcome
  BY DEF Init, Queued, OneOutcome
<1>4. Stages
  <2>1. OnlyLatest
    BY EmptySeq DEF Init, OnlyLatest
  <2> QED BY <2>1 DEF Init, Stages
<1> QED BY <1>1, <1>2, <1>3, <1>4 DEF IInv

\* Every reachable state satisfies the inductive invariant: a reload that is
\* issued when nothing else is under way stays in one of its stages until the
\* next one, whatever fails, times out or restarts meanwhile.
THEOREM Inductive == Spec => []IInv
<1>1. IInv /\ [Next]_vars => IInv'
  BY StepTypes, StepOrdered, StepStages DEF IInv, Ordered
<1> QED BY InitInv, <1>1, PTL DEF Spec

\* When the predictor is Ready after a reload that overlapped no other, FSM
\* and engine agree on the model: PredictorFSM's Model is the protocol that
\* was asked for last, and that reload is the engine's last one.
THEOREM ReadyAgrees == Spec => []Agreement
<1>1. IInv => Agreement
  BY DEF IInv, TypeOK, Stages, StageReady, Settled, Agreement
<1> QED BY <1>1, Inductive, PTL

\* The engine has then read, for every artifact of that protocol which the
\* remote store holds, exactly the version the protocol names.
THEOREM ReadyFresh == Spec => []FreshFiles
<1>1. IInv => FreshFiles
  BY DEF IInv, TypeOK, Stages, StageReady, Settled, FreshIn, Stored, Wanted, FreshFiles
<1> QED BY <1>1, Inductive, PTL

\* Nothing of any reload or restart is under way then, so that no request the
\* FSM forwards waits behind one.
THEOREM ReadyQuiet == Spec => []ReadyIsQuiet
<1>1. ASSUME IInv, fsm = "Ready", alone PROVE Idle
  <2>1. issued # 0 /\ OnlyLatest /\ Settled /\ answers = <<>>
    BY <1>1 DEF IInv, Stages, StageReady
  <2>2. \A m \in Reloads : phase[m] \notin Waiting
    BY <2>1 DEF OnlyLatest, Settled
  <2>3. \A i \in DOMAIN toProxy : toProxy[i] = Request
    <3>1. toProxy \in Seq({Request})
      BY <2>1 DEF Settled, Free, NoReload
    <3>2. \A i \in DOMAIN toProxy : toProxy[i] \in {Request}
      BY <3>1, ElementIn
    <3> QED BY <3>2
  <2>4. toSave = <<>> /\ rpc = 0 /\ Up
    BY <2>1 DEF Settled, Free
  <2> QED BY <2>1, <2>2, <2>3, <2>4 DEF Idle, InFlight, Up
<1>2. IInv => ReadyIsQuiet
  BY <1>1 DEF ReadyIsQuiet
<1> QED BY <1>2, Inductive, PTL

\* No reload is ever answered twice, whatever times out and whatever returns
\* late, overlapping or not.
THEOREM OutcomeOnce == Spec => []OneOutcome
<1>1. IInv => OneOutcome
  BY DEF IInv
<1> QED BY <1>1, Inductive, PTL

\* A step either leaves the outcomes told and the conversations that are over
\* as they are, or takes an outcome from the FSM's mailbox, or adds the one of
\* a conversation that was still open.
LEMMA StepFinal ==
    ASSUME IInv, [Next]_vars, NEW n \in Reloads, phase[n] = "over"
    PROVE  phase'[n] = "over" /\ (Told(n)' => Told(n))
<1> USE DEF fsmVars, conversation
<1>0. /\ phase \in [Reloads -> {"none", "over"} \union Waiting]
      /\ answers \in Seq(Outcome) /\ issued \in 0..MaxReloads
      /\ mailbox \in Seq(Message)
  BY DEF IInv, TypeOK
<1>1. CASE answers' = answers /\ phase' = phase
  BY <1>1 DEF Told
<1>2. CASE HandleAnswer
  <2>1. phase' = phase /\ answers' = Tail(answers) /\ answers # <<>>
    BY <1>2 DEF HandleAnswer
  <2>2. \A i \in DOMAIN answers' : i + 1 \in DOMAIN answers /\ answers'[i] = answers[i + 1]
    BY <1>0, <2>1, TakeFirst
  <2> QED BY <2>1, <2>2 DEF Told
<1>3. CASE \E p \in Protocol \union {NoProtocol} : AcceptReload(p)
  <2>1. /\ issued + 1 \in Reloads /\ answers' = answers
        /\ phase' = [phase EXCEPT ![issued + 1] = "sent"]
    BY <1>0, <1>3, BoundAssumption DEF AcceptReload
  <2>2. phase[issued + 1] = "none"
    BY <1>0, <2>1 DEF IInv, Numbered
  <2> QED BY <1>0, <2>1, <2>2 DEF Told
<1>4. CASE ReloadFromDisk \/ ReloadProtocol
  <2>1. /\ Head(mailbox) \in Reloads /\ mailbox # <<>> /\ answers' = answers
        /\ \E p \in {"loading", "saving", "over"} :
              phase' = [phase EXCEPT ![Head(mailbox)] = p]
    BY <1>0, <1>4, TakeFirst DEF ReloadFromDisk, ReloadProtocol
  <2>2. phase[Head(mailbox)] = "sent"
    BY <1>0, <2>1, TakeFirst DEF IInv, Queued
  <2> QED BY <1>0, <2>1, <2>2 DEF Told
<1>5. CASE \E m \in Reloads : AllSaved(m)
  BY <1>0, <1>5 DEF AllSaved, Told
<1>6. CASE Restart
  BY <1>0, <1>6 DEF Restart, Told
<1>7. ASSUME NEW m \in Reloads, NEW e \in {"Reloaded", "FailedToReload", "Failure"},
             phase[m] # "over", phase' = [phase EXCEPT ![m] = "over"],
             answers' = Append(answers, Answer(m, e))
      PROVE  phase'[n] = "over" /\ (Told(n)' => Told(n))
  <2>1. m # n /\ phase'[n] = "over"
    BY <1>0, <1>7
  <2>2. Answer(m, e) \in Outcome
    BY <1>7
  <2>3. PICK last \in DOMAIN answers' :
          /\ answers'[last] = Answer(m, e)
          /\ \A i \in DOMAIN answers' : i # last => i \in DOMAIN answers
    BY <1>0, <1>7, <2>2, AddLast
  <2>4. \A i \in DOMAIN answers : answers'[i] = answers[i]
    BY <1>0, <1>7, <2>2, AddLast
  <2> QED BY <2>1, <2>3, <2>4 DEF Told
<1>8. CASE \E m \in Reloads : AskTimesOut(m)
  <2>1. PICK m \in Reloads : AskTimesOut(m)
    BY <1>8
  <2>2. /\ phase[m] # "over" /\ phase' = [phase EXCEPT ![m] = "over"]
        /\ answers' = Append(answers, Answer(m, "Failure"))
    BY <2>1 DEF AskTimesOut
  <2> QED BY <1>7, <2>2
<1>9. CASE \E e \in {"Reloaded", "FailedToReload"} : Return(e)
  <2>1. PICK e \in {"Reloaded", "FailedToReload"} : Return(e)
    BY <1>9
  <2>2. CASE phase[rpc] = "loading"
    <3>1. rpc \in Reloads
      BY <2>1 DEF Return, IInv, TypeOK
    <3>2. /\ phase[rpc] # "over" /\ phase' = [phase EXCEPT ![rpc] = "over"]
          /\ answers' = Append(answers, Answer(rpc, e))
      BY <2>1, <2>2 DEF Return
    <3> QED BY <1>7, <3>1, <3>2
  <2>3. CASE phase[rpc] # "loading"
    BY <1>1, <2>1, <2>3 DEF Return
  <2> QED BY <2>2, <2>3
<1>10. CASE Refuse \/ Forward \/ TimerFires \/ HandleStateTimeout \/ PassRequest
            \/ Escalate \/ Save \/ SaveFails \/ CallRequest \/ CallReload
            \/ UNCHANGED vars
  BY <1>1, <1>10
  DEF Refuse, Forward, TimerFires, HandleStateTimeout, PassRequest, Escalate,
      Save, SaveFails, CallRequest, CallReload, vars
<1> QED
  BY <1>2, <1>3, <1>4, <1>5, <1>6, <1>8, <1>9, <1>10
  DEF Next, Client, ReloadSucceeds, ReloadFails

\* And never later: a conversation that is over stays over, and once the FSM
\* has handled its outcome nothing tells it of that conversation again.
THEOREM OutcomeFinal == Spec => OutcomeIsLast
<1>1. IInv /\ [Next]_vars =>
         [\A n \in Reloads :
             phase[n] = "over" => phase'[n] = "over" /\ (Told(n)' => Told(n))]_vars
  BY StepFinal
<1> QED BY <1>1, Inductive, PTL DEF Spec, OutcomeIsLast
=============================================================================
