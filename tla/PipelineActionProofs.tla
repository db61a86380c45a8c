------------------------- MODULE PipelineActionProofs -------------------------
(***************************************************************************)
(* Theorems about PipelineAction, for every list of actions, artifacts that*)
(* they make and load, and number of pipelines.                            *)
(***************************************************************************)
EXTENDS PipelineAction, MailboxLemmas

Statuses == {"none", "Working", "Finished", "Failed"}
ToSave == [artifact : Artifact, protocol : Pipelines]
Calls == [pipeline : Pipelines, action : Action, kind : {"reload", "execute"}]

-----------------------------------------------------------------------------
(* The inductive invariant                                                  *)

\* receive is at a pipeline, and at an action whose child has its name.
InReceive ==
    /\ actor # "idle" => handled \in Pipelines
    /\ actor = "busy" /\ at # "create" => step \in Steps /\ Current \in names

\* The engines' calls are the ones that receive waits for.
CallsOfLatest ==
    /\ \A c \in calls : c.pipeline = handled
    /\ actor = "idle" => calls = {}
    /\ actor = "busy" =>
          calls \subseteq IF at = "create" \/ answered THEN {}
                          ELSE {Call(handled, Current, at)}

\* The outputs of the actions that were executed are on the disk, but for those
\* that the current one makes, too, and is about to write again.
Written ==
    actor = "busy" =>
        /\ \A i \in 1..(step - 1) : \A f \in Outputs(PipelineActions[i]) :
              \/ local[f] = handled
              \/ at = "execute" /\ ~answered /\ f \in Outputs(Current)
        /\ at = "execute" /\ answered =>
              \A f \in Outputs(Current) : local[f] = handled

\* The engine that has reloaded has read them.
HasRead ==
    actor = "busy" /\ (at = "execute" \/ (at = "reload" /\ answered)) =>
        \A i \in 1..(step - 1) :
            \A f \in Outputs(PipelineActions[i]) \intersect ArtifactsToLoad[Current] :
                inputs[Current][f] = handled

\* Names are taken by children of this pipeline, or of one that Finished before.
NamesOfLatest ==
    ~finishedLast =>
        /\ actor = "idle" => stopping = {}
        /\ actor = "busy" =>
              names \subseteq {PipelineActions[i] : i \in 1..(step - 1)} \union
                              (IF at = "create" THEN {} ELSE {Current})

\* What the cache says: nothing of pipelines to come, Working of the one in
\* receive, and Finished or nothing of all others.
Told ==
    /\ \A p \in Pipelines : p > handled => status[p] = "none"
    /\ \A p \in Pipelines :
          actor = "idle" \/ p # handled => status[p] \in {"none", "Finished"}
    /\ actor = "busy" => status[handled] = "Working"
    /\ actor = "restarting" => status[handled] = "Failed"

\* The actions of a pipeline whose outputs have been sent to the saver.
Sent(p) ==
    IF status[p] = "Finished" THEN Steps
    ELSE IF actor = "busy" /\ p = handled THEN 1..(step - 1) ELSE {}

\* A later pipeline writes an output of pipeline p again, or a later action of p
\* does, or p has failed.
MayBeTorn(p, f) ==
    \/ handled > p \/ actor = "restarting"
    \/ actor = "busy" /\ at = "execute" /\ f \in Outputs(Current)

\* An output is on its way to the store, or there, be it a later pipeline's, or its
\* copy broke off.
Kept(p, f) ==
    \/ SaveToRemote(f, p) \in In(toSave)
    \/ remote[p][f] \in p..handled
    \/ remote[p][f] = Torn /\ MayBeTorn(p, f)
    \/ SaveToRemote(f, p) \in brokenOff /\ remote[p][f] \in {NoFile, Torn}

AllKept ==
    /\ \A p \in Pipelines : \A i \in Sent(p) :
          \A f \in Outputs(PipelineActions[i]) : Kept(p, f)
    /\ \A m \in In(toSave) :
          /\ m.protocol <= handled
          /\ \/ local[m.artifact] \in m.protocol..handled
             \/ local[m.artifact] = Torn /\ MayBeTorn(m.protocol, m.artifact)
    /\ \A p \in Pipelines : \A f \in Artifact :
          remote[p][f] \in {NoFile, Torn} \/ remote[p][f] \in p..handled

IInv == /\ TypeOK /\ InReceive /\ CallsOfLatest /\ Written /\ HasRead
        /\ NamesOfLatest /\ Told /\ AllKept

-----------------------------------------------------------------------------
USE DEF Pipelines, receive, progress, child, store, engine

\* Saving a status leaves the others as they are, or evicts one.
LEMMA SaveStatus ==
    ASSUME status \in [Pipelines -> Statuses], NEW p \in Pipelines,
           NEW s \in Statuses, Save(p, s)
    PROVE  /\ status' \in [Pipelines -> Statuses] /\ status'[p] = s
           /\ \A k \in Pipelines : k # p => status'[k] \in {status[k], "none"}
<1> DEFINE new == [status EXCEPT ![p] = s]
<1>1. \/ status' = new
      \/ \E k \in Pipelines \ {p} : status' = [new EXCEPT ![k] = "none"]
  BY DEF Save, Saved, Entries
<1> QED BY <1>1 DEF Statuses

\* The messages that have the current action's outputs saved.
Order == [i \in DOMAIN ArtifactsToPersist[Current] |->
             SaveToRemote(ArtifactsToPersist[Current][i], handled)]

LEMMA SentToSaver ==
    ASSUME handled \in Pipelines, step \in Steps
    PROVE  /\ Order \in Seq(ToSave)
           /\ In(Order) = {SaveToRemote(f, handled) : f \in Outputs(Current)}
<1> DEFINE a == ArtifactsToPersist[Current]
           q == [i \in DOMAIN a |-> SaveToRemote(a[i], handled)]
<1>1. a \in Seq(Artifact)
  BY ActionAssumption, ElementIn DEF Steps, Current
<1>2. Len(a) \in Nat /\ DOMAIN a = 1..Len(a) /\ \A i \in DOMAIN a : a[i] \in Artifact
  BY <1>1, LenProperties, ElementIn
<1>3. q \in [1..Len(a) -> ToSave]
  BY <1>2 DEF SaveToRemote, ToSave
<1>4. q \in Seq(ToSave)
  BY <1>2, <1>3, SeqDef
<1>5. In(q) = {SaveToRemote(f, handled) : f \in Outputs(Current)}
  BY DEF In, Outputs
<1>6. Order = q
  BY DEF Order
<1> QED BY <1>4, <1>5, <1>6

\* The length of the pipeline, and its steps.
LEMMA StepsOf ==
    /\ Len(PipelineActions) \in Nat /\ Steps = 1..Len(PipelineActions)
    /\ \A i \in Steps : PipelineActions[i] \in Action
<1> QED BY ActionAssumption, LenProperties, ElementIn DEF Steps

\* Outputs are artifacts.
LEMMA OutputsOf == \A a \in Action : Outputs(a) \subseteq Artifact
<1> QED BY ActionAssumption, ElementIn DEF Outputs

-----------------------------------------------------------------------------
(* Types                                                                    *)

\* The actor and its children start with values of their types.
LEMMA InitInv == Init => IInv
<1> SUFFICES ASSUME Init PROVE IInv
  OBVIOUS
<1>1. <<>> \in Seq(ToSave) /\ In(toSave) = {}
  BY InType DEF Init
<1>2. TypeOK
  <2>1. /\ local \in [Artifact -> File] /\ inputs \in [Action -> [Artifact -> File]]
        /\ remote \in [Pipelines -> [Artifact -> File]]
    <3>1. {NoFile, 0} \subseteq File
      BY BoundAssumption DEF File
    <3> QED BY <3>1 DEF Init
  <2>2. /\ issued \in 0..MaxPipelines /\ handled \in 0..issued
        /\ step \in 1..(Len(PipelineActions) + 1)
    BY StepsOf, BoundAssumption DEF Init
  <2>3. status \in [Pipelines -> Statuses]
    BY DEF Init, Statuses
  <2>4. toSave \in Seq(ToSave)
    BY <1>1 DEF Init
  <2> QED BY <2>1, <2>2, <2>3, <2>4 DEF Init, TypeOK, ToSave, Statuses
<1>3. AllKept
  BY <1>1 DEF Init, AllKept, Sent
<1> QED
  BY <1>2, <1>3
  DEF Init, IInv, InReceive, CallsOfLatest, Written, HasRead, NamesOfLatest, Told

\* Every step of receive, of the children and of the saver keeps the variables
\* within their types, and receive at an action of the list.
LEMMA StepTypes == TypeOK /\ InReceive /\ [Next]_vars => TypeOK' /\ InReceive'
<1> SUFFICES ASSUME TypeOK, InReceive, [Next]_vars PROVE TypeOK' /\ InReceive'
  OBVIOUS
<1> USE StepsOf, BoundAssumption DEF TypeOK, InReceive
<1>1. CASE Submit
  BY <1>1 DEF Submit, Current
<1>2. CASE PipelineExecute
  <2>1. handled + 1 \in Pipelines /\ handled' = handled + 1
    BY <1>2 DEF PipelineExecute
  <2>2. status' \in [Pipelines -> Statuses]
    BY <1>2, <2>1, SaveStatus DEF PipelineExecute, Statuses
  <2> QED BY <1>2, <2>1, <2>2 DEF PipelineExecute, Statuses
<1>3. CASE Create
  <2>1. Current \in Action /\ Current' = Current
    BY <1>3 DEF Create, Current
  <2>2. Call(handled, Current, "reload") \in Calls
    BY <1>3, <2>1 DEF Create, Call, Calls
  <2>3. calls' \subseteq Calls
    BY <1>3, <2>2 DEF Create, Calls
  <2> QED BY <1>3, <2>1, <2>3 DEF Create, Calls
<1>4. CASE Reloaded
  <2>1. Current \in Action /\ Current' = Current
    BY <1>4 DEF Reloaded, Current
  <2>2. Call(handled, Current, "execute") \in Calls
    BY <1>4, <2>1 DEF Reloaded, Call, Calls
  <2>3. calls' \subseteq Calls
    BY <1>4, <2>2 DEF Reloaded, Calls
  <2> QED BY <1>4, <2>1, <2>3 DEF Reloaded, Calls
<1>5. CASE Executed
  <2>1. handled \in Pipelines /\ step \in Steps /\ Current \in names
    BY <1>5 DEF Executed
  <2>2. toSave' \in Seq(ToSave)
    <3>1. toSave \in Seq(ToSave)
      BY DEF ToSave
    <3>2. toSave' = toSave \o Order
      BY <1>5 DEF Executed, Order
    <3>3. Order \in Seq(ToSave)
      BY <2>1, SentToSaver
    <3> HIDE DEF TypeOK, InReceive
    <3> QED BY <3>1, <3>2, <3>3, AddAll
  <2>3. step' \in 1..(Len(PipelineActions) + 1)
    BY <1>5, <2>1 DEF Executed
  <2>4. names' = names /\ stopping' \subseteq names'
    BY <1>5, <2>1 DEF Executed
  <2>5. InReceive'
    BY <1>5, <2>1 DEF Executed
  <2>6. /\ UNCHANGED <<issued, handled, status, actor, calls, saver, local,
                        remote, inputs, brokenOff, finishedLast>>
        /\ at' = "create" /\ answered' = FALSE /\ names' = names
    BY <1>5 DEF Executed
  <2> QED BY <2>2, <2>3, <2>4, <2>5, <2>6 DEF ToSave
<1>6. CASE Finish \/ Fail
  <2>1. handled \in Pipelines
    BY <1>6 DEF Finish, Fail
  <2>2. status' \in [Pipelines -> Statuses]
    BY <1>6, <2>1, SaveStatus DEF Finish, Fail, Statuses
  <2> QED BY <1>6, <2>1, <2>2 DEF Finish, Fail, Statuses
<1>7. CASE Restart
  BY <1>7, InType DEF Restart
<1>8. ASSUME NEW a \in Action, Terminate(a) PROVE TypeOK' /\ InReceive'
  BY <1>8 DEF Terminate, Current
<1>9. ASSUME NEW c \in calls, NEW f \in Artifact, EngineWrites(c, f)
      PROVE  TypeOK' /\ InReceive'
  <2>1. c.pipeline \in File /\ Torn \in File
    BY DEF Calls, File
  <2>2. local' \in [Artifact -> File]
    <3> HIDE DEF TypeOK, InReceive
    <3>1. local \in [Artifact -> File]
      BY DEF TypeOK
    <3> QED BY <1>9, <2>1, <3>1 DEF EngineWrites
  <2>3. InReceive' = InReceive
    BY <1>9 DEF EngineWrites, progress, receive, Current
  <2> QED BY <1>9, <2>2, <2>3 DEF EngineWrites, progress, receive, child, store
<1>10. ASSUME NEW c \in calls, Return(c) \/ CallFails(c)
       PROVE  TypeOK' /\ InReceive'
  BY <1>10 DEF Return, CallFails, EngineDone, Current
<1>11. CASE CopyToRemote \/ CopyFails
  <2>1. toSave \in Seq(ToSave) /\ toSave # <<>> /\ toSave' = Tail(toSave)
    BY <1>11 DEF CopyToRemote, CopyFails, ToSave
  <2>2. toSave' \in Seq(ToSave) /\ Head(toSave) \in ToSave
    BY <2>1, InTail
  <2>3. remote' \in [Pipelines -> [Artifact -> File]]
    <3> DEFINE m == Head(toSave)
    <3>1. m.artifact \in Artifact /\ m.protocol \in Pipelines
      BY <2>2 DEF ToSave
    <3>2. local[m.artifact] \in File /\ Torn \in File
      BY <3>1 DEF File
    <3>3. PICK v \in File :
             remote' = remote \/ remote' = [remote EXCEPT ![m.protocol][m.artifact] = v]
      <4>1. remote[m.protocol][m.artifact] \in File /\ NoFile \in File
        BY <3>1 DEF File
      <4> QED BY <1>11, <3>2, <4>1 DEF CopyToRemote, CopyFails
    <3> HIDE DEF m, Pipelines
    <3>4. remote \in [Pipelines -> [Artifact -> File]]
      OBVIOUS
    <3>5. [remote[m.protocol] EXCEPT ![m.artifact] = v] \in [Artifact -> File]
      BY <3>1, <3>3, <3>4
    <3> HIDE DEF TypeOK, InReceive
    <3> QED BY <3>1, <3>3, <3>4, <3>5
  <2>4. brokenOff' \subseteq ToSave
    BY <1>11, <2>2 DEF CopyToRemote, CopyFails, ToSave
  <2> QED BY <1>11, <2>2, <2>3, <2>4 DEF CopyToRemote, CopyFails, ToSave, Current
<1>12. CASE RestartSaver \/ UNCHANGED vars
  BY <1>12 DEF RestartSaver, vars, Current
<1> QED
  BY <1>1, <1>2, <1>3, <1>4, <1>5, <1>6, <1>7, <1>8, <1>9, <1>10, <1>11, <1>12
  DEF Next

-----------------------------------------------------------------------------
(* The children, and the files on the disk                                  *)

\* Children are only in calls that receive waits for.
LEMMA StepCalls ==
    TypeOK /\ InReceive /\ CallsOfLatest /\ [Next]_vars => CallsOfLatest'
<1> SUFFICES ASSUME TypeOK, InReceive, CallsOfLatest, [Next]_vars
             PROVE  CallsOfLatest'
  OBVIOUS
<1> USE DEF CallsOfLatest
<1>1. CASE Submit \/ RestartSaver \/ UNCHANGED vars
  BY <1>1 DEF Submit, RestartSaver, vars, Current
<1>2. CASE PipelineExecute
  BY <1>2 DEF PipelineExecute
<1>3. CASE Create
  BY <1>3 DEF Create, Current, Call
<1>4. CASE Reloaded
  BY <1>4 DEF Reloaded, Current, Call
<1>5. CASE Executed
  BY <1>5 DEF Executed
<1>6. CASE Finish \/ Fail
  BY <1>6 DEF Finish, Fail
<1>7. CASE Restart
  BY <1>7 DEF Restart
<1>8. ASSUME NEW a \in Action, Terminate(a) PROVE CallsOfLatest'
  BY <1>8 DEF Terminate, Current
<1>9. ASSUME NEW c \in calls, NEW f \in Artifact, EngineWrites(c, f)
      PROVE  CallsOfLatest'
  BY <1>9 DEF EngineWrites, Current
<1>10. ASSUME NEW c \in calls, Return(c) \/ CallFails(c) PROVE CallsOfLatest'
  BY <1>10 DEF Return, CallFails, Current
<1>11. CASE CopyToRemote \/ CopyFails
  BY <1>11 DEF CopyToRemote, CopyFails, Current
<1> QED
  BY <1>1, <1>2, <1>3, <1>4, <1>5, <1>6, <1>7, <1>8, <1>9, <1>10, <1>11 DEF Next

\* The call that is open while receive is under way.
LEMMA OpenCall ==
    ASSUME CallsOfLatest, actor = "busy", NEW c \in calls
    PROVE  c = Call(handled, Current, at) /\ at # "create" /\ ~answered
<1> QED BY DEF CallsOfLatest

\* A call of this pipeline overwrites only what it is about to make again.
LEMMA StepWritten ==
    TypeOK /\ InReceive /\ CallsOfLatest /\ Written /\ [Next]_vars => Written'
<1> SUFFICES ASSUME TypeOK, InReceive, CallsOfLatest, Written, [Next]_vars
             PROVE  Written'
  OBVIOUS
<1> USE DEF Written
<1>1. CASE Submit \/ RestartSaver \/ UNCHANGED vars
  BY <1>1 DEF Submit, RestartSaver, vars, Current
<1>2. CASE PipelineExecute
  BY <1>2 DEF PipelineExecute
<1>3. CASE Create
  BY <1>3 DEF Create, Current
<1>4. CASE Reloaded
  BY <1>4 DEF Reloaded, Current
<1>5. CASE Executed
  <2>1. step \in Nat /\ actor = "busy" /\ at = "execute" /\ answered
    BY <1>5, StepsOf DEF Executed, TypeOK
  <2>2. \A i \in 1..step : \A f \in Outputs(PipelineActions[i]) : local[f] = handled
    <3> SUFFICES ASSUME NEW i \in 1..step, NEW f \in Outputs(PipelineActions[i])
                 PROVE  local[f] = handled
      OBVIOUS
    <3>1. CASE i = step
      BY <2>1, <3>1 DEF Current
    <3>2. CASE i # step
      BY <2>1, <3>2
    <3> QED BY <3>1, <3>2
  <2> QED BY <1>5, <2>1, <2>2 DEF Executed
<1>6. CASE Finish \/ Fail \/ Restart
  BY <1>6 DEF Finish, Fail, Restart
<1>7. ASSUME NEW a \in Action, Terminate(a) PROVE Written'
  BY <1>7 DEF Terminate, Current
<1>8. ASSUME NEW c \in calls, NEW f \in Artifact, EngineWrites(c, f) PROVE Written'
  <2> SUFFICES ASSUME actor = "busy" PROVE Written'
    BY <1>8 DEF EngineWrites
  <2>1. at = "execute" /\ ~answered /\ f \in Outputs(Current)
    BY <1>8, OpenCall DEF EngineWrites, Call
  <2>2. \A g : g # f /\ g \in Artifact => local'[g] = local[g]
    BY <1>8 DEF EngineWrites, TypeOK
  <2>3. \A i \in 1..(step - 1) : Outputs(PipelineActions[i]) \subseteq Artifact
    BY StepsOf, OutputsOf DEF TypeOK
  <2> QED BY <1>8, <2>1, <2>2, <2>3 DEF EngineWrites, Current
<1>9. ASSUME NEW c \in calls, Return(c) PROVE Written'
  <2> SUFFICES ASSUME actor = "busy" PROVE Written'
    BY <1>9 DEF Return
  <2>1. c = Call(handled, Current, at)
    BY OpenCall
  <2>2. at = "execute" => \A f \in Outputs(Current) : local[f] = handled
    BY <1>9, <2>1 DEF Return, EngineDone, Call
  <2> QED BY <1>9, <2>2 DEF Return, Current
<1>10. ASSUME NEW c \in calls, CallFails(c) PROVE Written'
  BY <1>10 DEF CallFails, Current
<1>11. CASE CopyToRemote \/ CopyFails
  BY <1>11 DEF CopyToRemote, CopyFails, Current
<1> QED
  BY <1>1, <1>2, <1>3, <1>4, <1>5, <1>6, <1>7, <1>8, <1>9, <1>10, <1>11 DEF Next

\* What an engine has read stays, and a reload reads what is on the disk.
LEMMA StepHasRead ==
    TypeOK /\ InReceive /\ CallsOfLatest /\ Written /\ HasRead /\ [Next]_vars
        => HasRead'
<1> SUFFICES ASSUME TypeOK, InReceive, CallsOfLatest, Written, HasRead, [Next]_vars
             PROVE  HasRead'
  OBVIOUS
<1> USE DEF HasRead
<1>1. CASE Submit \/ RestartSaver \/ UNCHANGED vars
  BY <1>1 DEF Submit, RestartSaver, vars, Current
<1>2. CASE PipelineExecute \/ Create \/ Executed
  BY <1>2 DEF PipelineExecute, Create, Executed
<1>3. CASE Reloaded
  BY <1>3 DEF Reloaded, Current
<1>4. CASE Finish \/ Fail \/ Restart
  BY <1>4 DEF Finish, Fail, Restart
<1>5. ASSUME NEW a \in Action, Terminate(a) PROVE HasRead'
  BY <1>5 DEF Terminate, Current
<1>6. ASSUME NEW c \in calls, NEW f \in Artifact, EngineWrites(c, f) PROVE HasRead'
  BY <1>6 DEF EngineWrites, Current
<1>7. ASSUME NEW c \in calls, Return(c) PROVE HasRead'
  <2> SUFFICES ASSUME actor = "busy" PROVE HasRead'
    BY <1>7 DEF Return
  <2>1. c = Call(handled, Current, at) /\ at \in {"reload", "execute"}
    BY OpenCall DEF TypeOK
  <2>2. CASE at = "execute"
    BY <1>7, <2>1, <2>2 DEF Return, EngineDone, Current, Call
  <2>3. CASE at = "reload"
    <3>1. Current \in Action
      BY <2>3, StepsOf DEF Current, InReceive
    <3>2. inputs' = [inputs EXCEPT ![Current] = local] /\ Current' = Current
      BY <1>7, <2>1, <2>3 DEF Return, EngineDone, Call, Current
    <3>3. inputs'[Current] = local
      BY <3>1, <3>2 DEF TypeOK
    <3> QED BY <1>7, <2>3, <3>2, <3>3 DEF Return, Written
  <2> QED BY <2>1, <2>2, <2>3
<1>8. ASSUME NEW c \in calls, CallFails(c) PROVE HasRead'
  <2> SUFFICES ASSUME actor = "busy" PROVE HasRead'
    BY <1>8 DEF CallFails
  <2>1. c = Call(handled, Current, at) /\ ~answered
    BY OpenCall
  <2> QED BY <1>8, <2>1 DEF CallFails, EngineDone, Current, Call
<1>9. CASE CopyToRemote \/ CopyFails
  BY <1>9 DEF CopyToRemote, CopyFails, Current
<1> QED
  BY <1>1, <1>2, <1>3, <1>4, <1>5, <1>6, <1>7, <1>8, <1>9 DEF Next

\* A restart sees the end of all children.
LEMMA StepNames ==
    TypeOK /\ InReceive /\ NamesOfLatest /\ [Next]_vars => NamesOfLatest'
<1> SUFFICES ASSUME TypeOK, InReceive, NamesOfLatest, [Next]_vars
             PROVE  NamesOfLatest'
  OBVIOUS
<1> USE DEF NamesOfLatest
<1>1. CASE Submit \/ RestartSaver \/ UNCHANGED vars
  BY <1>1 DEF Submit, RestartSaver, vars, Current
<1>2. CASE PipelineExecute
  BY <1>2 DEF PipelineExecute
<1>3. CASE Create \/ Reloaded
  BY <1>3 DEF Create, Reloaded, Current
<1>4. CASE Executed
  <2>1. /\ step \in Nat \ {0} /\ step' = step + 1 /\ names' = names
        /\ at = "execute" /\ at' = "create" /\ actor = "busy" /\ actor' = "busy"
        /\ finishedLast' = finishedLast
    BY <1>4, StepsOf DEF Executed, InReceive
  <2> DEFINE before == {PipelineActions[i] : i \in 1..(step - 1)}
  <2>2. before \union {Current} \subseteq {PipelineActions[i] : i \in 1..step}
    BY <2>1 DEF Current
  <2>3. ~finishedLast => names \subseteq before \union {Current}
    BY <2>1
  <2>4. 1..(step' - 1) = 1..step
    BY <2>1
  <2> QED BY <2>1, <2>2, <2>3, <2>4
<1>5. CASE Finish \/ Fail \/ Restart
  BY <1>5 DEF Finish, Fail, Restart
<1>6. ASSUME NEW a \in Action, Terminate(a) PROVE NamesOfLatest'
  BY <1>6 DEF Terminate, Current
<1>7. ASSUME NEW c \in calls, NEW f \in Artifact, EngineWrites(c, f)
      PROVE  NamesOfLatest'
  BY <1>7 DEF EngineWrites, Current
<1>8. ASSUME NEW c \in calls, Return(c) \/ CallFails(c) PROVE NamesOfLatest'
  BY <1>8 DEF Return, CallFails, Current
<1>9. CASE CopyToRemote \/ CopyFails
  BY <1>9 DEF CopyToRemote, CopyFails, Current
<1> QED
  BY <1>1, <1>2, <1>3, <1>4, <1>5, <1>6, <1>7, <1>8, <1>9 DEF Next
-----------------------------------------------------------------------------
(* What clients are told                                                    *)

\* receive does not end without an outcome, and a Failed one is forgotten.
LEMMA StepTold == TypeOK /\ InReceive /\ Told /\ [Next]_vars => Told'
<1> SUFFICES ASSUME TypeOK, InReceive, Told, [Next]_vars PROVE Told'
  OBVIOUS
<1>1. handled \in Nat /\ status \in [Pipelines -> Statuses]
  BY BoundAssumption DEF TypeOK, Statuses
<1> USE DEF Told
<1>2. CASE Submit \/ RestartSaver \/ UNCHANGED vars
  BY <1>2 DEF Submit, RestartSaver, vars
<1>3. CASE PipelineExecute
  <2>1. handled' = handled + 1 /\ handled' \in Pipelines /\ actor = "idle"
    BY <1>1, <1>3, BoundAssumption DEF PipelineExecute, TypeOK
  <2>2. /\ status'[handled'] = "Working"
        /\ \A k \in Pipelines : k # handled' => status'[k] \in {status[k], "none"}
    BY <1>1, <1>3, <2>1, SaveStatus DEF PipelineExecute, Statuses
  <2> QED BY <1>1, <1>3, <2>1, <2>2 DEF PipelineExecute
<1>4. CASE Finish
  <2>1. handled \in Pipelines
    BY <1>4 DEF Finish, InReceive
  <2>2. /\ status'[handled] = "Finished"
        /\ \A k \in Pipelines : k # handled => status'[k] \in {status[k], "none"}
    BY <1>1, <1>4, <2>1, SaveStatus DEF Finish, Statuses
  <2> QED BY <1>1, <1>4, <2>1, <2>2 DEF Finish
<1>5. CASE Fail
  <2>1. handled \in Pipelines
    BY <1>5 DEF Fail, InReceive
  <2>2. /\ status'[handled] = "Failed"
        /\ \A k \in Pipelines : k # handled => status'[k] \in {status[k], "none"}
    BY <1>1, <1>5, <2>1, SaveStatus DEF Fail, Statuses
  <2> QED BY <1>1, <1>5, <2>1, <2>2 DEF Fail
<1>6. CASE Restart
  BY <1>6 DEF Restart
<1>7. CASE Create \/ Reloaded \/ Executed
  BY <1>7 DEF Create, Reloaded, Executed
<1>8. ASSUME NEW a \in Action, Terminate(a) PROVE Told'
  BY <1>8 DEF Terminate
<1>9. ASSUME NEW c \in calls, NEW f \in Artifact,
             EngineWrites(c, f) \/ Return(c) \/ CallFails(c)
      PROVE  Told'
  BY <1>9 DEF EngineWrites, Return, CallFails
<1>10. ASSUME NEW c \in calls, Return(c) \/ CallFails(c) PROVE Told'
  BY <1>10 DEF Return, CallFails
<1>11. CASE CopyToRemote \/ CopyFails
  BY <1>11 DEF CopyToRemote, CopyFails
<1> QED
  BY <1>2, <1>3, <1>4, <1>5, <1>6, <1>7, <1>8, <1>9, <1>10, <1>11 DEF Next

-----------------------------------------------------------------------------
(* The store                                                                *)

\* The messages for the saver name an artifact and a pipeline.
LEMMA Messages ==
    ASSUME TypeOK
    PROVE  \A m \in In(toSave) : /\ m.artifact \in Artifact
                                /\ m.protocol \in Pipelines /\ m.protocol \in Nat
<1>1. toSave \in Seq(ToSave)
  BY DEF TypeOK, ToSave
<1>2. In(toSave) \subseteq ToSave
  BY <1>1, InType
<1> QED BY <1>2, BoundAssumption DEF ToSave

\* An output that is kept stays so while the pipelines, the mailbox and the
\* store only grow.
LEMMA KeptStays ==
    ASSUME handled \in Nat, handled' \in Nat, handled <= handled',
           In(toSave) \subseteq In(toSave)', remote' = remote, brokenOff' = brokenOff,
           NEW p \in Pipelines, NEW f, Kept(p, f),
           MayBeTorn(p, f) => MayBeTorn(p, f)' \/ SaveToRemote(f, p) \in In(toSave)'
    PROVE  Kept(p, f)'
<1>1. p..handled \subseteq p..handled'
  BY BoundAssumption
<1>2. SaveToRemote(f, p)' = SaveToRemote(f, p)
  BY DEF SaveToRemote
<1> QED BY <1>1, <1>2 DEF Kept

\* The steps of receive keep every output of a pipeline that Finished, and of the
\* actions executed so far.
LEMMA ReceiveKeeps ==
    ASSUME IInv, PipelineExecute \/ Executed \/ Finish \/ Fail
    PROVE  AllKept'
<1>1. /\ handled \in Nat /\ issued \in Nat /\ step \in 1..(Len(PipelineActions) + 1)
      /\ status \in [Pipelines -> Statuses] /\ toSave \in Seq(ToSave)
  BY BoundAssumption DEF IInv, TypeOK, Statuses, ToSave
<1>2. InReceive /\ Written /\ Told /\ AllKept
  BY DEF IInv
<1>3. CASE PipelineExecute
  <2>1. handled' = handled + 1 /\ handled' \in Pipelines /\ step' = 1
    BY <1>1, <1>3, BoundAssumption DEF PipelineExecute, IInv, TypeOK
  <2>2. /\ status'[handled'] = "Working"
        /\ \A k \in Pipelines : k # handled' => status'[k] \in {status[k], "none"}
    BY <1>1, <1>3, <2>1, SaveStatus DEF PipelineExecute, Statuses
  <2>3. /\ toSave' = toSave /\ remote' = remote /\ local' = local
        /\ brokenOff' = brokenOff
        /\ \A p \in Pipelines : \A f : MayBeTorn(p, f) => MayBeTorn(p, f)'
    <3>1. actor = "idle"
      BY <1>3 DEF PipelineExecute
    <3>2. \A p \in Pipelines : handled > p => handled' > p
      BY <1>1, <2>1, BoundAssumption
    <3> QED BY <1>3, <3>1, <3>2 DEF PipelineExecute, MayBeTorn
  <2>4. \A p \in Pipelines : Sent(p)' \subseteq Sent(p)
    BY <2>1, <2>2 DEF Sent
  <2>5. \A p \in Pipelines : \A i \in Sent(p)' :
           \A f \in Outputs(PipelineActions[i]) : Kept(p, f)'
    BY <1>1, <1>2, <2>1, <2>3, <2>4, KeptStays DEF AllKept, In
  <2>6. ASSUME NEW m \in In(toSave)
        PROVE  /\ m.protocol <= handled'
               /\ \/ local[m.artifact] \in m.protocol..handled'
                  \/ local[m.artifact] = Torn /\ MayBeTorn(m.protocol, m.artifact)'
    <3>1. m.protocol \in Nat /\ m.protocol \in Pipelines
      BY Messages DEF IInv
    <3>2. /\ m.protocol <= handled
          /\ \/ local[m.artifact] \in m.protocol..handled
             \/ local[m.artifact] = Torn /\ MayBeTorn(m.protocol, m.artifact)
      BY <1>2 DEF AllKept
    <3>3. m.protocol..handled \subseteq m.protocol..handled'
      BY <1>1, <2>1, <3>1
    <3>4. m.protocol <= handled'
      BY <1>1, <2>1, <3>1, <3>2
    <3> QED BY <2>3, <3>1, <3>2, <3>3, <3>4
  <2>7. \A p \in Pipelines : p..handled \subseteq p..handled'
    BY <1>1, <2>1, BoundAssumption
  <2> QED BY <1>2, <2>3, <2>5, <2>6, <2>7 DEF AllKept, In
<1>4. CASE Executed
  <2>1. /\ handled \in Pipelines /\ step \in Steps /\ handled' = handled
        /\ step' = step + 1 /\ actor = "busy" /\ actor' = "busy"
        /\ status' = status /\ remote' = remote /\ local' = local
        /\ brokenOff' = brokenOff
    BY <1>2, <1>4 DEF Executed, InReceive
  <2>2. In(toSave)' = In(toSave) \union {SaveToRemote(f, handled) : f \in Outputs(Current)}
    <3>1. toSave' = toSave \o Order
      BY <1>4 DEF Executed, Order
    <3>2. /\ Order \in Seq(ToSave)
          /\ In(Order) = {SaveToRemote(f, handled) : f \in Outputs(Current)}
      BY <2>1, SentToSaver
    <3>3. In(toSave \o Order) = In(toSave) \union In(Order)
      BY <1>1, <3>2, AddAll
    <3> QED BY <3>1, <3>2, <3>3 DEF In
  <2>3. \A p \in Pipelines : \A i \in Sent(p)' :
           i \in Sent(p) \/ (p = handled /\ i = step)
    <3>1. status[handled] = "Working" /\ step \in Nat
      BY <1>1, <1>2, <2>1 DEF Told
    <3> QED BY <2>1, <3>1 DEF Sent
  <2>4. ASSUME NEW p \in Pipelines, NEW i \in Sent(p)', NEW f \in Outputs(PipelineActions[i])
        PROVE  Kept(p, f)'
    <3>1. CASE i \in Sent(p)
      <4>1. Kept(p, f) /\ (p = handled \/ handled > p)
        <5>1. p = handled \/ status[p] = "Finished"
          BY <3>1 DEF Sent
        <5>2. p > handled => status[p] = "none"
          BY <1>2 DEF Told
        <5> QED BY <1>1, <1>2, <3>1, <5>1, <5>2, BoundAssumption DEF AllKept
      <4>2. CASE handled > p
        <5>1. MayBeTorn(p, f)'
          BY <2>1, <4>2 DEF MayBeTorn
        <5> QED BY <1>1, <2>1, <2>2, <4>1, <5>1, KeptStays
      <4>3. CASE p = handled
        <5>1. MayBeTorn(p, f) => f \in Outputs(Current)
          BY <1>1, <2>1, <4>3 DEF MayBeTorn
        <5>2. MayBeTorn(p, f) => SaveToRemote(f, p) \in In(toSave)'
          BY <2>2, <4>3, <5>1
        <5> QED BY <1>1, <2>1, <2>2, <4>1, <5>2, KeptStays
      <4> QED BY <4>1, <4>2, <4>3
    <3>2. CASE p = handled /\ i = step
      BY <2>2, <3>2 DEF Current, Kept, SaveToRemote
    <3> QED BY <2>3, <3>1, <3>2
  <2>5. ASSUME NEW m \in In(toSave)'
        PROVE  /\ m.protocol <= handled
               /\ \/ local[m.artifact] \in m.protocol..handled
                  \/ local[m.artifact] = Torn /\ MayBeTorn(m.protocol, m.artifact)'
    <3>1. \A f \in Outputs(Current) : local[f] = handled
      BY <1>2, <1>4, <2>1 DEF Executed, Written
    <3>2. CASE m \in In(toSave)
      <4>1. /\ m.protocol <= handled /\ m.protocol \in Nat
            /\ \/ local[m.artifact] \in m.protocol..handled
               \/ local[m.artifact] = Torn /\ MayBeTorn(m.protocol, m.artifact)
        BY <1>2, <3>2, Messages DEF AllKept, IInv
      <4>2. MayBeTorn(m.protocol, m.artifact) =>
               MayBeTorn(m.protocol, m.artifact)' \/ m.artifact \in Outputs(Current)
        BY <2>1 DEF MayBeTorn
      <4>3. handled \in m.protocol..handled
        BY <1>1, <4>1
      <4> QED BY <3>1, <4>1, <4>2, <4>3
    <3>3. ASSUME NEW f \in Outputs(Current), m = SaveToRemote(f, handled)
          PROVE  m.protocol = handled /\ local[m.artifact] = handled
      BY <3>1, <3>3 DEF SaveToRemote
    <3> QED BY <1>1, <2>2, <3>2, <3>3
  <2> QED BY <1>2, <2>1, <2>4, <2>5 DEF AllKept
<1>5. CASE Finish \/ Fail
  <2>1. /\ handled \in Pipelines /\ handled' = handled /\ actor = "busy"
        /\ toSave' = toSave /\ remote' = remote /\ local' = local
        /\ brokenOff' = brokenOff /\ actor' = IF Fail THEN "restarting" ELSE "idle"
        /\ ~Fail => at = "create"
    BY <1>2, <1>5 DEF Finish, Fail, InReceive
  <2>2. /\ status'[handled] = IF Finish THEN "Finished" ELSE "Failed"
        /\ \A k \in Pipelines : k # handled => status'[k] \in {status[k], "none"}
    <3>1. CASE Finish
      BY <1>1, <2>1, <3>1, SaveStatus DEF Finish, Statuses
    <3>2. CASE Fail /\ ~Finish
      BY <1>1, <2>1, <3>2, SaveStatus DEF Fail, Statuses
    <3> QED BY <1>5, <3>1, <3>2
  <2>3. Finish => Steps = 1..(step - 1)
    BY <1>1, StepsOf DEF Finish
  <2>4. \A p \in Pipelines : Sent(p)' \subseteq Sent(p)
    BY <2>1, <2>2, <2>3 DEF Sent
  <2>6. \A p \in Pipelines : \A f : MayBeTorn(p, f) => MayBeTorn(p, f)'
    BY <2>1 DEF MayBeTorn
  <2>5. \A p \in Pipelines : \A i \in Sent(p)' :
           \A f \in Outputs(PipelineActions[i]) : Kept(p, f)'
    BY <1>1, <1>2, <2>1, <2>4, <2>6, KeptStays DEF AllKept, In
  <2>7. \A m \in In(toSave) : m.protocol \in Pipelines
    BY Messages DEF IInv
  <2> QED BY <1>2, <2>1, <2>5, <2>6, <2>7 DEF AllKept, In
<1> QED BY <1>3, <1>4, <1>5

\* What a copy leaves in the store is what it found on the disk, or what its breaking
\* off is noted for: the message that asked for it is not missed.
LEMMA SaverKeeps ==
    ASSUME IInv, CopyToRemote \/ CopyFails
    PROVE  AllKept'
<1> DEFINE m == Head(toSave)
           old == remote[m.protocol][m.artifact]
<1>1. /\ toSave \in Seq(ToSave) /\ toSave # <<>> /\ toSave' = Tail(toSave)
      /\ remote \in [Pipelines -> [Artifact -> File]]
      /\ UNCHANGED <<handled, status, actor, step, at, local>>
  BY DEF CopyToRemote, CopyFails, IInv, TypeOK, ToSave
<1>2. /\ m \in In(toSave) /\ In(toSave) = {m} \union In(toSave')
      /\ m.artifact \in Artifact /\ m.protocol \in Pipelines
      /\ m = SaveToRemote(m.artifact, m.protocol)
  <2>1. /\ m \in In(toSave) /\ In(toSave) = {m} \union In(Tail(toSave))
        /\ In(toSave) \subseteq ToSave
    BY <1>1, InTail, InType
  <2> QED BY <1>1, <2>1, Messages DEF IInv, ToSave, SaveToRemote
<1>3. AllKept
  BY DEF IInv
<1>4. \/ local[m.artifact] \in m.protocol..handled
      \/ local[m.artifact] = Torn /\ MayBeTorn(m.protocol, m.artifact)
  BY <1>2, <1>3 DEF AllKept
<1>5. local[m.artifact] # NoFile
  BY <1>2, <1>4, FileAssumption, BoundAssumption DEF IInv, TypeOK
<1>6. PICK v :
         /\ remote' = [remote EXCEPT ![m.protocol][m.artifact] = v]
         /\ \/ v = local[m.artifact] /\ brokenOff' = brokenOff
            \/ v \in {old, NoFile, Torn} /\ brokenOff' = brokenOff \union {m}
  BY <1>5 DEF CopyToRemote, CopyFails
<1>7. old \in {NoFile, Torn} \/ old \in m.protocol..handled
  BY <1>2, <1>3 DEF AllKept
<1>8. \/ v \in m.protocol..handled
      \/ v = Torn /\ MayBeTorn(m.protocol, m.artifact)
      \/ v \in {NoFile, Torn} /\ m \in brokenOff'
  BY <1>4, <1>6, <1>7
<1>9. \A p, f : MayBeTorn(p, f)' <=> MayBeTorn(p, f)
  BY <1>1 DEF MayBeTorn, Current
<1> HIDE DEF m, old
<1>10. ASSUME NEW p \in Pipelines, NEW f \in Artifact
       PROVE  remote'[p][f] = IF p = m.protocol /\ f = m.artifact THEN v
                              ELSE remote[p][f]
  BY <1>1, <1>2, <1>6
<1>11. ASSUME NEW p \in Pipelines, NEW f \in Artifact, Kept(p, f)
       PROVE  Kept(p, f)'
  <2>1. CASE p = m.protocol /\ f = m.artifact
    BY <1>1, <1>2, <1>8, <1>9, <1>10, <2>1 DEF Kept, SaveToRemote
  <2>2. CASE ~(p = m.protocol /\ f = m.artifact)
    <3>1. remote'[p][f] = remote[p][f]
      BY <1>10, <2>2
    <3>2. SaveToRemote(f, p) # m
      BY <2>2 DEF SaveToRemote
    <3>3. SaveToRemote(f, p) \in In(toSave) => SaveToRemote(f, p) \in In(toSave')
      BY <1>2, <3>2
    <3>4. brokenOff \subseteq brokenOff'
      BY <1>6
    <3> QED BY <1>1, <1>9, <1>11, <3>1, <3>3, <3>4 DEF Kept, In, SaveToRemote
  <2> QED BY <2>1, <2>2
<1>12. \A p \in Pipelines : Sent(p) \subseteq Steps /\ Sent(p)' = Sent(p)
  BY <1>1, StepsOf DEF Sent, IInv, TypeOK
<1>13. \A i \in Steps : Outputs(PipelineActions[i]) \subseteq Artifact
  BY StepsOf, OutputsOf
<1>14. \A p \in Pipelines : \A i \in Sent(p)' :
          \A f \in Outputs(PipelineActions[i]) : Kept(p, f)'
  BY <1>3, <1>11, <1>12, <1>13 DEF AllKept
<1>15. In(toSave)' \subseteq In(toSave)
  BY <1>2 DEF In
<1>16. \A p \in Pipelines : \A f \in Artifact :
          remote'[p][f] \in {NoFile, Torn} \/ remote'[p][f] \in p..handled
  BY <1>3, <1>8, <1>10 DEF AllKept
<1> QED BY <1>1, <1>3, <1>9, <1>14, <1>15, <1>16 DEF AllKept

\* Outputs stay kept in every step.
LEMMA StepKept == IInv /\ [Next]_vars => AllKept'
<1> SUFFICES ASSUME IInv, [Next]_vars PROVE AllKept'
  OBVIOUS
<1>1. AllKept /\ CallsOfLatest /\ TypeOK /\ handled \in Nat
  BY BoundAssumption DEF IInv, TypeOK
<1>2. ASSUME UNCHANGED <<handled, status, actor, step, toSave, remote, brokenOff>>,
             \A p, f : MayBeTorn(p, f) => MayBeTorn(p, f)'
      PROVE  /\ \A p \in Pipelines : \A i \in Sent(p)' :
                    \A f \in Outputs(PipelineActions[i]) : Kept(p, f)'
             /\ local' = local => AllKept'
  <2>1. \A p \in Pipelines : Sent(p)' = Sent(p)
    BY <1>2 DEF Sent
  <2>2. \A p \in Pipelines : \A i \in Sent(p)' :
           \A f \in Outputs(PipelineActions[i]) : Kept(p, f)'
    BY <1>1, <1>2, <2>1, KeptStays DEF AllKept, In
  <2> QED BY <1>1, <1>2, <2>2 DEF AllKept, In
<1>3. CASE Submit \/ Create \/ Reloaded \/ RestartSaver \/ UNCHANGED vars
  <2>1. UNCHANGED <<handled, status, actor, step, toSave, remote, brokenOff, local>>
    BY <1>3 DEF Submit, Create, Reloaded, RestartSaver, vars
  <2>2. at = "execute" => at' = "execute"
    BY <1>3 DEF Submit, Create, Reloaded, RestartSaver, vars
  <2> QED BY <1>2, <2>1, <2>2 DEF MayBeTorn, Current
<1>4. CASE PipelineExecute \/ Executed \/ Finish \/ Fail
  BY <1>4, ReceiveKeeps
<1>5. CASE Restart
  <2>1. /\ In(toSave)' = {} /\ actor' = "idle" /\ handled' = handled /\ remote' = remote
        /\ \A p \in Pipelines : status'[p] = "none"
    BY <1>5 DEF Restart, In
  <2> QED BY <1>1, <2>1 DEF AllKept, Sent
<1>6. ASSUME NEW a \in Action, Terminate(a) PROVE AllKept'
  BY <1>2, <1>6 DEF Terminate, MayBeTorn, Current
<1>7. ASSUME NEW c \in calls, Return(c) \/ CallFails(c) PROVE AllKept'
  BY <1>2, <1>7 DEF Return, CallFails, MayBeTorn, Current
<1>8. ASSUME NEW c \in calls, NEW f \in Artifact, EngineWrites(c, f) PROVE AllKept'
  <2>1. /\ c.pipeline = handled /\ handled \in Pipelines /\ local \in [Artifact -> File]
        /\ UNCHANGED <<handled, status, actor, step, at, toSave, remote, brokenOff>>
    BY <1>1, <1>8 DEF CallsOfLatest, TypeOK, EngineWrites
  <2>2. local' \in {[local EXCEPT ![f] = Torn], [local EXCEPT ![f] = handled]}
    BY <1>8, <2>1 DEF EngineWrites
  <2>3. \A p \in Pipelines : MayBeTorn(p, f)
    <3>1. CASE actor = "busy"
      <4>1. c = Call(handled, Current, at)
        BY <1>1, <3>1, OpenCall
      <4> QED BY <1>8, <3>1, <4>1 DEF EngineWrites, Call, MayBeTorn
    <3>2. CASE actor = "restarting"
      BY <3>2 DEF MayBeTorn
    <3> QED BY <1>1, <3>1, <3>2 DEF TypeOK, CallsOfLatest
  <2>4. \A p, g : MayBeTorn(p, g)' <=> MayBeTorn(p, g)
    BY <2>1 DEF MayBeTorn, Current
  <2>5. ASSUME NEW m \in In(toSave)
        PROVE  /\ m.protocol <= handled
               /\ \/ local'[m.artifact] \in m.protocol..handled
                  \/ local'[m.artifact] = Torn /\ MayBeTorn(m.protocol, m.artifact)
    <3>1. /\ m.artifact \in Artifact /\ m.protocol \in Pipelines /\ m.protocol \in Nat
          /\ m.protocol <= handled
      BY <1>1, Messages DEF AllKept
    <3>2. handled \in m.protocol..handled
      BY <1>1, <3>1
    <3>3. CASE m.artifact = f
      BY <2>1, <2>2, <2>3, <3>1, <3>2, <3>3
    <3>4. CASE m.artifact # f
      BY <1>1, <2>1, <2>2, <3>1, <3>4 DEF AllKept
    <3> QED BY <3>3, <3>4
  <2> QED BY <1>1, <1>2, <2>1, <2>4, <2>5 DEF AllKept, In
<1>9. CASE CopyToRemote \/ CopyFails
  BY <1>9, SaverKeeps
<1> QED BY <1>3, <1>4, <1>5, <1>6, <1>7, <1>8, <1>9 DEF Next

-----------------------------------------------------------------------------
(* The properties                                                           *)

\* In every reachable state the invariant holds.
LEMMA Invariance == Spec => []IInv
<1>1. IInv /\ [Next]_vars => IInv'
  BY StepTypes, StepCalls, StepWritten, StepHasRead, StepNames, StepTold, StepKept
  DEF IInv
<1> QED BY <1>1, InitInv, PTL DEF Spec

\* The pipeline action, its children, the saver and the stores only hold what
\* belongs there.
THEOREM Types == Spec => []TypeOK
<1>1. IInv => TypeOK
  BY DEF IInv
<1> QED BY <1>1, Invariance, PTL

\* No action is executed on another pipeline's inputs, or on a torn file, however
\* many pipelines fail, and wherever.
THEOREM ExecutesOnItsInputs == Spec => []FreshInputs
<1>1. IInv => FreshInputs
  BY DEF IInv, HasRead, FreshInputs
<1> QED BY <1>1, Invariance, PTL

\* Nobody is told Working or Failed: the status that receive is to report is
\* overwritten, or forgotten, before the actor takes the question.
THEOREM TellsOnlyFinished == Spec => []OnlyFinishedIsTold
<1>1. IInv => OnlyFinishedIsTold
  BY DEF IInv, Told, OnlyFinishedIsTold
<1> QED BY <1>1, Invariance, PTL

\* A failed pipeline leaves no name behind that the next one would need.
THEOREM FindsNamesFree == Spec => []NamesAreFree
<1>1. IInv => NamesAreFree
  <2> SUFFICES ASSUME IInv, actor = "busy", at = "create", step \in Steps,
                      \A i, j \in Steps :
                          PipelineActions[i] = PipelineActions[j] => i = j,
                      Current \in names, ~finishedLast
               PROVE  FALSE
    BY DEF NamesAreFree
  <2>1. PICK i \in 1..(step - 1) : Current = PipelineActions[i]
    BY DEF IInv, NamesOfLatest
  <2>2. i \in Steps /\ i # step
    BY <2>1, StepsOf
  <2> QED BY <2>1, <2>2 DEF Current
<1> QED BY <1>1, Invariance, PTL

\* The outputs of a Finished pipeline reach the store whole, but for those whose own
\* copy broke off and those that a later pipeline was making by then.
THEOREM SavesWhatFinished == Spec => []FinishedIsSaved
<1>1. IInv => FinishedIsSaved
  <2> SUFFICES ASSUME IInv, NEW p \in Pipelines, status[p] = "Finished",
                      \A i \in DOMAIN toSave : toSave[i].protocol # p,
                      NEW j \in Steps, NEW f \in Outputs(PipelineActions[j])
               PROVE  \/ remote[p][f] = p
                      \/ /\ SaveToRemote(f, p) \in brokenOff
                         /\ remote[p][f] \in {NoFile, Torn}
                      \/ /\ handled > p
                         /\ remote[p][f] \in (p + 1)..handled \union {Torn}
    BY DEF FinishedIsSaved
  <2>1. Kept(p, f)
    BY DEF IInv, AllKept, Sent
  <2>2. SaveToRemote(f, p) \notin In(toSave)
    BY DEF In, SaveToRemote
  <2>3. handled \in Nat /\ p \in Nat
    BY BoundAssumption DEF IInv, TypeOK
  <2>4. p <= handled
    BY <2>3 DEF IInv, Told
  <2>5. MayBeTorn(p, f) => handled > p
    BY <2>3, <2>4 DEF IInv, Told, MayBeTorn
  <2>6. remote[p][f] \in p..handled =>
           remote[p][f] = p \/ (handled > p /\ remote[p][f] \in (p + 1)..handled)
    BY <2>3
  <2> QED BY <2>1, <2>2, <2>5, <2>6 DEF Kept
<1> QED BY <1>1, Invariance, PTL

-----------------------------------------------------------------------------
(* What clients rely on                                                     *)

\* A status that is saved is a change of clients' view that a job's life cycle has,
\* when no other pipeline is Working.
LEMMA SavedBecomes ==
    ASSUME status \in [Pipelines -> Statuses], handled \in Nat, handled' \in Nat,
           NEW p \in Pipelines, NEW s \in Statuses \ {"none"}, Save(p, s),
           p <= handled',
           \A k \in Pipelines : k # p => status[k] \in {"none", "Finished"},
           \A k \in Pipelines : k > handled => status[k] = "none",
           handled' = handled \/ (handled' = p /\ p = handled + 1)
    PROVE  LifeCycle!Becomes(p, s)
<1> DEFINE new == [status EXCEPT ![p] = s]
           view == [clientView EXCEPT ![p] = s]
<1>1. LifeCycle!Known \union {p} = Entries(new, "none")
  BY DEF LifeCycle!Known, clientView, Entries, Statuses
<1> DEFINE look(st, k) == IF st # "none" THEN st
                          ELSE IF k > handled THEN "none" ELSE "forgotten"
<1>4. \A k \in Pipelines : k # p => (k > handled' <=> k > handled)
  BY BoundAssumption
<1>5. \A k \in Pipelines :
         clientView'[k] = IF k = p /\ status'[k] = "none" THEN "forgotten"
                          ELSE look(status'[k], k)
  BY <1>4, BoundAssumption DEF clientView
<1>6. \A k \in Pipelines : clientView[k] = look(status[k], k)
  BY DEF clientView
<1>7. /\ clientView' = [k \in Pipelines |-> clientView'[k]]
      /\ view = [k \in Pipelines |-> IF k = p THEN s ELSE clientView[k]]
  BY DEF clientView
<1> HIDE DEF view
<1>2. CASE status' = new
  <2>1. \A k \in Pipelines : clientView'[k] = IF k = p THEN s ELSE clientView[k]
    BY <1>2, <1>5, <1>6 DEF Statuses
  <2>2. clientView' = view
    BY <1>7, <2>1
  <2> QED BY <2>2 DEF LifeCycle!Becomes, view
<1>3. ASSUME Cardinality(Entries(new, "none")) > CacheSize,
             NEW k \in Entries(new, "none") \ {p},
             status' = [new EXCEPT ![k] = "none"]
      PROVE  LifeCycle!Becomes(p, s)
  <2>1. k \in Pipelines /\ status[k] = "Finished" /\ k <= handled
    BY <1>3 DEF Entries
  <2>2. clientView' = [view EXCEPT ![k] = "forgotten"]
    <3>1. \A q \in Pipelines :
             clientView'[q] = IF q = p THEN s ELSE IF q = k THEN "forgotten"
                              ELSE clientView[q]
      BY <1>3, <1>5, <1>6, <2>1 DEF Statuses
    <3>2. clientView' = [q \in Pipelines |->
                            IF q = p THEN s ELSE IF q = k THEN "forgotten"
                            ELSE clientView[q]]
      BY <1>7, <3>1
    <3> QED BY <1>3, <1>7, <2>1, <3>2
  <2>3. k \in LifeCycle!Known \ {p} /\ ~LifeCycle!UnderWay(k)
    BY <1>3, <2>1 DEF LifeCycle!Known, LifeCycle!UnderWay, clientView
  <2>4. clientView' = [view EXCEPT ![k] = IF LifeCycle!UnderWay(k) THEN "evicted"
                                          ELSE "forgotten"]
    BY <2>2, <2>3
  <2>5. LifeCycle!Cardinality(LifeCycle!Known \union {p}) > CacheSize
    <3>1. \A S : LifeCycle!Cardinality(S) = Cardinality(S)
      BY Zenon DEF LifeCycle!Cardinality, Cardinality
    <3> QED BY <1>1, <1>3, <3>1
  <2> HIDE DEF new
  <2> QED BY <2>3, <2>4, <2>5 DEF LifeCycle!Becomes, view
<1> QED BY <1>2, <1>3 DEF Save, Saved

\* Clients see each step as one of a job's life cycle, or not at all.
LEMMA StepSimulates == IInv /\ [Next]_vars => [LifeCycle!Next]_clientView
<1> SUFFICES ASSUME IInv, [Next]_vars PROVE [LifeCycle!Next]_clientView
  OBVIOUS
<1>1. /\ handled \in Nat /\ issued \in 0..MaxPipelines
      /\ status \in [Pipelines -> Statuses] /\ InReceive /\ Told
  BY BoundAssumption DEF IInv, TypeOK, Statuses
<1>2. CASE PipelineExecute
  <2> DEFINE p == handled + 1
  <2>1. handled' = p /\ p \in Pipelines /\ actor = "idle" /\ Save(p, "Working")
    BY <1>1, <1>2, BoundAssumption DEF PipelineExecute
  <2>2. LifeCycle!Becomes(p, "Working")
    BY <1>1, <2>1, SavedBecomes DEF Told, Statuses
  <2>3. clientView[p] = "none"
    BY <1>1, <2>1 DEF clientView, Told
  <2> QED BY <2>1, <2>2, <2>3 DEF LifeCycle!Next, LifeCycle!Accept
<1>3. CASE Finish \/ Fail
  <2>1. /\ handled' = handled /\ handled \in Pipelines /\ actor = "busy"
        /\ Save(handled, "Finished") \/ Save(handled, "Failed")
    BY <1>1, <1>3 DEF Finish, Fail, InReceive
  <2>2. LifeCycle!Becomes(handled, "Finished") \/ LifeCycle!Becomes(handled, "Failed")
    <3>1. /\ \A k \in Pipelines : k # handled => status[k] \in {"none", "Finished"}
          /\ \A k \in Pipelines : k > handled => status[k] = "none"
          /\ handled <= handled'
      BY <1>1, <2>1 DEF Told
    <3>2. "Finished" \in Statuses \ {"none"} /\ "Failed" \in Statuses \ {"none"}
      BY DEF Statuses
    <3>3. ASSUME NEW s \in Statuses \ {"none"}, Save(handled, s)
          PROVE  LifeCycle!Becomes(handled, s)
      BY <1>1, <2>1, <3>1, <3>3, SavedBecomes
    <3> QED BY <2>1, <3>2, <3>3
  <2>3. LifeCycle!UnderWay(handled)
    BY <1>1, <2>1 DEF LifeCycle!UnderWay, clientView, Told
  <2> QED BY <2>1, <2>2, <2>3 DEF LifeCycle!Next, LifeCycle!End
<1>4. CASE Restart
  <2>1. handled' = handled /\ status' = [p \in Pipelines |-> "none"]
    BY <1>4 DEF Restart
  <2>2. \A p \in Pipelines : clientView[p] = "none" <=> p > handled
    BY <1>1 DEF clientView, Told
  <2>3. clientView' = [p \in Pipelines |->
                          IF clientView[p] = "none" THEN "none" ELSE "forgotten"]
    BY <2>1, <2>2 DEF clientView
  <2> QED BY <2>3 DEF LifeCycle!Next, LifeCycle!Restart
<1>5. CASE UNCHANGED <<handled, status>>
  BY <1>5 DEF clientView
<1>6. \/ PipelineExecute \/ Finish \/ Fail \/ Restart
      \/ UNCHANGED <<handled, status>>
  BY DEF Next, vars, Submit, Create, Reloaded, Executed, Terminate, EngineWrites,
         Return, CallFails, CopyToRemote, CopyFails, RestartSaver
<1> QED BY <1>2, <1>3, <1>4, <1>5, <1>6

\* For clients, a pipeline is a job: its outcome never changes once told, and it is
\* lost only in a restart or when the cache is full.
THEOREM IsALifeCycle == Spec => LifeCycle!Spec
<1>1. Init => LifeCycle!Init
  BY DEF Init, LifeCycle!Init, clientView
<1> QED BY <1>1, StepSimulates, Invariance, PTL DEF Spec, LifeCycle!Spec

\* A step of a life cycle leaves an outcome as it is, or forgets it.
LEMMA OutcomeStays ==
    ASSUME [LifeCycle!Next]_clientView, NEW j \in Pipelines
    PROVE  /\ clientView[j] \in {"Finished", "Failed"} =>
                 clientView'[j] \in {clientView[j], "forgotten"}
           /\ clientView[j] = "forgotten" => clientView'[j] = "forgotten"
<1>0. clientView = [k \in Pipelines |-> clientView[k]]
  BY DEF clientView
<1> HIDE DEF clientView
<1>1. ASSUME NEW k \in Pipelines, NEW s, LifeCycle!Becomes(k, s), k # j
      PROVE  \/ clientView'[j] = clientView[j]
             \/ /\ j \in LifeCycle!Known
                /\ clientView'[j] = IF LifeCycle!UnderWay(j) THEN "evicted" ELSE "forgotten"
  BY <1>0, <1>1 DEF LifeCycle!Becomes, LifeCycle!Known
<1>2. ASSUME NEW k \in Pipelines, LifeCycle!Accept(k) \/ LifeCycle!End(k)
      PROVE  \/ LifeCycle!UnderWay(j) \/ clientView[j] = "none"
             \/ clientView'[j] = clientView[j]
             \/ j \in LifeCycle!Known /\ clientView'[j] = "forgotten"
  <2>1. CASE k = j
    BY <1>2, <2>1 DEF LifeCycle!Accept, LifeCycle!End
  <2>2. CASE k # j
    BY <1>1, <1>2, <2>2 DEF LifeCycle!Accept, LifeCycle!End
  <2> QED BY <2>1, <2>2
<1>3. LifeCycle!UnderWay(j) => clientView[j] \in {"Working", "evicted"}
  BY DEF LifeCycle!UnderWay
<1>4. CASE LifeCycle!Restart
  BY <1>0, <1>4 DEF LifeCycle!Restart
<1>5. j \in LifeCycle!Known => clientView[j] # "forgotten"
  BY DEF LifeCycle!Known
<1> QED BY <1>2, <1>3, <1>4, <1>5 DEF LifeCycle!Next

\* So a client that has read an outcome of its pipeline reads the same one as long as
\* it is told anything of it, and is never told anything of one that is forgotten.
THEOREM OutcomesStand ==
    Spec => [][\A j \in Pipelines :
                  /\ clientView[j] \in {"Finished", "Failed"} =>
                        clientView'[j] \in {clientView[j], "forgotten"}
                  /\ clientView[j] = "forgotten" => clientView'[j] = "forgotten"]_vars
<1>1. IInv /\ [Next]_vars =>
         [\A j \in Pipelines :
             /\ clientView[j] \in {"Finished", "Failed"} =>
                   clientView'[j] \in {clientView[j], "forgotten"}
             /\ clientView[j] = "forgotten" => clientView'[j] = "forgotten"]_vars
  BY StepSimulates, OutcomeStays
<1> QED BY <1>1, Invariance, PTL DEF Spec
=============================================================================
