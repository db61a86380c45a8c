--------------------------- MODULE BatchActionProofs ---------------------------
(***************************************************************************)
(* Theorems about BatchAction, for every list of artifacts that the action *)
(* makes and loads, and number of jobs, reloads and queries.               *)
(***************************************************************************)
EXTENDS BatchAction, MailboxLemmas

Statuses == {"none", "Working", "Finished", "Failed"}
Phases == {"none", "executing", "executed", "saving", "over"}
Outgoing == [op : {"SaveToRemote", "GetArtifact"}, artifact : Artifact, id : Jobs]
Incoming == [op : {"SaveToLocal"}, artifact : Artifact, id : Reloads]
ToSave == Outgoing \union Incoming
ToProxy == Origin \union {Health}

\* What the action makes, and what it loads and does not make.
Made == Asks(ArtifactsToPersist) \ Asks(ArtifactsToLoad)
Loaded == Asks(ArtifactsToLoad) \ Asks(ArtifactsToPersist)

-----------------------------------------------------------------------------
(* The inductive invariant                                                  *)

\* A status agrees with the phase of the job.
Told == \A j \in Jobs :
    /\ phase[j] = "none" => status[j] = "none"
    /\ phase[j] \in {"executing", "executed", "saving"}
          => status[j] \in {"none", "Working"}
    /\ phase[j] = "over" => status[j] \in {"none", "Finished", "Failed"}

\* Jobs and reloads are accepted in the order of their numbers.
InOrder ==
    /\ \A j \in Issued : \A k \in 1..(j - 1) : k \in Issued
    /\ \A r \in Reloads : \A s \in 1..(r - 1) :
          loading[r] # "none" => loading[s] # "none"
    /\ \A k \in Issued : \A j \in 1..(k - 1) : j \in UnderWay => j \in overtaken

\* The calls to come, and the one the proxy is at.
Turns == In(toProxy) \union (IF rpc = None THEN {} ELSE {rpc})

\* Calls come in the order of the jobs.
CallOrder == {p \in ToProxy \X ToProxy :
    p[1].kind = "job" /\ p[2].kind = "job" => p[1].id < p[2].id}

\* Job j has its output, which is still on the disk or was sent to the store.
HasOutput(j) == phase[j] \in {"executed", "saving"} \/ status[j] = "Finished"

\* The artifact a is of job j or a later one.
NotOlder(j, a) ==
    \/ local[a] = Job(j)
    \/ \E k \in Issued : k > j /\ local[a] \in {Job(k), Torn}

Executions ==
    /\ Chain(toProxy, CallOrder)
    /\ \A c \in Turns : c.kind = "job" =>
          /\ c.id \in Issued
          /\ \A j \in Jobs : j >= c.id => ~HasOutput(j)
    /\ rpc # None => \A c \in In(toProxy) : <<rpc, c>> \in CallOrder
    /\ \A j \in Jobs : HasOutput(j) => \A a \in Made : NotOlder(j, a)

\* A copy to the store is asked for once, and for an artifact that is pending.
SaveOrder == {p \in ToSave \X ToSave :
    /\ p[1].op = "SaveToRemote" => p[2] # p[1]
    /\ p[1].op = "SaveToLocal" /\ p[2].op = "SaveToLocal"
          /\ p[1].artifact = p[2].artifact => p[1].id < p[2].id}

\* What job j has in the store is its own, or a later job's that overtook it.
Own(j, a) ==
    \/ remote[j][a] = Job(j)
    \/ j \in overtaken /\ remote[j][a] \in {Job(k) : k \in (j + 1)..MaxJobs} \union {Torn}

\* Job j has had its artifact a copied.
Copied(j, a) ==
    \/ status[j] = "Finished"
    \/ phase[j] = "saving" /\ a \notin pending[j]

Copies ==
    /\ Chain(toSave, SaveOrder)
    /\ \A m \in In(toSave) : m.op = "SaveToRemote" =>
          /\ phase[m.id] \in {"saving", "over"}
          /\ ~Copied(m.id, m.artifact)
    /\ \A j \in Jobs : \A a \in Made : Copied(j, a) => Own(j, a)

\* The artifact a is of reload r or a later one, or that one's copy broke off.
NotOlderFile(r, a) ==
    \/ local[a] = Reload(r)
    \/ \E s \in Reloads : /\ s > r /\ loading[s] # "none"
                          /\ local[a] \in {Reload(s), Torn, NoFile}

\* The artifact a is on the disk as reload r has named it.
Fetched(r, a) ==
    \/ loading[r] = "saving" /\ a \notin awaiting[r]
    \/ Reload(r) \in Turns

Fetches ==
    /\ \A m \in In(toSave) : m.op = "SaveToLocal" =>
          /\ m.artifact \in Asks(ArtifactsToLoad) /\ loading[m.id] # "none"
          /\ \A r \in Reloads : Fetched(r, m.artifact) => r < m.id
    /\ \A r \in Reloads : \A a \in Loaded :
          Fetched(r, a) /\ <<a, r>> \in Stored => NotOlderFile(r, a)
    /\ \A c \in Turns : c.kind = "reload" => loading[c.id] = "over"

IInv == /\ TypeOK /\ Told /\ InOrder /\ Executions /\ Copies /\ Fetches
        /\ LoadsWhatWasNamed

-----------------------------------------------------------------------------
USE DEF Jobs, Reloads, jobs, reloads, files

\* Saving a status leaves the others as they are, or evicts one.
LEMMA SaveStatus ==
    ASSUME status \in [Jobs -> Statuses], NEW j \in Jobs, NEW s \in Statuses, Save(j, s)
    PROVE  /\ status' \in [Jobs -> Statuses] /\ status'[j] = s
           /\ \A k \in Jobs : k # j => status'[k] \in {status[k], "none"}
<1> DEFINE new == [status EXCEPT ![j] = s]
<1>1. \/ status' = new
      \/ \E k \in Jobs \ {j} : status' = [new EXCEPT ![k] = "none"]
  BY DEF Save, Saved, Entries
<1> QED BY <1>1 DEF Statuses

\* One file of the store is replaced.
LEMMA SetFile ==
    ASSUME remote \in [Jobs -> [Artifact -> Content]], NEW j \in Jobs,
           NEW a \in Artifact, NEW v \in Content,
           remote' = [remote EXCEPT ![j][a] = v]
    PROVE  /\ remote' \in [Jobs -> [Artifact -> Content]] /\ remote'[j][a] = v
           /\ \A k \in Jobs : \A b \in Artifact :
                 k # j \/ b # a => remote'[k][b] = remote[k][b]
<1>1. [remote[j] EXCEPT ![a] = v] \in [Artifact -> Content]
  OBVIOUS
<1> QED BY <1>1

\* The lists of artifacts.
LEMMA Lists ==
    /\ Len(ArtifactsToPersist) \in Nat
    /\ DOMAIN ArtifactsToPersist = 1..Len(ArtifactsToPersist)
    /\ Len(ArtifactsToLoad) \in Nat
    /\ DOMAIN ArtifactsToLoad = 1..Len(ArtifactsToLoad)
    /\ Asks(ArtifactsToPersist) \subseteq Artifact
    /\ Asks(ArtifactsToLoad) \subseteq Artifact
<1> QED BY ArtifactAssumption, LenProperties, ElementIn DEF Asks

\* The messages that have a job's outputs saved, and those for the first artifacts
\* that a reload names.
Outputs(j) == [i \in DOMAIN ArtifactsToPersist |-> SaveToRemote(ArtifactsToPersist[i], j)]
Inputs(r, k) == [i \in 1..k |-> SaveToLocal(ArtifactsToLoad[i], r)]

LEMMA OutputsOf ==
    ASSUME NEW j \in Jobs
    PROVE  /\ Outputs(j) \in Seq(ToSave) /\ Chain(Outputs(j), SaveOrder)
           /\ In(Outputs(j)) = {SaveToRemote(a, j) : a \in Asks(ArtifactsToPersist)}
<1> DEFINE p == ArtifactsToPersist
           q == [i \in DOMAIN p |-> SaveToRemote(p[i], j)]
<1>1. Len(p) \in Nat /\ DOMAIN p = 1..Len(p) /\ \A i \in DOMAIN p : p[i] \in Artifact
  BY Lists, ArtifactAssumption, ElementIn
<1>2. \A i \in DOMAIN p : SaveToRemote(p[i], j) \in ToSave
  BY <1>1 DEF SaveToRemote, ToSave, Outgoing
<1>3. q \in [1..Len(p) -> ToSave]
  BY <1>1, <1>2
<1>4. q \in Seq(ToSave)
  BY <1>1, <1>3, SeqDef
<1>5. In(q) = {SaveToRemote(a, j) : a \in Asks(p)}
  BY DEF In, Asks
<1>6. Chain(q, SaveOrder)
  <2> SUFFICES ASSUME NEW i \in DOMAIN q, NEW k \in DOMAIN q, i < k
               PROVE  <<q[i], q[k]>> \in SaveOrder
    BY DEF Chain
  <2>1. i \in DOMAIN p /\ k \in DOMAIN p /\ p[i] # p[k]
    BY <1>1, OnceAssumption
  <2>2. q[i].artifact = p[i] /\ q[k].artifact = p[k] /\ q[i].op = "SaveToRemote"
    BY <2>1 DEF SaveToRemote
  <2>3. q[i] \in ToSave /\ q[k] \in ToSave
    BY <1>2, <2>1
  <2> HIDE DEF q
  <2> QED BY <2>1, <2>2, <2>3 DEF SaveOrder
<1>7. Outputs(j) = q
  BY DEF Outputs
<1> QED BY <1>4, <1>5, <1>6, <1>7

LEMMA InputsOf ==
    ASSUME NEW r \in Reloads, NEW k \in 0..Len(ArtifactsToLoad)
    PROVE  /\ Inputs(r, k) \in Seq(ToSave) /\ Chain(Inputs(r, k), SaveOrder)
           /\ \A m \in In(Inputs(r, k)) :
                 /\ m.op = "SaveToLocal" /\ m.id = r /\ m \in ToSave
                 /\ m.artifact \in Asks(ArtifactsToLoad)
<1> DEFINE p == ArtifactsToLoad
           q == [i \in 1..k |-> SaveToLocal(p[i], r)]
<1>1. /\ k \in Nat /\ \A i \in 1..k : i \in DOMAIN p
      /\ \A i \in DOMAIN p : p[i] \in Artifact
  BY Lists, ArtifactAssumption, ElementIn
<1>2. \A i \in 1..k : SaveToLocal(p[i], r) \in ToSave
  BY <1>1 DEF SaveToLocal, ToSave, Incoming
<1>3. q \in [1..k -> ToSave]
  BY <1>2
<1>4. q \in Seq(ToSave)
  BY <1>1, <1>3, SeqDef
<1>5. \A i \in 1..k : /\ q[i] \in ToSave /\ q[i].op = "SaveToLocal" /\ q[i].id = r
                       /\ q[i].artifact = p[i] /\ p[i] \in Asks(p)
  BY <1>1, <1>2 DEF SaveToLocal, Asks
<1>6. Chain(q, SaveOrder)
  <2> SUFFICES ASSUME NEW i \in DOMAIN q, NEW l \in DOMAIN q, i < l
               PROVE  <<q[i], q[l]>> \in SaveOrder
    BY DEF Chain
  <2>1. i \in 1..k /\ l \in 1..k /\ p[i] # p[l]
    BY <1>1, OnceAssumption
  <2> HIDE DEF q
  <2> QED BY <1>5, <2>1 DEF SaveOrder
<1>7. Inputs(r, k) = q
  BY DEF Inputs
<1>8. \A m \in In(q) : \E i \in 1..k : m = q[i]
  BY DEF In
<1> HIDE DEF q
<1> QED BY <1>4, <1>5, <1>6, <1>7, <1>8

-----------------------------------------------------------------------------
(* Types                                                                    *)

\* The actor, its children and the engine start with values of their types, and
\* with nothing under way.
LEMMA InitInv == Init => IInv
<1> SUFFICES ASSUME Init PROVE IInv
  OBVIOUS
<1>1. /\ <<>> \in Seq(ToSave) /\ <<>> \in Seq(ToProxy)
      /\ In(toSave) = {} /\ In(toProxy) = {}
  BY InType DEF Init
<1>2. TypeOK
  <2>1. local \in [Artifact -> Content] /\ remote \in [Jobs -> [Artifact -> Content]]
    BY DEF Init, Content
  <2> QED BY <1>1, <2>1 DEF Init, TypeOK, ToSave, Outgoing, Incoming, ToProxy
<1>3. Turns = {} /\ \A j \in Jobs : ~HasOutput(j)
  BY <1>1 DEF Init, Turns, HasOutput
<1>4. Chain(toProxy, CallOrder) /\ Chain(toSave, SaveOrder)
  <2>1. DOMAIN <<>> = {}
    BY EmptySeq
  <2> QED BY <2>1 DEF Init, Chain
<1>5. Told /\ InOrder /\ LoadsWhatWasNamed
  BY DEF Init, Told, InOrder, Issued, LoadsWhatWasNamed
<1>6. Executions
  BY <1>1, <1>3, <1>4 DEF Executions, Init
<1>7. Copies /\ Fetches
  BY <1>1, <1>3, <1>4 DEF Init, Copies, Copied, Fetches, Fetched
<1> QED BY <1>2, <1>5, <1>6, <1>7 DEF IInv

\* Every step of the actor, its callbacks and children keeps the variables within
\* their types.
LEMMA StepTypes == TypeOK /\ [Next]_vars => TypeOK'
<1> SUFFICES ASSUME TypeOK, [Next]_vars PROVE TypeOK'
  OBVIOUS
<1> USE DEF TypeOK
<1>1. toSave \in Seq(ToSave) /\ toProxy \in Seq(ToProxy)
  BY DEF ToSave, ToProxy, Outgoing, Incoming
<1>2. ASSUME NEW j \in Jobs, Execute(j) PROVE TypeOK'
  <2>1. status' \in [Jobs -> Statuses]
    BY <1>2, SaveStatus DEF Execute, Statuses
  <2>2. toProxy' \in Seq(ToProxy)
    <3>1. Job(j) \in ToProxy
      BY DEF Job, ToProxy, Origin
    <3> QED BY <1>1, <1>2, <3>1, InAppend DEF Execute
  <2> QED BY <1>2, <2>1, <2>2 DEF Execute, Statuses, ToProxy, UnderWay, Issued
<1>3. ASSUME NEW j \in Jobs, ExecuteTimesOut(j) \/ AllSaved(j) \/ SaveTimesOut(j)
      PROVE  TypeOK'
  <2>1. status' \in [Jobs -> Statuses]
    BY <1>3, SaveStatus DEF ExecuteTimesOut, AllSaved, SaveTimesOut, Statuses
  <2> QED BY <1>3, <2>1 DEF ExecuteTimesOut, AllSaved, SaveTimesOut, Statuses
<1>4. ASSUME NEW j \in Jobs, SaveOutputs(j) PROVE TypeOK'
  <2>1. toSave' = toSave \o Outputs(j)
    BY <1>4 DEF SaveOutputs, Outputs
  <2>2. toSave' \in Seq(ToSave)
    BY <1>1, <2>1, OutputsOf, AddAll
  <2> QED BY <1>4, <2>2 DEF SaveOutputs, ToSave, Outgoing, Incoming
<1>5. ASSUME NEW r \in Reloads, BatchReload(r) PROVE TypeOK'
  <2>1. toSave' = toSave \o Inputs(r, Len(ArtifactsToLoad))
    BY <1>5 DEF BatchReload, AskFor, Inputs
  <2>2. toSave' \in Seq(ToSave)
    BY <1>1, <2>1, InputsOf, AddAll, Lists
  <2> QED BY <1>5, <2>2 DEF BatchReload, ToSave, Outgoing, Incoming
<1>6. ASSUME NEW r \in Reloads, NEW k \in 0..Len(ArtifactsToLoad), BadReload(r, k)
      PROVE  TypeOK'
  <2>1. toSave' = toSave \o Inputs(r, k)
    BY <1>6 DEF BadReload, AskFor, Inputs
  <2>2. toSave' \in Seq(ToSave)
    BY <1>1, <2>1, InputsOf, AddAll
  <2> QED BY <1>6, <2>2 DEF BadReload, ToSave, Outgoing, Incoming
<1>7. ASSUME NEW r \in Reloads, AllLoaded(r) \/ LoadTimesOut(r) PROVE TypeOK'
  <2>1. toProxy' \in Seq(ToProxy)
    <3>1. Reload(r) \in ToProxy
      BY DEF Reload, ToProxy, Origin
    <3>2. toProxy' = toProxy \/ toProxy' = Append(toProxy, Reload(r))
      BY <1>7 DEF AllLoaded, LoadTimesOut
    <3>3. Append(toProxy, Reload(r)) \in Seq(ToProxy)
      BY <1>1, <3>1, InAppend
    <3> QED BY <1>1, <3>2, <3>3
  <2> QED BY <1>7, <2>1 DEF AllLoaded, LoadTimesOut, ToProxy
<1>8. ASSUME NEW j \in Jobs, BatchMetrics(j) PROVE TypeOK'
  <2>1. GetMetrics(j) \in ToSave
    BY ArtifactAssumption DEF GetMetrics, ToSave, Outgoing
  <2>2. toSave' \in Seq(ToSave)
    BY <1>1, <1>8, <2>1, InAppend DEF BatchMetrics
  <2> QED BY <1>8, <2>2 DEF BatchMetrics, ToSave, Outgoing, Incoming
<1>9. CASE BatchHealthCheck
  <2>1. toProxy' \in Seq(ToProxy)
    <3>1. Health \in ToProxy
      BY DEF ToProxy
    <3> QED BY <1>1, <1>9, <3>1, InAppend DEF BatchHealthCheck
  <2> QED BY <1>9, <2>1 DEF BatchHealthCheck, ToProxy
<1>10. CASE Restart
  BY <1>10, InType DEF Restart
<1>11. CASE Call
  <2>1. Head(toProxy) \in ToProxy /\ Tail(toProxy) \in Seq(ToProxy)
    BY <1>1, <1>11, TakeFirst DEF Call
  <2> QED BY <1>11, <2>1 DEF Call, ToProxy
<1>12. CASE Return \/ CallFails
  <2>1. loaded' \in [reload : Reloads \union {0}, read : [Artifact -> Content]]
    <3>1. rpc.kind = "reload" => rpc.id \in Reloads
      BY <1>12 DEF Return, CallFails, Origin, Health
    <3> QED BY <1>12, <3>1 DEF Return, CallFails, EngineDone
  <2>2. phase' \in [Jobs -> Phases]
    BY <1>12 DEF Return, CallFails, Answered, Phases
  <2> QED BY <1>12, <2>1, <2>2 DEF Return, CallFails, Phases
<1>13. ASSUME NEW a \in Artifact, EngineWrites(a) PROVE TypeOK'
  <2>1. Torn \in Content /\ rpc \in Content
    BY <1>13 DEF EngineWrites, Content, Health
  <2> QED BY <1>13, <2>1 DEF EngineWrites
<1>14. CASE CopyToRemote \/ CopyToLocal \/ GetArtifact \/ CopyFails
  <2> DEFINE m == Head(toSave)
  <2>1. toSave # <<>> /\ toSave' = Tail(toSave)
    BY <1>14 DEF CopyToRemote, CopyToLocal, GetArtifact, CopyFails, NextFor
  <2>2. m \in ToSave /\ toSave' \in Seq(ToSave)
    BY <1>1, <2>1, TakeFirst
  <2>3. /\ m.artifact \in Artifact /\ Torn \in Content
        /\ m.op = "SaveToRemote" => m.id \in Jobs
        /\ m.op = "SaveToLocal" => m.id \in Reloads /\ Reload(m.id) \in Content
    BY <2>2 DEF ToSave, Outgoing, Incoming, Content, Origin, Reload
  <2> HIDE DEF m
  <2>4. CASE CopyToRemote
    <3>1. m.op = "SaveToRemote"
      BY <2>4 DEF CopyToRemote, NextFor, m
    <3>2. remote' \in [Jobs -> [Artifact -> Content]]
      <4>1. m.id \in Jobs /\ local[m.artifact] \in Content
        BY <2>3, <3>1
      <4>2. \/ remote' = remote
            \/ remote' = [remote EXCEPT ![m.id][m.artifact] = local[m.artifact]]
        BY <2>4 DEF CopyToRemote, m
      <4> QED BY <2>3, <4>1, <4>2, SetFile
    <3>3. pending' \in [Jobs -> SUBSET Asks(ArtifactsToPersist)]
      BY <2>3, <2>4, <3>1 DEF CopyToRemote, m
    <3> QED BY <2>2, <2>4, <3>2, <3>3 DEF CopyToRemote, ToSave, Outgoing, Incoming
  <2>5. CASE CopyToLocal
    <3>1. m.op = "SaveToLocal"
      BY <2>5 DEF CopyToLocal, NextFor, m
    <3>2. local' \in [Artifact -> Content]
      BY <2>3, <2>5, <3>1 DEF CopyToLocal, m
    <3>3. awaiting' \in [Reloads -> SUBSET Asks(ArtifactsToLoad)]
      BY <2>3, <2>5, <3>1 DEF CopyToLocal, m
    <3> QED BY <2>2, <2>5, <3>2, <3>3 DEF CopyToLocal, ToSave, Outgoing, Incoming
  <2>6. CASE GetArtifact
    BY <2>2, <2>6 DEF GetArtifact, ToSave, Outgoing, Incoming
  <2>7. CASE CopyFails
    <3> NoFile \in Content /\ Torn \in Content
      BY DEF Content
    <3>1. local' \in [Artifact -> Content]
      <4>1. local \in [Artifact -> Content]
        OBVIOUS
      <4>2. local' = local \/ \E v \in {local[m.artifact], NoFile, Torn} :
                                 local' = [local EXCEPT ![m.artifact] = v]
        BY <2>7 DEF CopyFails, m
      <4>3. m.artifact \in Artifact
        BY <2>3
      <4>4. local[m.artifact] \in Content
        BY <4>1, <4>3
      <4> HIDE DEF Content, m
      <4>5. PICK v \in Content :
               local' = local \/ local' = [local EXCEPT ![m.artifact] = v]
        BY <4>2, <4>4
      <4> QED BY <4>1, <4>3, <4>5
    <3>2. remote' \in [Jobs -> [Artifact -> Content]]
      <4>1. CASE m.op = "SaveToRemote"
        <5>1. m.id \in Jobs /\ m.artifact \in Artifact
          BY <2>3, <4>1
        <5>2. remote[m.id][m.artifact] \in Content
          BY <5>1
        <5>3. \E v \in {remote[m.id][m.artifact], NoFile, Torn} :
                 remote' = [remote EXCEPT ![m.id][m.artifact] = v]
          BY <2>7, <4>1 DEF CopyFails, m
        <5> HIDE DEF Content, m
        <5>4. PICK v \in Content : remote' = [remote EXCEPT ![m.id][m.artifact] = v]
          BY <5>2, <5>3
        <5> QED BY <5>1, <5>4, SetFile
      <4>2. CASE m.op # "SaveToRemote"
        BY <2>7, <4>2 DEF CopyFails, m
      <4> QED BY <4>1, <4>2
    <3> QED BY <2>2, <2>7, <3>1, <3>2 DEF CopyFails, ToSave, Outgoing, Incoming
  <2> QED BY <1>14, <2>4, <2>5, <2>6, <2>7
<1>15. CASE UNCHANGED vars
  BY <1>15 DEF vars
<1> QED
  BY <1>2, <1>3, <1>4, <1>5, <1>6, <1>7, <1>8, <1>9, <1>10, <1>11, <1>12, <1>13,
     <1>14, <1>15
  DEF Next, Client, Callback

-----------------------------------------------------------------------------
(* What clients are told                                                    *)

\* The steps that change what clients are told, or how far a job is.
Progress ==
    \/ \E j \in Jobs : \/ Execute(j) \/ ExecuteTimesOut(j) \/ SaveOutputs(j)
                       \/ AllSaved(j) \/ SaveTimesOut(j)
    \/ Restart \/ Return

LEMMA ProgressOrNot == [Next]_vars => Progress \/ UNCHANGED <<status, phase, overtaken>>
<1> QED
  BY DEF Next, Client, Callback, Progress, vars, BatchMetrics, BatchReload, BadReload,
         BatchHealthCheck, AllLoaded, LoadTimesOut, Call, CallFails, EngineWrites,
         CopyToRemote, CopyToLocal, GetArtifact, CopyFails

\* A job has no outcome before it is over.
LEMMA StepTold == TypeOK /\ Told /\ [Next]_vars => Told'
<1> SUFFICES ASSUME TypeOK, Told, [Next]_vars PROVE Told'
  OBVIOUS
<1> USE DEF Told
<1>1. status \in [Jobs -> Statuses] /\ phase \in [Jobs -> Phases]
  BY DEF TypeOK, Statuses, Phases
<1>2. ASSUME NEW j \in Jobs, Execute(j) PROVE Told'
  <2>1. status'[j] = "Working" /\ \A k \in Jobs : k # j => status'[k] \in {status[k], "none"}
    BY <1>1, <1>2, SaveStatus DEF Execute, Statuses
  <2>2. phase'[j] = "executing" /\ \A k \in Jobs : k # j => phase'[k] = phase[k]
    BY <1>1, <1>2 DEF Execute
  <2> QED BY <2>1, <2>2
<1>3. ASSUME NEW j \in Jobs, ExecuteTimesOut(j) \/ AllSaved(j) \/ SaveTimesOut(j)
      PROVE  Told'
  <2>1. /\ status'[j] \in {"Finished", "Failed"}
        /\ \A k \in Jobs : k # j => status'[k] \in {status[k], "none"}
    BY <1>1, <1>3, SaveStatus DEF ExecuteTimesOut, AllSaved, SaveTimesOut, Statuses
  <2>2. phase'[j] = "over" /\ \A k \in Jobs : k # j => phase'[k] = phase[k]
    BY <1>1, <1>3 DEF ExecuteTimesOut, AllSaved, SaveTimesOut
  <2> QED BY <2>1, <2>2
<1>4. ASSUME NEW j \in Jobs, SaveOutputs(j) PROVE Told'
  BY <1>1, <1>4 DEF SaveOutputs
<1>5. CASE Restart
  BY <1>5 DEF Restart
<1>6. CASE Return
  BY <1>1, <1>6 DEF Return, Answered
<1>7. CASE UNCHANGED <<status, phase>>
  BY <1>7
<1> QED
  BY <1>2, <1>3, <1>4, <1>5, <1>6, <1>7, ProgressOrNot DEF Progress

\* A status that is saved is a change of clients' view that a job's life cycle has.
LEMMA SavedBecomes ==
    ASSUME TypeOK, Told, NEW j \in Jobs, NEW s \in Statuses \ {"none"}, Save(j, s),
           NEW p \in Phases, phase' = [phase EXCEPT ![j] = p]
    PROVE  LifeCycle!Becomes(j, s)
<1> DEFINE new == [status EXCEPT ![j] = s]
           view == [clientView EXCEPT ![j] = s]
<1>1. status \in [Jobs -> Statuses] /\ phase \in [Jobs -> Phases]
  BY DEF TypeOK, Statuses, Phases
<1>2. LifeCycle!Known \union {j} = Entries(new, "none")
  BY <1>1 DEF LifeCycle!Known, clientView, Entries, Statuses
<1>3. /\ clientView' = [k \in Jobs |-> clientView'[k]]
      /\ view = [k \in Jobs |-> IF k = j THEN s ELSE clientView[k]]
  BY DEF clientView
<1>4. \A k \in Jobs : k # j => phase'[k] = phase[k]
  BY <1>1
<1>5. ASSUME NEW k \in Jobs
      PROVE  clientView'[k] = IF k = j THEN s
                              ELSE IF status'[k] = status[k] THEN clientView[k]
                              ELSE IF LifeCycle!UnderWay(k) THEN "evicted"
                              ELSE "forgotten"
  <2>1. status'[j] = s /\ (k # j => status'[k] \in {status[k], "none"})
    BY <1>1, SaveStatus
  <2> QED BY <1>1, <1>4, <2>1 DEF clientView, LifeCycle!UnderWay, Told, Statuses, Phases
<1> HIDE DEF view
<1>6. CASE status' = new
  <2>1. \A k \in Jobs : clientView'[k] = IF k = j THEN s ELSE clientView[k]
    BY <1>1, <1>5, <1>6
  <2>2. clientView' = view
    BY <1>3, <2>1
  <2> QED BY <2>2 DEF LifeCycle!Becomes, view
<1>7. ASSUME Cardinality(Entries(new, "none")) > CacheSize,
             NEW k \in Entries(new, "none") \ {j},
             status' = [new EXCEPT ![k] = "none"]
      PROVE  LifeCycle!Becomes(j, s)
  <2>1. k \in Jobs /\ k # j /\ status[k] # "none" /\ status'[k] = "none"
    BY <1>1, <1>7 DEF Entries
  <2> DEFINE lost == IF LifeCycle!UnderWay(k) THEN "evicted" ELSE "forgotten"
  <2>2. clientView'[k] = lost
    BY <1>5, <2>1
  <2>3. \A q \in Jobs : q # k => clientView'[q] = IF q = j THEN s ELSE clientView[q]
    BY <1>1, <1>5, <1>7
  <2> HIDE DEF lost
  <2>4. clientView' = [view EXCEPT ![k] = lost]
    <3>1. clientView' = [q \in Jobs |-> IF q = k THEN lost ELSE IF q = j THEN s
                                       ELSE clientView[q]]
      BY <1>3, <2>2, <2>3
    <3> QED BY <1>3, <2>1, <3>1
  <2>5. k \in LifeCycle!Known \ {j}
    BY <1>1, <2>1 DEF LifeCycle!Known, clientView, Statuses
  <2>6. LifeCycle!Cardinality(LifeCycle!Known \union {j}) > CacheSize
    <3>1. \A S : LifeCycle!Cardinality(S) = Cardinality(S)
      BY Zenon DEF LifeCycle!Cardinality, Cardinality
    <3> QED BY <1>2, <1>7, <3>1
  <2> HIDE DEF new
  <2> QED BY <2>4, <2>5, <2>6 DEF LifeCycle!Becomes, view, lost
<1> QED BY <1>6, <1>7 DEF Save, Saved

\* Clients see each step as one of a job's life cycle, or not at all.
LEMMA StepSimulates == TypeOK /\ Told /\ [Next]_vars => [LifeCycle!Next]_clientView
<1> SUFFICES ASSUME TypeOK, Told, [Next]_vars PROVE [LifeCycle!Next]_clientView
  OBVIOUS
<1>1. status \in [Jobs -> Statuses] /\ phase \in [Jobs -> Phases]
  BY DEF TypeOK, Statuses, Phases
<1>2. ASSUME NEW j \in Jobs, Execute(j) PROVE LifeCycle!Next
  <2>1. Save(j, "Working") /\ phase' = [phase EXCEPT ![j] = "executing"]
    BY <1>2 DEF Execute
  <2>2. LifeCycle!Becomes(j, "Working")
    BY <2>1, SavedBecomes DEF Statuses, Phases
  <2>3. clientView[j] = "none"
    BY <1>2 DEF Execute, clientView, Told
  <2> QED BY <2>2, <2>3 DEF LifeCycle!Next, LifeCycle!Accept
<1>3. ASSUME NEW j \in Jobs, ExecuteTimesOut(j) \/ AllSaved(j) \/ SaveTimesOut(j)
      PROVE  LifeCycle!Next
  <2>1. /\ Save(j, "Finished") \/ Save(j, "Failed")
        /\ phase' = [phase EXCEPT ![j] = "over"]
    BY <1>3 DEF ExecuteTimesOut, AllSaved, SaveTimesOut
  <2>2. LifeCycle!Becomes(j, "Finished") \/ LifeCycle!Becomes(j, "Failed")
    BY <2>1, SavedBecomes DEF Statuses, Phases
  <2>3. LifeCycle!UnderWay(j)
    BY <1>3 DEF ExecuteTimesOut, AllSaved, SaveTimesOut, LifeCycle!UnderWay,
                clientView, Told
  <2> QED BY <2>2, <2>3 DEF LifeCycle!Next, LifeCycle!End
<1>4. CASE Restart
  <2>1. \A j \in Jobs : clientView[j] = "none" <=> phase[j] = "none"
    BY <1>1 DEF clientView, Told
  <2>2. clientView' = [j \in Jobs |->
                          IF clientView[j] = "none" THEN "none" ELSE "forgotten"]
    BY <1>4, <2>1 DEF Restart, clientView, Issued
  <2> QED BY <2>2 DEF LifeCycle!Next, LifeCycle!Restart
<1>5. CASE UNCHANGED <<status, phase>>
  BY <1>5 DEF clientView
<1>6. CASE Return \/ \E j \in Jobs : SaveOutputs(j)
  <2>1. /\ status' = status
        /\ \A j \in Jobs :
              \/ phase'[j] = phase[j]
              \/ phase[j] \in {"executing", "executed"} /\ phase'[j] \in {"executed", "saving"}
    BY <1>1, <1>6 DEF Return, Answered, SaveOutputs
  <2> QED BY <2>1 DEF clientView
<1> QED BY <1>2, <1>3, <1>4, <1>5, <1>6, ProgressOrNot DEF Progress

\* Jobs and reloads are accepted one after the other, and a job that is not over
\* when a later one is accepted is overtaken.
LEMMA StepOrder == TypeOK /\ InOrder /\ [Next]_vars => InOrder'
<1> SUFFICES ASSUME TypeOK, InOrder, [Next]_vars PROVE InOrder'
  OBVIOUS
<1>1. phase \in [Jobs -> Phases] /\ loading \in [Reloads -> {"none", "saving", "over"}]
  BY DEF TypeOK, Phases
<1>2. \A j \in Issued' : \A k \in 1..(j - 1) : k \in Issued'
  <2>1. ASSUME NEW j \in Jobs, Execute(j)
        PROVE  Issued' = Issued \union {j} /\ 1..(j - 1) \subseteq Issued
    BY <1>1, <2>1 DEF Execute, Issued
  <2>2. (\E j \in Jobs : Execute(j)) \/ Issued' = Issued
    BY <1>1, ProgressOrNot
    DEF Progress, ExecuteTimesOut, SaveOutputs, AllSaved, SaveTimesOut, Restart, Return,
        Answered, Issued
  <2> QED BY <2>1, <2>2 DEF InOrder
<1>3. \A r \in Reloads : \A s \in 1..(r - 1) : loading'[r] # "none" => loading'[s] # "none"
  <2>1. \A r \in Reloads : loading[r] # "none" => loading'[r] # "none"
    BY <1>1 DEF Next, Client, Callback, vars, Execute, BatchMetrics, BatchReload,
         BadReload, BatchHealthCheck, SaveOutputs, AllSaved, ExecuteTimesOut,
         SaveTimesOut, AllLoaded, LoadTimesOut, Restart, Call, Return, CallFails,
         EngineWrites, CopyToRemote, CopyToLocal, GetArtifact, CopyFails
  <2>2. ASSUME NEW r \in Reloads, loading'[r] # "none", loading[r] = "none"
        PROVE  \A s \in 1..(r - 1) : loading[s] # "none"
    BY <1>1, <2>2 DEF Next, Client, Callback, vars, Execute, BatchMetrics, BatchReload,
         BadReload, BatchHealthCheck, SaveOutputs, AllSaved, ExecuteTimesOut,
         SaveTimesOut, AllLoaded, LoadTimesOut, Restart, Call, Return, CallFails,
         EngineWrites, CopyToRemote, CopyToLocal, GetArtifact, CopyFails
  <2> QED BY <2>1, <2>2, BoundAssumption DEF InOrder
<1>4. ASSUME NEW k \in Issued', NEW j \in 1..(k - 1), j \in UnderWay'
      PROVE  j \in overtaken'
  <2>1. j \in Jobs /\ k \in Jobs /\ j < k
    BY <1>4, BoundAssumption DEF Issued
  <2>2. ASSUME NEW i \in Jobs, Execute(i) PROVE j \in overtaken'
    <3>1. /\ Issued' = Issued \union {i} /\ i \notin Issued /\ 1..(i - 1) \subseteq Issued
          /\ overtaken' = overtaken \union UnderWay
          /\ \A l \in Jobs : l # i => phase'[l] = phase[l]
      BY <1>1, <2>2 DEF Execute, Issued
    <3>2. j # i
      BY <1>4, <2>1, <3>1 DEF InOrder
    <3>3. j \in UnderWay
      BY <1>4, <2>1, <3>1, <3>2 DEF UnderWay, Issued
    <3> QED BY <3>1, <3>3
  <2>3. CASE ~\E i \in Jobs : Execute(i)
    <3>1. k \in Issued /\ j \in UnderWay /\ overtaken' = overtaken
      BY <1>1, <1>4, <2>1, <2>3, ProgressOrNot
      DEF Progress, ExecuteTimesOut, SaveOutputs, AllSaved, SaveTimesOut, Restart, Return,
          Answered, Issued, UnderWay
    <3> QED BY <1>4, <3>1 DEF InOrder
  <2> QED BY <2>2, <2>3
<1> QED BY <1>2, <1>3, <1>4 DEF InOrder

-----------------------------------------------------------------------------
(* The proxy's mailbox                                                      *)

\* The proxy's mailbox, and the saver's, hold messages of their types.
LEMMA Mailboxes ==
    ASSUME TypeOK
    PROVE  /\ toProxy \in Seq(ToProxy) /\ In(toProxy) \subseteq ToProxy
           /\ toSave \in Seq(ToSave) /\ In(toSave) \subseteq ToSave
           /\ rpc # None => rpc \in ToProxy
           /\ None \notin ToProxy
<1>1. toProxy \in Seq(ToProxy) /\ toSave \in Seq(ToSave)
  BY DEF TypeOK, ToProxy, ToSave, Outgoing, Incoming
<1>2. In(toProxy) \subseteq ToProxy
  BY <1>1, InType
<1>3. In(toSave) \subseteq ToSave
  BY <1>1, InType
<1>4. (rpc # None => rpc \in ToProxy) /\ None \notin ToProxy
  BY ContentAssumption DEF TypeOK, ToProxy
<1> QED BY <1>1, <1>2, <1>3, <1>4

\* A call to come is the last one; the mailbox keeps its order.
LEMMA AddTurn ==
    ASSUME TypeOK, NEW c \in ToProxy, toProxy' = Append(toProxy, c), rpc' = rpc,
           Chain(toProxy, CallOrder),
           \A d \in Turns : <<d, c>> \in CallOrder,
           rpc # None => \A d \in In(toProxy) : <<rpc, d>> \in CallOrder
    PROVE  /\ Turns' = Turns \union {c} /\ Chain(toProxy, CallOrder)'
           /\ rpc' # None => \A d \in In(toProxy)' : <<rpc', d>> \in CallOrder
<1>1. toProxy \in Seq(ToProxy)
  BY Mailboxes
<1>2. In(Append(toProxy, c)) = In(toProxy) \union {c}
  BY <1>1, InAppend
<1>3. In(toProxy)' = In(toProxy) \union {c}
  BY <1>2 DEF In
<1>4. \A d \in In(toProxy) : <<d, c>> \in CallOrder
  BY DEF Turns
<1>5. Chain(Append(toProxy, c), CallOrder)
  BY <1>1, <1>4, ChainAppend
<1> QED BY <1>3, <1>5 DEF Turns, Chain

\* A call that is no job's, nor a reload's, may come when it likes.
LEMMA NoJob ==
    ASSUME TypeOK, NEW c \in ToProxy, c.kind # "job"
    PROVE  \A d \in Turns : <<d, c>> \in CallOrder
<1>1. \A d \in Turns : d \in ToProxy
  BY Mailboxes DEF Turns
<1> QED BY <1>1 DEF CallOrder

\* The proxy's next call.
LEMMA NextTurn ==
    ASSUME TypeOK, Call, Chain(toProxy, CallOrder)
    PROVE  /\ Turns' = Turns /\ Chain(toProxy, CallOrder)'
           /\ \A d \in In(toProxy)' : <<rpc', d>> \in CallOrder
<1>1. /\ toProxy \in Seq(ToProxy) /\ toProxy # <<>> /\ rpc = None
      /\ rpc' = Head(toProxy) /\ toProxy' = Tail(toProxy)
  BY Mailboxes DEF Call
<1>2. /\ Head(toProxy) \in ToProxy
      /\ In(toProxy) = {Head(toProxy)} \union In(Tail(toProxy))
  BY <1>1, InTail
<1>3. /\ Chain(Tail(toProxy), CallOrder)
      /\ \A e \in In(Tail(toProxy)) : <<Head(toProxy), e>> \in CallOrder
  BY <1>1, ChainTail
<1>4. In(toProxy)' = In(Tail(toProxy))
  BY <1>1 DEF In
<1>5. rpc' # None
  BY <1>1, <1>2, Mailboxes
<1> QED BY <1>1, <1>2, <1>3, <1>4, <1>5 DEF Turns, Chain

\* The proxy is stopped: no call is to come.
LEMMA NoTurns == Restart => Turns' = {} /\ Chain(toProxy, CallOrder)' /\ rpc' = None
<1> SUFFICES ASSUME Restart PROVE Turns' = {} /\ Chain(toProxy, CallOrder)' /\ rpc' = None
  OBVIOUS
<1>1. toProxy' = <<>> /\ rpc' = None
  BY DEF Restart
<1>2. DOMAIN toProxy' = {}
  BY <1>1, EmptySeq
<1> QED BY <1>1, <1>2 DEF Turns, In, Chain

\* The mailbox and the call stay as they are, or the call ends.
LEMMA SameTurns ==
    ASSUME toProxy' = toProxy, rpc' = rpc \/ rpc' = None
    PROVE  /\ Turns' \subseteq Turns /\ In(toProxy)' = In(toProxy)
           /\ rpc' = None => Turns' = In(toProxy)
           /\ rpc' = rpc => Turns' = Turns
           /\ Chain(toProxy, CallOrder) => Chain(toProxy, CallOrder)'
<1> QED BY DEF Turns, In, Chain

-----------------------------------------------------------------------------
(* Jobs and their outputs                                                   *)

\* Steps in which no job comes to its turn, and the outputs on the disk stay.
LEMMA ExecutionsStay ==
    ASSUME Executions, Chain(toProxy, CallOrder)',
           \A c \in Turns' : c.kind = "job" => c \in Turns,
           rpc' # None => \A c \in In(toProxy)' : <<rpc', c>> \in CallOrder,
           \A j \in Jobs : HasOutput(j)' => HasOutput(j),
           Issued \subseteq Issued',
           \A a \in Made : local'[a] = local[a]
    PROVE  Executions'
<1>1. \A c \in Turns' : c.kind = "job" =>
         c.id \in Issued' /\ \A j \in Jobs : j >= c.id => ~HasOutput(j)'
  BY DEF Executions
<1>2. \A j \in Jobs : \A a \in Made : NotOlder(j, a) => NotOlder(j, a)'
  BY DEF NotOlder, Job
<1>3. \A j \in Jobs : HasOutput(j)' => \A a \in Made : NotOlder(j, a)'
  BY <1>2 DEF Executions
<1> QED BY <1>1, <1>3 DEF Executions

\* A step that leaves the proxy's mailbox and the files alone, and saves statuses.
LEMMA OutputsStay ==
    ASSUME TypeOK, Told, NEW j \in Jobs,
           ExecuteTimesOut(j) \/ AllSaved(j) \/ SaveTimesOut(j) \/ SaveOutputs(j)
    PROVE  /\ \A k \in Jobs : HasOutput(k)' => HasOutput(k)
           /\ Issued' = Issued /\ UNCHANGED <<toProxy, rpc, local>>
<1>1. status \in [Jobs -> Statuses] /\ phase \in [Jobs -> Phases]
  BY DEF TypeOK, Statuses, Phases
<1>2. CASE ExecuteTimesOut(j) \/ AllSaved(j) \/ SaveTimesOut(j)
  <2>1. /\ \/ status'[j] = "Failed"
           \/ status'[j] = "Finished" /\ phase[j] = "saving"
        /\ \A k \in Jobs : k # j => status'[k] \in {status[k], "none"}
    BY <1>1, <1>2, SaveStatus DEF ExecuteTimesOut, AllSaved, SaveTimesOut, Statuses
  <2>2. phase'[j] = "over" /\ \A k \in Jobs : k # j => phase'[k] = phase[k]
    BY <1>1, <1>2 DEF ExecuteTimesOut, AllSaved, SaveTimesOut
  <2>3. phase[j] # "none"
    BY <1>2 DEF ExecuteTimesOut, AllSaved, SaveTimesOut
  <2> QED
    BY <1>2, <2>1, <2>2, <2>3
    DEF HasOutput, Issued, ExecuteTimesOut, AllSaved, SaveTimesOut
<1>3. CASE SaveOutputs(j)
  BY <1>1, <1>3 DEF SaveOutputs, HasOutput, Issued
<1> QED BY <1>2, <1>3

\* Jobs come to their turn in order, and what a job made is overwritten by later ones.
LEMMA StepExecutions ==
    TypeOK /\ Told /\ InOrder /\ Executions /\ Fetches /\ [Next]_vars => Executions'
<1> SUFFICES ASSUME TypeOK, Told, InOrder, Executions, Fetches, [Next]_vars
             PROVE  Executions'
  OBVIOUS
<1>1. /\ status \in [Jobs -> Statuses] /\ phase \in [Jobs -> Phases]
      /\ local \in [Artifact -> Content] /\ Made \subseteq Artifact
  BY Lists DEF TypeOK, Statuses, Phases, Made
<1>2. /\ Chain(toProxy, CallOrder)
      /\ rpc # None => \A c \in In(toProxy) : <<rpc, c>> \in CallOrder
  BY DEF Executions
<1>3. ASSUME NEW j \in Jobs, Execute(j) PROVE Executions'
  <2>1. /\ status'[j] = "Working" /\ \A k \in Jobs : k # j => status'[k] \in {status[k], "none"}
        /\ phase'[j] = "executing" /\ \A k \in Jobs : k # j => phase'[k] = phase[k]
        /\ toProxy' = Append(toProxy, Job(j)) /\ rpc' = rpc /\ local' = local
        /\ phase[j] = "none"
    BY <1>1, <1>3, SaveStatus DEF Execute, Statuses
  <2>2. Job(j) \in ToProxy /\ Job(j).kind = "job" /\ Job(j).id = j
    BY DEF Job, ToProxy, Origin
  <2>3. \A k \in Issued : k < j
    BY <2>1, BoundAssumption DEF InOrder, Issued
  <2>4. \A d \in Turns : <<d, Job(j)>> \in CallOrder
    <3>1. \A d \in Turns : d \in ToProxy /\ (d.kind = "job" => d.id \in Issued)
      BY Mailboxes DEF Turns, Executions
    <3> QED BY <2>2, <2>3, <3>1 DEF CallOrder
  <2>5. /\ Turns' = Turns \union {Job(j)} /\ Chain(toProxy, CallOrder)'
        /\ rpc' # None => \A d \in In(toProxy)' : <<rpc', d>> \in CallOrder
    BY <1>2, <2>1, <2>2, <2>4, AddTurn
  <2>6. Issued' = Issued \union {j} /\ \A k \in Jobs : HasOutput(k)' => HasOutput(k)
    BY <2>1 DEF Issued, HasOutput
  <2>7. \A k \in Jobs : k >= j => ~HasOutput(k)'
    <3>1. \A k \in Jobs : k >= j => k \notin Issued
      BY <2>3
    <3> QED BY <2>6, <3>1 DEF Issued, HasOutput, Told
  <2>8. \A c \in Turns' : c.kind = "job" =>
           c.id \in Issued' /\ \A k \in Jobs : k >= c.id => ~HasOutput(k)'
    BY <2>2, <2>5, <2>6, <2>7 DEF Executions
  <2>9. \A k \in Jobs : \A a \in Made : NotOlder(k, a) => NotOlder(k, a)'
    BY <2>1, <2>6 DEF NotOlder, Job
  <2> QED BY <2>5, <2>6, <2>8, <2>9 DEF Executions
<1>4. ASSUME NEW j \in Jobs,
             ExecuteTimesOut(j) \/ AllSaved(j) \/ SaveTimesOut(j) \/ SaveOutputs(j)
      PROVE  Executions'
  BY <1>2, <1>4, OutputsStay, SameTurns, ExecutionsStay
<1>5. ASSUME NEW c \in ToProxy, c.kind # "job", toProxy' = Append(toProxy, c),
             UNCHANGED <<status, phase, rpc, local>>
      PROVE  Executions'
  <2>1. /\ Turns' = Turns \union {c} /\ Chain(toProxy, CallOrder)'
        /\ rpc' # None => \A d \in In(toProxy)' : <<rpc', d>> \in CallOrder
    BY <1>2, <1>5, NoJob, AddTurn
  <2> QED BY <1>5, <2>1, ExecutionsStay DEF HasOutput, Issued
<1>6. CASE Restart
  <2>1. /\ \A j \in Jobs : ~HasOutput(j)'
        /\ Issued' = Issued /\ local' = local
    BY <1>6 DEF Restart, HasOutput, Issued
  <2> QED BY <1>6, <2>1, NoTurns, ExecutionsStay
<1>7. CASE Call
  <2>1. UNCHANGED <<status, phase, local>>
    BY <1>7 DEF Call
  <2> QED BY <1>2, <1>7, <2>1, NextTurn, ExecutionsStay DEF HasOutput, Issued
<1>8. CASE Return
  <2>1. UNCHANGED <<status, toProxy, local>> /\ rpc' = None /\ rpc # None
    BY <1>8 DEF Return
  <2>2. CASE rpc.kind = "job" /\ \E j \in Jobs : rpc = Job(j) /\ phase[j] = "executing"
    <3>1. PICK j \in Jobs : rpc = Job(j) /\ phase[j] = "executing"
      BY <2>2
    <3>2. /\ phase'[j] = "executed" /\ \A k \in Jobs : k # j => phase'[k] = phase[k]
          /\ \A a \in Made : local[a] = Job(j)
      BY <1>1, <1>8, <3>1 DEF Return, Answered, EngineDone, Job, Made
    <3>3. Issued' = Issued /\ \A k \in Jobs : k # j => (HasOutput(k)' <=> HasOutput(k))
      BY <2>1, <3>1, <3>2 DEF Issued, HasOutput
    <3>4. \A c \in In(toProxy) : c.kind = "job" => j < c.id
      BY <1>2, <2>1, <3>1 DEF CallOrder, Job
    <3>5. Turns' = In(toProxy) /\ In(toProxy) \subseteq Turns /\ Chain(toProxy, CallOrder)'
      BY <1>2, <2>1, SameTurns DEF Turns
    <3>6. \A c \in Turns' : c.kind = "job" =>
             c.id \in Issued' /\ \A k \in Jobs : k >= c.id => ~HasOutput(k)'
      <4> SUFFICES ASSUME NEW c \in In(toProxy), c.kind = "job"
                   PROVE  c.id \in Issued' /\ \A k \in Jobs : k >= c.id => ~HasOutput(k)'
        BY <3>5
      <4>1. c.id \in Issued /\ \A k \in Jobs : k >= c.id => ~HasOutput(k)
        BY <3>5 DEF Executions
      <4>2. ~(j >= c.id)
        BY <3>4, <4>1, BoundAssumption DEF Issued
      <4> QED BY <3>3, <4>1, <4>2
    <3>7. \A k \in Jobs : \A a \in Made : NotOlder(k, a) => NotOlder(k, a)'
      BY <2>1, <3>3 DEF NotOlder, Job
    <3>8. \A a \in Made : NotOlder(j, a)'
      BY <2>1, <3>2 DEF NotOlder, Job
    <3> QED BY <2>1, <3>3, <3>5, <3>6, <3>7, <3>8 DEF Executions
  <2>3. CASE ~(rpc.kind = "job" /\ \E j \in Jobs : rpc = Job(j) /\ phase[j] = "executing")
    <3>1. phase' = phase
      <4>1. \A j \in Jobs : ~(rpc = Job(j) /\ phase[j] = "executing")
        BY <2>3 DEF Job
      <4> QED BY <1>1, <1>8, <4>1 DEF Return, Answered
    <3> QED BY <1>2, <2>1, <3>1, SameTurns, ExecutionsStay DEF HasOutput, Issued
  <2> QED BY <2>2, <2>3
<1>9. CASE CallFails
  <2>1. UNCHANGED <<status, phase, toProxy, local>> /\ rpc' = None
    BY <1>9 DEF CallFails
  <2> QED BY <1>2, <2>1, SameTurns, ExecutionsStay DEF HasOutput, Issued
<1>10. ASSUME NEW a \in Artifact, EngineWrites(a) PROVE Executions'
  <2>1. /\ rpc # None /\ rpc.kind = "job"
        /\ local' \in {[local EXCEPT ![a] = Torn], [local EXCEPT ![a] = rpc]}
        /\ UNCHANGED <<status, phase, toProxy, rpc>>
    BY <1>10 DEF EngineWrites
  <2>2. PICK k \in Jobs : rpc = Job(k)
    BY <2>1, Mailboxes DEF ToProxy, Origin, Health, Job
  <2>3. k \in Issued /\ \A j \in Jobs : j >= k => ~HasOutput(j)
    BY <2>1, <2>2 DEF Executions, Turns, Job
  <2>4. \A j \in Jobs : HasOutput(j) => j < k
    BY <2>3, BoundAssumption
  <2>5. \A j \in Jobs : HasOutput(j) => \A b \in Made : NotOlder(j, b)'
    <3> SUFFICES ASSUME NEW j \in Jobs, HasOutput(j), NEW b \in Made PROVE NotOlder(j, b)'
      OBVIOUS
    <3>1. NotOlder(j, b)
      BY DEF Executions
    <3>2. Issued' = Issued
      BY <2>1 DEF Issued
    <3>3. CASE b = a
      <4>1. local'[b] \in {Job(k), Torn}
        BY <1>1, <2>1, <2>2, <3>3
      <4>2. k \in Issued' /\ k > j
        BY <2>3, <2>4, <3>2
      <4> QED BY <4>1, <4>2 DEF NotOlder, Job
    <3>4. CASE b # a
      <4>1. local'[b] = local[b]
        BY <1>1, <2>1, <3>4
      <4> QED BY <3>1, <3>2, <4>1 DEF NotOlder, Job
    <3> QED BY <3>3, <3>4
  <2>6. Turns' = Turns /\ In(toProxy)' = In(toProxy) /\ Chain(toProxy, CallOrder)'
    BY <1>2, <2>1, SameTurns
  <2>7. Issued' = Issued /\ \A j \in Jobs : HasOutput(j)' = HasOutput(j)
    BY <2>1 DEF Issued, HasOutput
  <2> QED BY <2>1, <2>5, <2>6, <2>7 DEF Executions
<1>11. CASE CopyToLocal \/ CopyFails
  <2> DEFINE m == Head(toSave)
  <2>1. UNCHANGED <<status, phase, toProxy, rpc>>
    BY <1>11 DEF CopyToLocal, CopyFails
  <2>2. toSave # <<>> /\ m \in In(toSave)
    <3>1. toSave # <<>>
      BY <1>11 DEF CopyToLocal, CopyFails, NextFor
    <3> QED BY <3>1, Mailboxes, InTail
  <2>3. \A a \in Made : local'[a] = local[a]
    <3>1. m.op = "SaveToLocal" => m.artifact \notin Made
      BY <2>2 DEF Fetches, Made
    <3>2. /\ local' # local => m.op = "SaveToLocal"
          /\ \/ local' = local
             \/ local' = [local EXCEPT ![m.artifact] = Reload(m.id)]
             \/ \E v \in {local[m.artifact], NoFile, Torn} :
                   local' = [local EXCEPT ![m.artifact] = v]
      BY <1>11 DEF CopyToLocal, CopyFails, NextFor
    <3> HIDE DEF m
    <3> QED BY <1>1, <3>1, <3>2
  <2> QED BY <1>2, <2>1, <2>3, SameTurns, ExecutionsStay DEF HasOutput, Issued
<1>12. CASE UNCHANGED <<status, phase, toProxy, rpc, local>>
  BY <1>2, <1>12, SameTurns, ExecutionsStay DEF HasOutput, Issued
<1>13. CASE BatchHealthCheck \/ \E r \in Reloads : AllLoaded(r)
  <2>1. PICK c \in {Health} \union {Reload(r) : r \in Reloads} :
           toProxy' = Append(toProxy, c)
    BY <1>13 DEF BatchHealthCheck, AllLoaded
  <2>2. c \in ToProxy /\ c.kind # "job"
    BY <2>1 DEF ToProxy, Origin, Health, Reload
  <2>3. UNCHANGED <<status, phase, rpc, local>>
    BY <1>13 DEF BatchHealthCheck, AllLoaded
  <2> QED BY <1>5, <2>1, <2>2, <2>3
<1> QED
  BY <1>3, <1>4, <1>6, <1>7, <1>8, <1>9, <1>10, <1>11, <1>12, <1>13
  DEF Next, Client, Callback, vars, BatchMetrics, BatchReload, BadReload, LoadTimesOut,
      CopyToRemote, GetArtifact

-----------------------------------------------------------------------------
(* The saver's mailbox, and what is in the store                            *)

\* The message that the saver is at.
LEMMA NextSave ==
    ASSUME TypeOK, Chain(toSave, SaveOrder), toSave # <<>>, toSave' = Tail(toSave)
    PROVE  /\ Head(toSave) \in ToSave
           /\ In(toSave) = {Head(toSave)} \union In(toSave)'
           /\ Chain(toSave, SaveOrder)'
           /\ \A m \in In(toSave)' : <<Head(toSave), m>> \in SaveOrder
<1>1. toSave \in Seq(ToSave)
  BY Mailboxes
<1>2. /\ Head(toSave) \in ToSave
      /\ In(toSave) = {Head(toSave)} \union In(Tail(toSave))
  BY <1>1, InTail
<1>3. /\ Chain(Tail(toSave), SaveOrder)
      /\ \A e \in In(Tail(toSave)) : <<Head(toSave), e>> \in SaveOrder
  BY <1>1, ChainTail
<1>4. In(toSave)' = In(Tail(toSave))
  BY DEF In
<1> QED BY <1>2, <1>3, <1>4 DEF Chain

\* Several messages are sent to the saver.
LEMMA SendToSaver ==
    ASSUME TypeOK, Chain(toSave, SaveOrder), NEW q \in Seq(ToSave), Chain(q, SaveOrder),
           \A m \in In(toSave) : \A n \in In(q) : <<m, n>> \in SaveOrder,
           toSave' = toSave \o q
    PROVE  In(toSave)' = In(toSave) \union In(q) /\ Chain(toSave, SaveOrder)'
<1>1. toSave \in Seq(ToSave)
  BY Mailboxes
<1>2. In(toSave \o q) = In(toSave) \union In(q)
  BY <1>1, AddAll
<1>3. Chain(toSave \o q, SaveOrder)
  BY <1>1, ChainAddAll
<1> QED BY <1>2, <1>3 DEF In, Chain

\* A request for metrics may come when it likes.
LEMMA AskMetrics ==
    ASSUME TypeOK, Chain(toSave, SaveOrder), NEW j \in Jobs, BatchMetrics(j)
    PROVE  In(toSave)' = In(toSave) \union {GetMetrics(j)} /\ Chain(toSave, SaveOrder)'
<1>1. toSave \in Seq(ToSave) /\ In(toSave) \subseteq ToSave
  BY Mailboxes
<1>2. GetMetrics(j) \in ToSave /\ toSave' = Append(toSave, GetMetrics(j))
  BY ArtifactAssumption DEF GetMetrics, ToSave, Outgoing, BatchMetrics
<1>3. In(Append(toSave, GetMetrics(j))) = In(toSave) \union {GetMetrics(j)}
  BY <1>1, <1>2, InAppend
<1>4. \A m \in In(toSave) : <<m, GetMetrics(j)>> \in SaveOrder
  BY <1>1, <1>2 DEF SaveOrder, GetMetrics
<1>5. Chain(Append(toSave, GetMetrics(j)), SaveOrder)
  BY <1>1, <1>2, <1>4, ChainAppend
<1> QED BY <1>2, <1>3, <1>5 DEF In, Chain

\* No message is left in the saver's mailbox after a restart.
LEMMA NoSaves == Restart => In(toSave)' = {} /\ Chain(toSave, SaveOrder)'
<1> SUFFICES ASSUME Restart PROVE In(toSave)' = {} /\ Chain(toSave, SaveOrder)'
  OBVIOUS
<1>1. toSave' = <<>>
  BY DEF Restart
<1>2. DOMAIN toSave' = {}
  BY <1>1, EmptySeq
<1> QED BY <1>1, <1>2 DEF In, Chain

\* The messages of a reload come after those of the reloads before it.
LEMMA LoadsInOrder ==
    ASSUME TypeOK, InOrder, Fetches, NEW r \in Reloads, NEW k \in 0..Len(ArtifactsToLoad),
           loading[r] = "none"
    PROVE  /\ \A s \in Reloads : loading[s] # "none" => s < r
           /\ \A m \in In(toSave) : \A n \in In(Inputs(r, k)) : <<m, n>> \in SaveOrder
<1>1. \A s \in Reloads : loading[s] # "none" => s < r
  BY BoundAssumption DEF InOrder
<1>2. ASSUME NEW m \in In(toSave), NEW n \in In(Inputs(r, k))
      PROVE  <<m, n>> \in SaveOrder
  <2>1. n.op = "SaveToLocal" /\ n.id = r /\ n \in ToSave
    BY InputsOf
  <2>2. m \in ToSave /\ (m.op = "SaveToLocal" => m.id \in Reloads)
    BY Mailboxes DEF ToSave, Outgoing, Incoming
  <2>3. m.op = "SaveToLocal" => m.id < r
    BY <1>1, <2>2 DEF Fetches
  <2> QED BY <2>1, <2>2, <2>3 DEF SaveOrder
<1> QED BY <1>1, <1>2

\* Steps in which no copy is asked for or made.
LEMMA CopiesStay ==
    ASSUME Copies, Chain(toSave, SaveOrder)',
           \A m \in In(toSave)' : m.op = "SaveToRemote" => m \in In(toSave),
           \A j \in Jobs : phase[j] \in {"saving", "over"} => phase'[j] \in {"saving", "over"},
           \A j \in Jobs : \A a \in Artifact : Copied(j, a)' => Copied(j, a),
           remote' = remote, overtaken \subseteq overtaken',
           \A m \in In(toSave)' : m.op = "SaveToRemote" => m.id \in Jobs /\ m.artifact \in Artifact
    PROVE  Copies'
<1>1. \A m \in In(toSave)' : m.op = "SaveToRemote" =>
         phase'[m.id] \in {"saving", "over"} /\ ~Copied(m.id, m.artifact)'
  BY DEF Copies
<1>2. \A j \in Jobs : \A a \in Made : Own(j, a) => Own(j, a)'
  BY DEF Own, Job
<1>3. Made \subseteq Artifact
  BY Lists DEF Made
<1> QED BY <1>1, <1>2, <1>3 DEF Copies

\* The messages for the store name a job and an artifact.
LEMMA OutgoingOf ==
    ASSUME TypeOK
    PROVE  /\ \A m \in In(toSave) : m.op = "SaveToRemote" => m.id \in Jobs /\ m.artifact \in Artifact
           /\ \A m \in In(toSave) : m.op = "SaveToLocal" => m.id \in Reloads /\ m.artifact \in Artifact
<1>1. In(toSave) \subseteq ToSave
  BY Mailboxes
<1> QED BY <1>1 DEF ToSave, Outgoing, Incoming

\* What a Finished job has in the store is its own, or a later job's that overtook it.
LEMMA StepCopies ==
    /\ TypeOK /\ Told /\ InOrder /\ Executions /\ Copies /\ Fetches /\ TypeOK'
    /\ [Next]_vars
    => Copies'
<1> SUFFICES ASSUME TypeOK, Told, InOrder, Executions, Copies, Fetches, TypeOK', [Next]_vars
             PROVE  Copies'
  OBVIOUS
<1>1. /\ status \in [Jobs -> Statuses] /\ phase \in [Jobs -> Phases]
      /\ pending \in [Jobs -> SUBSET Asks(ArtifactsToPersist)]
      /\ local \in [Artifact -> Content] /\ remote \in [Jobs -> [Artifact -> Content]]
      /\ Made \subseteq Artifact
  BY Lists DEF TypeOK, Statuses, Phases, Made
<1>2. Chain(toSave, SaveOrder)
  BY DEF Copies
<1>3. /\ \A m \in In(toSave) : m.op = "SaveToRemote" => m.id \in Jobs /\ m.artifact \in Artifact
      /\ \A m \in In(toSave)' : m.op = "SaveToRemote" => m.id \in Jobs /\ m.artifact \in Artifact
  <2>1. In(toSave)' \subseteq ToSave
    <3>1. toSave' \in Seq(ToSave)
      BY DEF TypeOK, ToSave, Outgoing, Incoming
    <3>2. In(toSave') \subseteq ToSave
      BY <3>1, InType
    <3> QED BY <3>2 DEF In
  <2> QED BY <2>1, OutgoingOf DEF ToSave, Outgoing, Incoming
<1>4. toSave' = toSave => In(toSave)' = In(toSave) /\ Chain(toSave, SaveOrder)'
  BY <1>2 DEF In, Chain
<1>5. ASSUME NEW j \in Jobs,
             Execute(j) \/ ExecuteTimesOut(j) \/ AllSaved(j) \/ SaveTimesOut(j)
      PROVE  Copies'
  <2>1. /\ \/ status'[j] \in {"Working", "Failed"}
           \/ status'[j] = "Finished" /\ phase[j] = "saving" /\ pending[j] = {}
        /\ \A k \in Jobs : k # j => status'[k] \in {status[k], "none"}
    BY <1>1, <1>5, SaveStatus DEF Execute, ExecuteTimesOut, AllSaved, SaveTimesOut, Statuses
  <2>2. /\ \/ phase'[j] = "over"
           \/ phase[j] = "none" /\ phase'[j] = "executing"
        /\ \A k \in Jobs : k # j => phase'[k] = phase[k]
    BY <1>1, <1>5 DEF Execute, ExecuteTimesOut, AllSaved, SaveTimesOut
  <2>3. UNCHANGED <<toSave, pending, remote>> /\ overtaken \subseteq overtaken'
    BY <1>5 DEF Execute, ExecuteTimesOut, AllSaved, SaveTimesOut
  <2>4. \A k \in Jobs : \A a \in Artifact : Copied(k, a)' => Copied(k, a)
    BY <2>1, <2>2, <2>3 DEF Copied
  <2>5. \A k \in Jobs : phase[k] \in {"saving", "over"} => phase'[k] \in {"saving", "over"}
    BY <2>2
  <2> QED BY <1>3, <1>4, <2>3, <2>4, <2>5, CopiesStay
<1>6. ASSUME NEW j \in Jobs, SaveOutputs(j) PROVE Copies'
  <2>1. /\ toSave' = toSave \o Outputs(j)
        /\ phase[j] = "executed" /\ phase'[j] = "saving"
        /\ \A k \in Jobs : k # j => phase'[k] = phase[k] /\ pending'[k] = pending[k]
        /\ pending'[j] = Asks(ArtifactsToPersist)
        /\ UNCHANGED <<status, remote, overtaken>>
    BY <1>1, <1>6 DEF SaveOutputs, Outputs
  <2>2. /\ Outputs(j) \in Seq(ToSave) /\ Chain(Outputs(j), SaveOrder)
        /\ In(Outputs(j)) = {SaveToRemote(a, j) : a \in Asks(ArtifactsToPersist)}
    BY OutputsOf
  <2>3. \A m \in In(toSave) : \A n \in In(Outputs(j)) : <<m, n>> \in SaveOrder
    <3> SUFFICES ASSUME NEW m \in In(toSave), NEW a \in Asks(ArtifactsToPersist)
                 PROVE  <<m, SaveToRemote(a, j)>> \in SaveOrder
      BY <2>2
    <3>1. m \in ToSave /\ SaveToRemote(a, j) \in ToSave
      BY <2>2, Mailboxes, Lists DEF SaveToRemote, ToSave, Outgoing
    <3>2. m.op = "SaveToRemote" => m.id # j
      BY <2>1 DEF Copies
    <3> QED BY <3>1, <3>2 DEF SaveOrder, SaveToRemote
  <2>4. In(toSave)' = In(toSave) \union In(Outputs(j)) /\ Chain(toSave, SaveOrder)'
    BY <1>2, <2>1, <2>2, <2>3, SendToSaver
  <2>5. status[j] \in {"none", "Working"}
    BY <2>1 DEF Told
  <2>6. \A k \in Jobs : k # j => \A a \in Artifact : Copied(k, a)' <=> Copied(k, a)
    BY <2>1 DEF Copied
  <2>7. \A a \in Asks(ArtifactsToPersist) : ~Copied(j, a)'
    BY <2>1, <2>5 DEF Copied
  <2>8. ASSUME NEW m \in In(toSave)', m.op = "SaveToRemote"
        PROVE  phase'[m.id] \in {"saving", "over"} /\ ~Copied(m.id, m.artifact)'
    <3>1. CASE m \in In(toSave)
      <4>1. phase[m.id] \in {"saving", "over"} /\ ~Copied(m.id, m.artifact)
        BY <2>8, <3>1 DEF Copies
      <4>2. m.id \in Jobs /\ m.id # j /\ m.artifact \in Artifact
        BY <1>3, <2>1, <2>8, <3>1, <4>1
      <4> QED BY <2>1, <2>6, <4>1, <4>2
    <3>2. CASE m \in In(Outputs(j))
      BY <2>1, <2>2, <2>7, <3>2 DEF SaveToRemote
    <3> QED BY <2>4, <2>8, <3>1, <3>2
  <2>9. \A k \in Jobs : \A a \in Made : Copied(k, a)' => Own(k, a)'
    <3>1. \A k \in Jobs : \A a \in Made : Own(k, a) => Own(k, a)'
      BY <2>1 DEF Own, Job
    <3> QED BY <1>1, <2>6, <2>7, <3>1 DEF Copies, Made
  <2> QED BY <2>4, <2>8, <2>9 DEF Copies
<1>7. ASSUME NEW r \in Reloads, NEW k \in 0..Len(ArtifactsToLoad),
             toSave' = toSave \o Inputs(r, k), loading[r] = "none",
             \A s \in 1..(r - 1) : loading[s] # "none",
             UNCHANGED <<status, phase, pending, remote, overtaken>>
      PROVE  Copies'
  <2>1. In(toSave)' = In(toSave) \union In(Inputs(r, k)) /\ Chain(toSave, SaveOrder)'
    BY <1>2, <1>7, LoadsInOrder, InputsOf, SendToSaver
  <2>2. \A m \in In(toSave)' : m.op = "SaveToRemote" => m \in In(toSave)
    BY <2>1, InputsOf
  <2> QED BY <1>3, <1>7, <2>1, <2>2, CopiesStay DEF Copied
<1>8. ASSUME NEW j \in Jobs, BatchMetrics(j) PROVE Copies'
  <2>1. In(toSave)' = In(toSave) \union {GetMetrics(j)} /\ Chain(toSave, SaveOrder)'
    BY <1>2, <1>8, AskMetrics
  <2>2. UNCHANGED <<status, phase, pending, remote, overtaken>>
    BY <1>8 DEF BatchMetrics
  <2> QED BY <1>3, <2>1, <2>2, CopiesStay DEF Copied, GetMetrics
<1>9. CASE Restart
  <2>1. \A j \in Jobs : /\ \A a \in Artifact : ~Copied(j, a)'
                        /\ phase[j] \in {"saving", "over"} => phase'[j] \in {"saving", "over"}
    BY <1>9 DEF Restart, Copied, Issued
  <2>2. UNCHANGED <<remote, overtaken>>
    BY <1>9 DEF Restart
  <2> QED BY <1>3, <1>9, <2>1, <2>2, NoSaves, CopiesStay
<1>10. CASE Return
  <2>1. UNCHANGED <<status, pending, remote, overtaken, toSave>>
    BY <1>10 DEF Return
  <2>2. \A j \in Jobs : \/ phase'[j] = phase[j]
                        \/ phase[j] = "executing" /\ phase'[j] = "executed"
    BY <1>1, <1>10 DEF Return, Answered
  <2>3. \A j \in Jobs : \A a \in Artifact : Copied(j, a)' => Copied(j, a)
    BY <2>1, <2>2 DEF Copied
  <2>4. \A j \in Jobs : phase[j] \in {"saving", "over"} => phase'[j] \in {"saving", "over"}
    BY <2>2
  <2> QED BY <1>3, <1>4, <2>1, <2>3, <2>4, CopiesStay
<1>11. CASE UNCHANGED <<status, phase, pending, remote, overtaken, toSave>>
  BY <1>3, <1>4, <1>11, CopiesStay DEF Copied
<1>12. CASE CopyToRemote \/ CopyToLocal \/ GetArtifact \/ CopyFails
  <2> DEFINE m == Head(toSave)
  <2>1. toSave # <<>> /\ toSave' = Tail(toSave) /\ UNCHANGED <<status, phase, overtaken>>
    BY <1>12 DEF CopyToRemote, CopyToLocal, GetArtifact, CopyFails, NextFor
  <2>2. /\ m \in ToSave /\ In(toSave) = {m} \union In(toSave)'
        /\ Chain(toSave, SaveOrder)'
        /\ \A n \in In(toSave)' : <<m, n>> \in SaveOrder
    BY <1>2, <2>1, NextSave
  <2>3. m \in In(toSave) /\ \A n \in In(toSave)' : n \in In(toSave)
    BY <2>2
  <2>4. CASE m.op # "SaveToRemote"
    <3>1. UNCHANGED <<pending, remote>>
      BY <1>12, <2>4 DEF CopyToRemote, CopyToLocal, GetArtifact, CopyFails, NextFor
    <3> QED BY <1>3, <2>1, <2>2, <2>3, <3>1, CopiesStay DEF Copied
  <2>5. CASE m.op = "SaveToRemote"
    <3>1. PICK i \in Jobs, a \in Artifact :
             /\ m.id = i /\ m.artifact = a
             /\ phase[i] \in {"saving", "over"} /\ ~Copied(i, a)
      BY <1>3, <2>3, <2>5 DEF Copies
    <3>2. \A n \in In(toSave)' : n.op = "SaveToRemote" => n.id # i \/ n.artifact # a
      <4> SUFFICES ASSUME NEW n \in In(toSave)', n.op = "SaveToRemote", n.id = i, n.artifact = a
                   PROVE  FALSE
        OBVIOUS
      <4>1. n \in ToSave /\ n # m
        BY <2>2, <2>5 DEF SaveOrder
      <4>2. m \in Outgoing /\ n \in Outgoing
        BY <2>2, <2>5, <4>1 DEF ToSave, Incoming
      <4> QED BY <2>5, <3>1, <4>1, <4>2 DEF Outgoing
    <3>3. CASE CopyToRemote
      <4>1. /\ pending' = [pending EXCEPT ![i] = @ \ {a}]
            /\ remote' = IF local[a] # NoFile THEN [remote EXCEPT ![i][a] = local[a]] ELSE remote
        BY <3>1, <3>3 DEF CopyToRemote
      <4> HIDE DEF m
      <4>2. /\ \A j \in Jobs : \A b \in Artifact :
                  (j # i \/ b # a) => remote'[j][b] = remote[j][b]
            /\ local[a] # NoFile => remote'[i][a] = local[a]
        BY <1>1, <3>1, <4>1, SetFile
      <4>3. \A j \in Jobs : \A b \in Artifact :
               (j # i \/ b # a) => (Copied(j, b)' <=> Copied(j, b))
        BY <1>1, <2>1, <3>1, <4>1 DEF Copied
      <4>4. \A j \in Jobs : \A b \in Made : (j # i \/ b # a) => (Own(j, b) => Own(j, b)')
        BY <1>1, <2>1, <4>2 DEF Own, Job
      <4>5. ASSUME a \in Made, Copied(i, a)' PROVE Own(i, a)'
        <5>1. phase[i] = "saving"
          BY <2>1, <3>1, <4>5 DEF Copied
        <5>2. NotOlder(i, a)
          BY <3>1, <4>5, <5>1 DEF Executions, HasOutput
        <5>3. CASE local[a] = Job(i)
          <6>1. local[a] # NoFile
            BY <3>1, <5>3, ContentAssumption DEF Job, Origin
          <6> QED BY <4>2, <5>3, <6>1 DEF Own, Job
        <5>4. ASSUME NEW k \in Issued, k > i, local[a] \in {Job(k), Torn}
              PROVE  Own(i, a)'
          <6>1. local[a] # NoFile
            BY <5>4, ContentAssumption DEF Job, Origin, Issued
          <6>2. i \in overtaken
            <7>1. i \in UnderWay /\ i \in 1..(k - 1)
              BY <3>1, <5>1, <5>4, BoundAssumption DEF UnderWay, Issued
            <7> QED BY <7>1 DEF InOrder
          <6>3. k \in (i + 1)..MaxJobs
            BY <3>1, <5>4, BoundAssumption DEF Issued
          <6> QED BY <2>1, <4>2, <5>4, <6>1, <6>2, <6>3 DEF Own, Job
        <5> QED BY <5>2, <5>3, <5>4 DEF NotOlder
      <4>6. \A n \in In(toSave)' : n.op = "SaveToRemote" =>
               phase'[n.id] \in {"saving", "over"} /\ ~Copied(n.id, n.artifact)'
        BY <1>3, <2>1, <2>3, <3>2, <4>3 DEF Copies
      <4>7. \A j \in Jobs : \A b \in Made : Copied(j, b)' => Own(j, b)'
        BY <1>1, <4>3, <4>4, <4>5 DEF Copies
      <4> QED BY <2>2, <4>6, <4>7 DEF Copies
    <3>4. CASE CopyFails
      <4>1. /\ pending' = pending
            /\ \E v \in Content : remote' = [remote EXCEPT ![i][a] = v]
        <5>1. remote[i][a] \in Content /\ NoFile \in Content /\ Torn \in Content
          BY <3>1 DEF TypeOK, Content
        <5> QED BY <2>5, <3>1, <3>4, <5>1 DEF CopyFails
      <4> HIDE DEF m
      <4>2. \A j \in Jobs : \A b \in Artifact :
               (j # i \/ b # a) => remote'[j][b] = remote[j][b]
        BY <1>1, <3>1, <4>1, SetFile
      <4>3. \A j \in Jobs : \A b \in Artifact : Copied(j, b)' <=> Copied(j, b)
        BY <2>1, <4>1 DEF Copied
      <4>4. \A j \in Jobs : \A b \in Made : (j # i \/ b # a) => (Own(j, b) => Own(j, b)')
        BY <1>1, <2>1, <4>2 DEF Own, Job
      <4>5. \A n \in In(toSave)' : n.op = "SaveToRemote" =>
               phase'[n.id] \in {"saving", "over"} /\ ~Copied(n.id, n.artifact)'
        BY <1>3, <2>1, <2>3, <4>3 DEF Copies
      <4>6. \A j \in Jobs : \A b \in Made : Copied(j, b)' => Own(j, b)'
        BY <1>1, <3>1, <4>3, <4>4 DEF Copies
      <4> QED BY <2>2, <4>5, <4>6 DEF Copies
    <3>5. CopyToRemote \/ CopyFails
      BY <1>12, <2>5 DEF CopyToLocal, GetArtifact, NextFor
    <3> QED BY <3>3, <3>4, <3>5
  <2> QED BY <2>4, <2>5
<1>13. ASSUME NEW r \in Reloads, BatchReload(r) PROVE Copies'
  BY <1>7, <1>13, Lists DEF BatchReload, AskFor, Inputs
<1>14. ASSUME NEW r \in Reloads, NEW k \in 0..Len(ArtifactsToLoad), BadReload(r, k)
       PROVE  Copies'
  BY <1>7, <1>14 DEF BadReload, AskFor, Inputs
<1> QED
  BY <1>5, <1>6, <1>8, <1>9, <1>10, <1>11, <1>12, <1>13, <1>14
  DEF Next, Client, Callback, vars, BatchHealthCheck, AllLoaded, LoadTimesOut, Call,
      CallFails, EngineWrites

-----------------------------------------------------------------------------
(* Reloads and what the engine reads                                        *)

LEMMA MoreTurns ==
    ASSUME TypeOK, NEW c \in ToProxy, toProxy' = Append(toProxy, c), rpc' = rpc
    PROVE  Turns' = Turns \union {c}
<1>1. In(Append(toProxy, c)) = In(toProxy) \union {c}
  BY Mailboxes, InAppend
<1> QED BY <1>1 DEF Turns, In

LEMMA MoreSaves ==
    ASSUME TypeOK, NEW q \in Seq(ToSave), toSave' = toSave \o q
    PROVE  In(toSave)' = In(toSave) \union In(q)
<1>1. In(toSave \o q) = In(toSave) \union In(q)
  BY Mailboxes, AddAll
<1> QED BY <1>1 DEF In

\* Steps in which no artifact is asked for or fetched.
LEMMA FetchesStay ==
    ASSUME Fetches,
           \A m \in In(toSave)' : m.op = "SaveToLocal" =>
               m \in In(toSave) /\ m.id \in Reloads /\ m.artifact \in Artifact,
           \A r \in Reloads : loading[r] # "none" => loading'[r] # "none",
           \A r \in Reloads : \A a \in Artifact : Fetched(r, a)' => Fetched(r, a),
           \A a \in Loaded : local'[a] = local[a],
           \A c \in Turns' : c.kind = "reload" => loading'[c.id] = "over"
    PROVE  Fetches'
<1>1. \A r \in Reloads : \A a \in Loaded : NotOlderFile(r, a) => NotOlderFile(r, a)'
  BY DEF NotOlderFile, Reload
<1>2. Loaded \subseteq Artifact
  BY Lists DEF Loaded
<1>3. \A m \in In(toSave)' : m.op = "SaveToLocal" =>
         /\ m.artifact \in Asks(ArtifactsToLoad) /\ loading'[m.id] # "none"
         /\ \A r \in Reloads : Fetched(r, m.artifact)' => r < m.id
  BY DEF Fetches
<1>4. \A r \in Reloads : \A a \in Loaded :
         Fetched(r, a)' /\ <<a, r>> \in Stored => NotOlderFile(r, a)'
  BY <1>1, <1>2 DEF Fetches
<1> QED BY <1>3, <1>4 DEF Fetches

\* What a reload has fetched is on the disk until a later one fetches it.
LEMMA StepFetches ==
    TypeOK /\ InOrder /\ Executions /\ Copies /\ Fetches /\ TypeOK' /\ [Next]_vars
        => Fetches'
<1> SUFFICES ASSUME TypeOK, InOrder, Executions, Copies, Fetches, TypeOK', [Next]_vars
             PROVE  Fetches'
  OBVIOUS
<1>1. /\ loading \in [Reloads -> {"none", "saving", "over"}]
      /\ awaiting \in [Reloads -> SUBSET Asks(ArtifactsToLoad)]
      /\ local \in [Artifact -> Content] /\ Loaded \subseteq Artifact
  BY Lists DEF TypeOK, Loaded
<1>2. /\ \A m \in In(toSave) : m.op = "SaveToLocal" => m.id \in Reloads /\ m.artifact \in Artifact
      /\ \A m \in In(toSave)' : m.op = "SaveToLocal" => m.id \in Reloads /\ m.artifact \in Artifact
  <2>1. In(toSave)' \subseteq ToSave
    <3>1. toSave' \in Seq(ToSave)
      BY DEF TypeOK, ToSave, Outgoing, Incoming
    <3>2. In(toSave') \subseteq ToSave
      BY <3>1, InType
    <3> QED BY <3>2 DEF In
  <2> QED BY <2>1, OutgoingOf DEF ToSave, Outgoing, Incoming
<1>3. Chain(toProxy, CallOrder) /\ Chain(toSave, SaveOrder)
  BY DEF Executions, Copies
<1>4. toSave' = toSave => In(toSave)' = In(toSave)
  BY DEF In
<1>5. \A c \in Turns : c.kind = "reload" => c.id \in Reloads /\ c = Reload(c.id)
  <2>1. Turns \subseteq ToProxy
    BY Mailboxes DEF Turns
  <2> QED BY <2>1 DEF ToProxy, Origin, Health, Reload
<1>6. ASSUME \A c \in Turns' : c.kind = "reload" => c \in Turns,
             \A m \in In(toSave)' : m.op = "SaveToLocal" => m \in In(toSave),
             UNCHANGED <<loading, awaiting>>, \A a \in Loaded : local'[a] = local[a]
      PROVE  Fetches'
  <2>1. \A r \in Reloads : Reload(r) \in Turns' => Reload(r) \in Turns
    BY <1>6 DEF Reload
  <2>2. \A r \in Reloads : \A a \in Artifact : Fetched(r, a)' => Fetched(r, a)
    BY <1>6, <2>1 DEF Fetched, Reload
  <2>3. \A c \in Turns' : c.kind = "reload" => loading'[c.id] = "over"
    BY <1>6 DEF Fetches
  <2> QED BY <1>2, <1>6, <2>2, <2>3, FetchesStay
<1>7. ASSUME NEW j \in Jobs, Execute(j) PROVE Fetches'
  <2>1. /\ toProxy' = Append(toProxy, Job(j)) /\ rpc' = rpc
        /\ UNCHANGED <<loading, awaiting, local, toSave>>
    BY <1>7 DEF Execute
  <2>2. Job(j) \in ToProxy /\ Job(j).kind = "job"
    BY DEF Job, ToProxy, Origin
  <2> QED BY <1>4, <1>6, <2>1, <2>2, MoreTurns
<1>8. CASE BatchHealthCheck
  <2>1. /\ toProxy' = Append(toProxy, Health) /\ rpc' = rpc
        /\ UNCHANGED <<loading, awaiting, local, toSave>>
    BY <1>8 DEF BatchHealthCheck
  <2>2. Health \in ToProxy /\ Health.kind = "health"
    BY DEF Health, ToProxy
  <2> QED BY <1>4, <1>6, <2>1, <2>2, MoreTurns
<1>9. ASSUME NEW j \in Jobs, SaveOutputs(j) PROVE Fetches'
  <2>1. /\ toSave' = toSave \o Outputs(j)
        /\ UNCHANGED <<loading, awaiting, local, toProxy, rpc>>
    BY <1>9 DEF SaveOutputs, Outputs
  <2>2. \A m \in In(toSave)' : m.op = "SaveToLocal" => m \in In(toSave)
    BY <2>1, OutputsOf, MoreSaves DEF SaveToRemote
  <2> QED BY <1>6, <2>1, <2>2, SameTurns
<1>10. ASSUME NEW j \in Jobs, BatchMetrics(j) PROVE Fetches'
  <2>1. In(toSave)' = In(toSave) \union {GetMetrics(j)}
    BY <1>3, <1>10, AskMetrics
  <2>2. UNCHANGED <<loading, awaiting, local, toProxy, rpc>>
    BY <1>10 DEF BatchMetrics
  <2> QED BY <1>6, <2>1, <2>2, SameTurns DEF GetMetrics
<1>11. ASSUME NEW r \in Reloads, NEW k \in 0..Len(ArtifactsToLoad),
              (BatchReload(r) /\ k = Len(ArtifactsToLoad)) \/ BadReload(r, k)
       PROVE  Fetches'
  <2>1. /\ toSave' = toSave \o Inputs(r, k) /\ loading[r] = "none"
        /\ \A s \in Reloads : s # r => loading'[s] = loading[s] /\ awaiting'[s] = awaiting[s]
        /\ \/ loading'[r] = "saving" /\ awaiting'[r] = Asks(ArtifactsToLoad)
           \/ loading'[r] = "over"
        /\ UNCHANGED <<local, toProxy, rpc>>
    BY <1>1, <1>11 DEF BatchReload, BadReload, AskFor, Inputs
  <2>2. /\ In(toSave)' = In(toSave) \union In(Inputs(r, k))
        /\ \A m \in In(Inputs(r, k)) :
              m.id = r /\ m.artifact \in Asks(ArtifactsToLoad)
    BY <2>1, InputsOf, MoreSaves
  <2>3. Turns' = Turns /\ Reload(r) \notin Turns
    BY <2>1, SameTurns DEF Fetches, Reload
  <2>4. \A s \in Reloads : \A a \in Artifact :
           s # r => (Fetched(s, a)' <=> Fetched(s, a))
    BY <2>1, <2>3 DEF Fetched, Reload
  <2>5. \A a \in Asks(ArtifactsToLoad) : ~Fetched(r, a)'
    BY <2>1, <2>3 DEF Fetched, Reload
  <2>6. \A s \in Reloads : \A a \in Artifact : Fetched(s, a) => loading[s] # "none"
    BY DEF Fetched, Fetches, Reload
  <2>7. \A s \in Reloads : loading[s] # "none" => s < r
    BY <2>1, LoadsInOrder
  <2>8. ASSUME NEW m \in In(toSave)', m.op = "SaveToLocal"
        PROVE  /\ m.artifact \in Asks(ArtifactsToLoad) /\ loading'[m.id] # "none"
               /\ \A s \in Reloads : Fetched(s, m.artifact)' => s < m.id
    <3>1. CASE m \in In(toSave)
      <4>1. /\ m.artifact \in Asks(ArtifactsToLoad) /\ loading[m.id] # "none"
            /\ \A s \in Reloads : Fetched(s, m.artifact) => s < m.id
            /\ m.id \in Reloads /\ m.artifact \in Artifact
        BY <1>2, <2>8, <3>1 DEF Fetches
      <4>2. m.id # r
        BY <2>1, <4>1
      <4> QED BY <2>1, <2>4, <2>5, <4>1, <4>2
    <3>2. CASE m \in In(Inputs(r, k))
      <4>1. m.artifact \in Asks(ArtifactsToLoad) /\ m.id = r /\ m.artifact \in Artifact
        BY <2>2, <3>2, Lists
      <4> QED BY <2>1, <2>4, <2>5, <2>6, <2>7, <4>1
    <3> QED BY <2>2, <3>1, <3>2
  <2>9. \A s \in Reloads : \A a \in Loaded :
           Fetched(s, a)' /\ <<a, s>> \in Stored => NotOlderFile(s, a)'
    <3>1. \A s \in Reloads : \A a \in Loaded : NotOlderFile(s, a) => NotOlderFile(s, a)'
      BY <2>1 DEF NotOlderFile, Reload
    <3> QED BY <1>1, <2>4, <2>5, <3>1 DEF Fetches, Loaded
  <2>10. \A c \in Turns' : c.kind = "reload" => loading'[c.id] = "over"
    BY <1>5, <2>1, <2>3 DEF Fetches
  <2> QED BY <2>8, <2>9, <2>10 DEF Fetches
<1>12. ASSUME NEW r \in Reloads, AllLoaded(r) PROVE Fetches'
  <2>1. /\ loading[r] = "saving" /\ awaiting[r] = {} /\ loading'[r] = "over"
        /\ \A s \in Reloads : s # r => loading'[s] = loading[s]
        /\ toProxy' = Append(toProxy, Reload(r)) /\ rpc' = rpc
        /\ UNCHANGED <<awaiting, toSave, local>>
    BY <1>1, <1>12 DEF AllLoaded
  <2>2. Reload(r) \in ToProxy /\ Reload(r).id = r
    BY DEF Reload, ToProxy, Origin
  <2>3. Turns' = Turns \union {Reload(r)}
    BY <2>1, <2>2, MoreTurns
  <2>4. \A s \in Reloads : \A a \in Artifact : Fetched(s, a)' => Fetched(s, a)
    BY <2>1, <2>3 DEF Fetched, Reload
  <2>5. \A c \in Turns' : c.kind = "reload" => loading'[c.id] = "over"
    BY <1>5, <2>1, <2>2, <2>3 DEF Fetches
  <2>6. \A s \in Reloads : loading[s] # "none" => loading'[s] # "none"
    BY <2>1
  <2> QED BY <1>2, <1>4, <2>1, <2>4, <2>5, <2>6, FetchesStay
<1>13. CASE Restart \/ \E r \in Reloads : LoadTimesOut(r)
  <2>1. /\ \A s \in Reloads : \/ loading'[s] = loading[s]
                              \/ loading[s] # "none" /\ loading'[s] = "over"
        /\ UNCHANGED <<awaiting, local>>
    BY <1>1, <1>13 DEF Restart, LoadTimesOut
  <2>2. Turns' \subseteq Turns
    <3>1. CASE Restart
      BY <3>1, NoTurns
    <3>2. CASE \E r \in Reloads : LoadTimesOut(r)
      BY <3>2, SameTurns DEF LoadTimesOut
    <3> QED BY <1>13, <3>1, <3>2
  <2>3. In(toSave)' \subseteq In(toSave)
    <3>1. CASE Restart
      BY <3>1, NoSaves
    <3>2. CASE \E r \in Reloads : LoadTimesOut(r)
      BY <1>4, <3>2 DEF LoadTimesOut
    <3> QED BY <1>13, <3>1, <3>2
  <2>4. \A s \in Reloads : \A a \in Artifact : Fetched(s, a)' => Fetched(s, a)
    BY <2>1, <2>2 DEF Fetched, Reload
  <2>5. \A c \in Turns' : c.kind = "reload" => loading'[c.id] = "over"
    BY <1>5, <2>1, <2>2 DEF Fetches
  <2>6. \A s \in Reloads : loading[s] # "none" => loading'[s] # "none"
    BY <2>1
  <2> QED BY <1>2, <2>1, <2>3, <2>4, <2>5, <2>6, FetchesStay
<1>14. CASE Call
  <2>1. UNCHANGED <<loading, awaiting, local, toSave>>
    BY <1>14 DEF Call
  <2> QED BY <1>3, <1>4, <1>6, <1>14, <2>1, NextTurn
<1>15. CASE Return \/ CallFails
  <2>1. UNCHANGED <<loading, awaiting, local, toSave, toProxy>> /\ rpc' = None
    BY <1>15 DEF Return, CallFails
  <2> QED BY <1>4, <1>6, <2>1, SameTurns
<1>16. ASSUME NEW a \in Artifact, EngineWrites(a) PROVE Fetches'
  <2>1. /\ UNCHANGED <<loading, awaiting, toSave, toProxy, rpc>>
        /\ a \notin Loaded
        /\ local' \in {[local EXCEPT ![a] = Torn], [local EXCEPT ![a] = rpc]}
    BY <1>16 DEF EngineWrites, Loaded
  <2>2. \A b \in Loaded : local'[b] = local[b]
    BY <1>1, <2>1
  <2> QED BY <1>4, <1>6, <2>1, <2>2, SameTurns
<1>17. CASE CopyToRemote \/ CopyToLocal \/ GetArtifact \/ CopyFails
  <2> DEFINE m == Head(toSave)
  <2>1. toSave # <<>> /\ toSave' = Tail(toSave) /\ UNCHANGED <<loading, toProxy, rpc>>
    BY <1>17 DEF CopyToRemote, CopyToLocal, GetArtifact, CopyFails, NextFor
  <2>2. /\ m \in ToSave /\ In(toSave) = {m} \union In(toSave)'
        /\ \A n \in In(toSave)' : <<m, n>> \in SaveOrder
    BY <1>3, <2>1, NextSave
  <2>3. m \in In(toSave) /\ (\A n \in In(toSave)' : n \in In(toSave)) /\ Turns' = Turns
    BY <2>1, <2>2, SameTurns
  <2>4. CASE m.op # "SaveToLocal"
    <3>1. UNCHANGED <<awaiting, local>>
      BY <1>17, <2>4 DEF CopyToRemote, CopyToLocal, GetArtifact, CopyFails, NextFor
    <3> QED BY <1>6, <2>1, <2>3, <3>1
  <2>5. CASE m.op = "SaveToLocal"
    <3>1. PICK r \in Reloads, a \in Artifact :
             /\ m.id = r /\ m.artifact = a /\ loading[r] # "none"
             /\ \A s \in Reloads : Fetched(s, a) => s < r
      BY <1>2, <2>3, <2>5 DEF Fetches
    <3>2. \A n \in In(toSave)' : n.op = "SaveToLocal" /\ n.artifact = a => r < n.id
      BY <2>2, <2>5, <3>1 DEF SaveOrder
    <3>3. /\ \A s \in Reloads : \A b \in Artifact :
                 s # r \/ b # a => (Fetched(s, b)' <=> Fetched(s, b))
          /\ \A b \in Artifact : b # a => local'[b] = local[b]
          /\ CopyToLocal => local'[a] = IF <<a, r>> \in Stored THEN Reload(r) ELSE local[a]
          /\ CopyFails => local'[a] \in {local[a], NoFile, Torn} /\ (Fetched(r, a)' <=> Fetched(r, a))
      <4>1. CASE CopyToLocal
        <5>1. /\ awaiting' = [awaiting EXCEPT ![r] = @ \ {a}]
              /\ local' = IF <<a, r>> \in Stored THEN [local EXCEPT ![a] = Reload(r)] ELSE local
          BY <3>1, <4>1 DEF CopyToLocal
        <5>3. \A s \in Reloads : \A b \in Artifact :
                 s # r \/ b # a => (Fetched(s, b)' <=> Fetched(s, b))
          BY <1>1, <2>1, <2>3, <3>1, <5>1 DEF Fetched, Reload
        <5>4. \A b \in Artifact : b # a => local'[b] = local[b]
          BY <1>1, <3>1, <5>1
        <5>5. CopyFails => local'[a] \in {local[a], NoFile, Torn} /\ (Fetched(r, a)' <=> Fetched(r, a))
          <6> SUFFICES ASSUME CopyFails
                       PROVE  local'[a] \in {local[a], NoFile, Torn} /\ (Fetched(r, a)' <=> Fetched(r, a))
            OBVIOUS
          <6>1. local'[a] \in {local[a], NoFile, Torn}
            BY <1>1, <2>5, <3>1 DEF CopyFails
          <6>2. UNCHANGED <<awaiting, loading>>
            BY DEF CopyFails
          <6> QED BY <2>3, <6>1, <6>2 DEF Fetched, Reload
        <5> QED BY <1>1, <3>1, <5>1, <5>3, <5>4, <5>5
      <4>2. CASE CopyFails /\ ~CopyToLocal
        <5>1. /\ awaiting' = awaiting
              /\ \E v \in {local[a], NoFile, Torn} : local' = [local EXCEPT ![a] = v]
          BY <2>5, <3>1, <4>2 DEF CopyFails
        <5> QED BY <1>1, <2>1, <2>3, <4>2, <5>1 DEF Fetched, Reload
      <4>3. CopyToLocal \/ CopyFails
        BY <1>17, <2>5 DEF CopyToRemote, GetArtifact, NextFor
      <4> QED BY <4>1, <4>2, <4>3
    <3>4. CopyToLocal \/ CopyFails
      BY <1>17, <2>5 DEF CopyToRemote, GetArtifact, NextFor
    <3>5. ASSUME NEW n \in In(toSave)', n.op = "SaveToLocal"
          PROVE  /\ n.artifact \in Asks(ArtifactsToLoad) /\ loading'[n.id] # "none"
                 /\ \A s \in Reloads : Fetched(s, n.artifact)' => s < n.id
      <4>1. /\ n.artifact \in Asks(ArtifactsToLoad) /\ loading[n.id] # "none"
            /\ \A s \in Reloads : Fetched(s, n.artifact) => s < n.id
            /\ n.id \in Reloads /\ n.artifact \in Artifact
        BY <1>2, <2>3, <3>5 DEF Fetches
      <4>2. n.artifact = a => r < n.id
        BY <3>2, <3>5
      <4> QED BY <2>1, <3>3, <4>1, <4>2
    <3>6. ASSUME NEW s \in Reloads, NEW b \in Loaded, Fetched(s, b)', <<b, s>> \in Stored
          PROVE  NotOlderFile(s, b)'
      <4>1. CASE b # a
        <5>1. NotOlderFile(s, b) /\ local'[b] = local[b]
          BY <1>1, <3>3, <3>6, <4>1 DEF Fetches
        <5> QED BY <2>1, <5>1 DEF NotOlderFile, Reload
      <4>2. CASE b = a /\ Fetched(s, a)
        <5>1. s < r /\ NotOlderFile(s, a)
          BY <3>1, <3>6, <4>2 DEF Fetches
        <5>2. CASE local'[a] \in {Reload(r), Torn, NoFile}
          BY <2>1, <3>1, <4>2, <5>1, <5>2 DEF NotOlderFile, Reload
        <5>3. CASE local'[a] = local[a]
          BY <2>1, <4>2, <5>1, <5>3 DEF NotOlderFile, Reload
        <5> QED BY <3>3, <3>4, <5>2, <5>3
      <4>3. CASE b = a /\ ~Fetched(s, a)
        <5>1. s = r /\ CopyToLocal /\ ~CopyFails
          BY <1>1, <3>3, <3>4, <3>6, <4>3
        <5>2. local'[a] = Reload(r)
          BY <3>3, <3>6, <4>3, <5>1
        <5> QED BY <4>3, <5>1, <5>2 DEF NotOlderFile, Reload
      <4> QED BY <4>1, <4>2, <4>3
    <3>7. \A c \in Turns' : c.kind = "reload" => loading'[c.id] = "over"
      BY <2>1, <2>3 DEF Fetches
    <3> QED BY <3>5, <3>6, <3>7 DEF Fetches
  <2> QED BY <2>4, <2>5
<1>18. CASE UNCHANGED <<loading, awaiting, local, toSave, toProxy, rpc>>
  BY <1>4, <1>6, <1>18, SameTurns
<1>19. ASSUME NEW r \in Reloads, BatchReload(r) PROVE Fetches'
  <2> DEFINE k == Len(ArtifactsToLoad)
  <2>1. k \in 0..Len(ArtifactsToLoad)
    BY Lists
  <2>2. BatchReload(r) /\ k = Len(ArtifactsToLoad)
    BY <1>19
  <2> HIDE DEF k
  <2> QED BY <1>11, <2>1, <2>2
<1>20. ASSUME NEW r \in Reloads, NEW k \in 0..Len(ArtifactsToLoad), BadReload(r, k)
       PROVE  Fetches'
  BY <1>11, <1>20
<1>21. CASE \E j \in Jobs : ExecuteTimesOut(j) \/ AllSaved(j) \/ SaveTimesOut(j)
  BY <1>18, <1>21 DEF ExecuteTimesOut, AllSaved, SaveTimesOut
<1>22. CASE UNCHANGED vars
  BY <1>18, <1>22 DEF vars
<1> QED
  BY <1>7, <1>8, <1>9, <1>10, <1>12, <1>13, <1>14, <1>15, <1>16, <1>17, <1>19, <1>20,
     <1>21, <1>22
  DEF Next, Client, Callback

-----------------------------------------------------------------------------
(* What the engine loads, and the theorems                                  *)

\* A reload that has come has come for ever.
LEMMA LoadsGrow ==
    TypeOK /\ [Next]_vars => \A s \in Reloads : loading[s] # "none" => loading'[s] # "none"
<1> SUFFICES ASSUME TypeOK, [Next]_vars, NEW s \in Reloads, loading[s] # "none"
             PROVE  loading'[s] # "none"
  OBVIOUS
<1>1. loading \in [Reloads -> {"none", "saving", "over"}]
  BY DEF TypeOK
<1>2. CASE Client
  BY <1>1, <1>2 DEF Client, Execute, BatchMetrics, BatchReload, BadReload, BatchHealthCheck
<1>3. CASE Callback
  BY <1>1, <1>3 DEF Callback, SaveOutputs, AllSaved, ExecuteTimesOut, SaveTimesOut,
     AllLoaded, LoadTimesOut
<1>4. CASE Restart
  BY <1>1, <1>4 DEF Restart
<1>5. CASE UNCHANGED loading
  BY <1>5
<1> QED
  BY <1>2, <1>3, <1>4, <1>5
  DEF Next, Call, Return, CallFails, EngineWrites, CopyToRemote, CopyToLocal,
      GetArtifact, CopyFails, vars

\* The engine reads what is on the disk when it carries out a reload.
LEMMA ReadsTheDisk ==
    ASSUME TypeOK, [Next]_vars, loaded' # loaded
    PROVE  \E r \in Reloads : /\ Reload(r) \in Turns
                              /\ loaded' = [reload |-> r, read |-> local]
<1>1. (Return \/ CallFails) /\ EngineDone
  BY DEF Next, Client, Callback, Execute, BatchMetrics, BatchReload, BadReload,
     BatchHealthCheck, SaveOutputs, AllSaved, ExecuteTimesOut, SaveTimesOut, AllLoaded,
     LoadTimesOut, Restart, Call, Return, CallFails, EngineWrites, CopyToRemote,
     CopyToLocal, GetArtifact, CopyFails, vars
<1>2. /\ rpc # None /\ rpc.kind = "reload"
      /\ loaded' = [reload |-> rpc.id, read |-> local]
  BY <1>1 DEF Return, CallFails, EngineDone
<1>3. rpc \in Origin \union {Health}
  BY <1>2 DEF TypeOK
<1>4. rpc.id \in Reloads /\ rpc = Reload(rpc.id)
  BY <1>2, <1>3 DEF Origin, Health, Reload
<1>5. rpc \in Turns
  BY <1>2 DEF Turns
<1> QED BY <1>2, <1>4, <1>5

\* It reads what the reload has fetched, or a later one.
LEMMA StepLoads ==
    TypeOK /\ Fetches /\ LoadsWhatWasNamed /\ [Next]_vars => LoadsWhatWasNamed'
<1> SUFFICES ASSUME TypeOK, Fetches, LoadsWhatWasNamed, [Next]_vars
             PROVE  LoadsWhatWasNamed'
  OBVIOUS
<1>1. \A s \in Reloads : loading[s] # "none" => loading'[s] # "none"
  BY LoadsGrow
<1>2. CASE loaded' = loaded
  BY <1>1, <1>2 DEF LoadsWhatWasNamed, Reload
<1>3. CASE loaded' # loaded
  <2>1. PICK r \in Reloads : Reload(r) \in Turns /\ loaded' = [reload |-> r, read |-> local]
    BY <1>3, ReadsTheDisk
  <2>2. \A a \in Loaded : <<a, r>> \in Stored => NotOlderFile(r, a)
    BY <2>1, Lists DEF Fetches, Fetched, Loaded
  <2> QED BY <1>1, <2>1, <2>2 DEF LoadsWhatWasNamed, Loaded, NotOlderFile, Reload
<1> QED BY <1>2, <1>3

LEMMA Invariance == Spec => []IInv
<1>1. IInv /\ [Next]_vars => IInv'
  BY StepTypes, StepTold, StepOrder, StepExecutions, StepCopies, StepFetches, StepLoads
  DEF IInv
<1> QED BY InitInv, <1>1, PTL DEF Spec

\* The variables of a batch action keep to their types.
THEOREM Types == Spec => []TypeOK
<1>1. IInv => TypeOK
  BY DEF IInv
<1> QED BY <1>1, Invariance, PTL

\* A job that clients are told is Finished has its own complete output in the
\* remote store, unless a later job came before it was over: then it may have
\* that job's, but never an older one's.
THEOREM StoresItsOutput == Spec => []OwnOutput
<1>1. IInv => OwnOutput
  BY Lists DEF IInv, OwnOutput, Copies, Copied, Own, Made
<1> QED BY <1>1, Invariance, PTL

\* The metrics of a Finished run that a client asks for are that run's, or those
\* of a run that came after it, never those of one that came before.
THEOREM AnswersNotOlder == Spec => []MetricsAreNotOlder
<1>1. IInv => MetricsAreNotOlder
  BY DEF IInv, MetricsAreNotOlder, Executions, HasOutput, NotOlder, Made, Answers
<1> QED BY <1>1, Invariance, PTL

\* A reload makes the engine read the files that it named, complete, unless a
\* later reload has come; whatever is executed meanwhile.
THEOREM ReadsWhatWasNamed == Spec => []LoadsWhatWasNamed
<1>1. IInv => LoadsWhatWasNamed
  BY DEF IInv
<1> QED BY <1>1, Invariance, PTL

\* What clients can read of the jobs is what JobLifeCycle promises: no late
\* answer, timeout or restart of an actor takes an outcome back.
THEOREM IsALifeCycle == Spec => ImplementsLifeCycle
<1>1. Init => LifeCycle!Init
  BY DEF Init, LifeCycle!Init, clientView
<1>2. IInv /\ [Next]_vars => [LifeCycle!Next]_clientView
  BY StepSimulates DEF IInv
<1> QED BY <1>1, <1>2, Invariance, PTL DEF Spec, ImplementsLifeCycle, LifeCycle!Spec

\* A step of a life cycle leaves an outcome as it is, or forgets it.
LEMMA OutcomeStays ==
    ASSUME [LifeCycle!Next]_clientView, NEW j \in Jobs
    PROVE  /\ clientView[j] \in {"Finished", "Failed"} =>
                 clientView'[j] \in {clientView[j], "forgotten"}
           /\ clientView[j] = "forgotten" => clientView'[j] = "forgotten"
<1>0. clientView = [k \in Jobs |-> clientView[k]]
  BY DEF clientView
<1> HIDE DEF clientView
<1>1. ASSUME NEW k \in Jobs, NEW s, LifeCycle!Becomes(k, s), k # j
      PROVE  \/ clientView'[j] = clientView[j]
             \/ /\ j \in LifeCycle!Known
                /\ clientView'[j] = IF LifeCycle!UnderWay(j) THEN "evicted" ELSE "forgotten"
  BY <1>0, <1>1 DEF LifeCycle!Becomes, LifeCycle!Known
<1>2. ASSUME NEW k \in Jobs, LifeCycle!Accept(k) \/ LifeCycle!End(k)
      PROVE  \/ LifeCycle!UnderWay(j) \/ clientView[j] = "none"
             \/ clientView'[j] = clientView[j]
             \/ j \in LifeCycle!Known /\ clientView'[j] = "forgotten"
  <2>1. CASE k = j
    BY <1>2, <2>1 DEF LifeCycle!Accept, LifeCycle!End
  <2>2. CASE k # j
    BY <1>1, <1>2, <2>2 DEF LifeCycle!Accept, LifeCycle!End
  <2> QED BY <2>1, <2>2
<1>3. LifeCycle!UnderWay(j) => clientView[j] \in {"Working", "evicted"}
  BY DEF LifeCycle!UnderWay
<1>4. CASE LifeCycle!Restart
  BY <1>0, <1>4 DEF LifeCycle!Restart
<1>5. j \in LifeCycle!Known => clientView[j] # "forgotten"
  BY DEF LifeCycle!Known
<1> QED BY <1>2, <1>3, <1>4, <1>5 DEF LifeCycle!Next

\* So a client that has read an outcome of its job reads the same one as long as
\* it is told anything of it, and is never told anything of one that is forgotten.
THEOREM OutcomesStand ==
    Spec => [][\A j \in Jobs :
                  /\ clientView[j] \in {"Finished", "Failed"} =>
                        clientView'[j] \in {clientView[j], "forgotten"}
                  /\ clientView[j] = "forgotten" => clientView'[j] = "forgotten"]_vars
<1>1. IInv /\ [Next]_vars =>
         [\A j \in Jobs :
             /\ clientView[j] \in {"Finished", "Failed"} =>
                   clientView'[j] \in {clientView[j], "forgotten"}
             /\ clientView[j] = "forgotten" => clientView'[j] = "forgotten"]_vars
  BY StepSimulates, OutcomeStays DEF IInv
<1> QED BY <1>1, Invariance, PTL DEF Spec
=============================================================================
