----------------------------- MODULE BatchAction -----------------------------
(***************************************************************************)
(* One batch action (acquisitor, tpreparator, trainer or evaluator).       *)
(*                                                                         *)
(* BatchAction accepts jobs (BatchExecute) and reloads, neither of which   *)
(* it answers; a job's progress is kept in a cache (status) that clients   *)
(* ask.  Its children are BatchActionProxy (toProxy, rpc), which makes     *)
(* blocking calls to the engine, and the artifact saver (toSave), which    *)
(* copies files between the local disk (local) and the remote store        *)
(* (remote).  What follows an ask runs as a callback, concurrently with    *)
(* the actor, on the fields of the actor instance that made the ask.       *)
(*                                                                         *)
(* A job or reload is numbered in the order of its arrival.  The number of *)
(* a job stands for the protocol that the API generated for it.            *)
(***************************************************************************)
EXTENDS Naturals, Sequences, FiniteSets, LocalCache

CONSTANTS
    Artifact,           \* artifact names
    ArtifactsToPersist, \* engineActionMetadata.artifactsToPersist, a sequence
    ArtifactsToLoad,    \* engineActionMetadata.artifactsToLoad, a sequence
    Metrics,            \* the artifact called "metrics"
    Stored,             \* the artifacts that the protocols of reloads name
                        \* and the remote store has, as <<artifact, reload>>
    NoFile,             \* there is no such file
    Torn,               \* a file that is incomplete
    None,               \* no call is running
    CacheSize,          \* bound: statuses that the cache has room for
    MaxJobs,            \* bound: jobs accepted
    MaxReloads,         \* bound: reloads accepted
    MaxQueries          \* bound: health and metrics requests under way

Jobs == 1..MaxJobs
Reloads == 1..MaxReloads
Asks(artifacts) == {artifacts[i] : i \in DOMAIN artifacts}

ASSUME ArtifactAssumption ==
    /\ ArtifactsToPersist \in Seq(Artifact) /\ ArtifactsToLoad \in Seq(Artifact)
    /\ Metrics \in Artifact
    /\ Stored \subseteq Artifact \X Reloads
\* Metadata names an artifact once: the set of the asks for a list of artifacts
\* stands for the list of their futures.
ASSUME OnceAssumption ==
    /\ \A i, k \in DOMAIN ArtifactsToPersist :
          ArtifactsToPersist[i] = ArtifactsToPersist[k] => i = k
    /\ \A i, k \in DOMAIN ArtifactsToLoad :
          ArtifactsToLoad[i] = ArtifactsToLoad[k] => i = k
ASSUME BoundAssumption ==
    /\ MaxJobs \in Nat /\ MaxReloads \in Nat /\ MaxQueries \in Nat
    /\ CacheSize \in Nat

VARIABLES
    status,     \* the cache: the execution status of each job
    phase,      \* how far each job is
    pending,    \* the SaveToRemote asks of each job not answered yet
    loading,    \* how far each reload is
    awaiting,   \* the SaveToLocal asks of each reload not answered yet
    actor,      \* BatchAction: "up" or "restarting"
    toProxy,    \* the proxy's mailbox
    rpc,        \* what the proxy's blocking call is for, or None
    toSave,     \* the saver's mailbox
    local,      \* the files on the local disk
    remote,     \* the files in the remote store, by job
    loaded,     \* engine: its last reload and the files it read then
    overtaken   \* history: the jobs that were under way when a later one came

vars == <<status, phase, pending, loading, awaiting, actor, toProxy, rpc,
          toSave, local, remote, loaded, overtaken>>
jobs == <<status, phase, pending, overtaken>>
reloads == <<loading, awaiting>>
files == <<local, remote>>

-----------------------------------------------------------------------------
\* Calls to the engine.  Job(j) and Reload(r) are also what a file is said to
\* come from: job j wrote it, or reload r asked for it.
Job(j)    == [kind |-> "job", id |-> j]
Reload(r) == [kind |-> "reload", id |-> r]
Health    == [kind |-> "health", id |-> 0]

Origin == [kind : {"job"}, id : Jobs] \union [kind : {"reload"}, id : Reloads]
Content == Origin \union {NoFile, Torn}
ASSUME ContentAssumption ==
    /\ NoFile \notin Origin /\ Torn \notin Origin /\ NoFile # Torn
    /\ None \notin Origin /\ None # Health

\* Mutant of SaveToRemote: both arguments are strings, and they are swapped.
SaveToRemoteSwapped(a, j) == [op |-> "SaveToRemote", artifact |-> j, id |-> a]

SaveToRemote(a, j) == [op |-> "SaveToRemote", artifact |-> a, id |-> j]
SaveToLocal(a, r)  == [op |-> "SaveToLocal",  artifact |-> a, id |-> r]
GetMetrics(j)      == [op |-> "GetArtifact",  artifact |-> Metrics, id |-> j]

Save(j, s) == status' \in Saved(status, j, s, "none", CacheSize)

Issued == {j \in Jobs : phase[j] # "none"}
UnderWay == {j \in Issued : phase[j] # "over"}
Queries ==
    Cardinality({i \in DOMAIN toProxy : toProxy[i] = Health}) +
    Cardinality({i \in DOMAIN toSave : toSave[i].op = "GetArtifact"})

Init ==
    /\ status = [j \in Jobs |-> "none"] /\ phase = [j \in Jobs |-> "none"]
    /\ pending = [j \in Jobs |-> {}] /\ overtaken = {}
    /\ loading = [r \in Reloads |-> "none"] /\ awaiting = [r \in Reloads |-> {}]
    /\ actor = "up"
    /\ toProxy = <<>> /\ rpc = None /\ toSave = <<>>
    /\ local = [a \in Artifact |-> NoFile]
    /\ remote = [j \in Jobs |-> [a \in Artifact |-> NoFile]]
    /\ loaded = [reload |-> 0, read |-> local]

-----------------------------------------------------------------------------
(* BatchExecute and its callbacks                                           *)

Execute(j) ==
    /\ actor = "up" /\ phase[j] = "none" /\ 1..(j - 1) \subseteq Issued
    /\ Save(j, "Working")
    /\ phase' = [phase EXCEPT ![j] = "executing"]
    /\ toProxy' = Append(toProxy, Job(j))
    /\ overtaken' = overtaken \union UnderWay
    /\ UNCHANGED <<pending, reloads, actor, rpc, toSave, files, loaded>>

\* Mutants of ExecuteTimesOut: an answer that came does not stop the timer; and
\* the failure is not recorded.
ExecuteTimesOutLate(j) ==
    /\ phase[j] # "none"
    /\ Save(j, "Failed")
    /\ phase' = [phase EXCEPT ![j] = "over"]
    /\ UNCHANGED <<pending, overtaken, reloads, actor, toProxy, rpc, toSave,
                   files, loaded>>

ExecuteTimesOutSilently(j) ==
    /\ phase[j] = "executing"
    /\ phase' = [phase EXCEPT ![j] = "over"]
    /\ UNCHANGED <<status, pending, overtaken, reloads, actor, toProxy, rpc,
                   toSave, files, loaded>>

ExecuteTimesOut(j) ==
    /\ phase[j] = "executing"
    /\ Save(j, "Failed")
    /\ phase' = [phase EXCEPT ![j] = "over"]
    /\ UNCHANGED <<pending, overtaken, reloads, actor, toProxy, rpc, toSave,
                   files, loaded>>

\* The proxy answered: the callback asks for all copies at once.
SaveOutputs(j) ==
    /\ phase[j] = "executed"
    /\ phase' = [phase EXCEPT ![j] = "saving"]
    /\ pending' = [pending EXCEPT ![j] = Asks(ArtifactsToPersist)]
    /\ toSave' = toSave \o [i \in DOMAIN ArtifactsToPersist |->
                               SaveToRemote(ArtifactsToPersist[i], j)]
    /\ UNCHANGED <<status, overtaken, reloads, actor, toProxy, rpc, files,
                   loaded>>

\* Mutant of AllSaved: the copies are not waited for.
AllSavedTooEarly(j) ==
    /\ phase[j] = "saving"
    /\ Save(j, "Finished")
    /\ phase' = [phase EXCEPT ![j] = "over"]
    /\ UNCHANGED <<pending, overtaken, reloads, actor, toProxy, rpc, toSave,
                   files, loaded>>

AllSaved(j) ==
    /\ phase[j] = "saving" /\ pending[j] = {}
    /\ Save(j, "Finished")
    /\ phase' = [phase EXCEPT ![j] = "over"]
    /\ UNCHANGED <<pending, overtaken, reloads, actor, toProxy, rpc, toSave,
                   files, loaded>>

SaveTimesOut(j) ==
    /\ phase[j] = "saving" /\ pending[j] # {}
    /\ Save(j, "Failed")
    /\ phase' = [phase EXCEPT ![j] = "over"]
    /\ UNCHANGED <<pending, overtaken, reloads, actor, toProxy, rpc, toSave,
                   files, loaded>>

-----------------------------------------------------------------------------
(* BatchReload and its callback                                             *)

\* The asks for the first k artifacts, which go out one by one.
AskFor(r, k) ==
    toSave' = toSave \o [i \in 1..k |-> SaveToLocal(ArtifactsToLoad[i], r)]

BatchReload(r) ==
    /\ actor = "up" /\ loading[r] = "none"
    /\ \A s \in 1..(r - 1) : loading[s] # "none"
    /\ loading' = [loading EXCEPT ![r] = "saving"]
    /\ awaiting' = [awaiting EXCEPT ![r] = Asks(ArtifactsToLoad)]
    /\ AskFor(r, Len(ArtifactsToLoad))
    /\ UNCHANGED <<jobs, actor, toProxy, rpc, files, loaded>>

\* A protocol that cannot be split, or that does not name an artifact, throws
\* out of receive, after the asks for the k artifacts before that one.
BadReload(r, k) ==
    /\ actor = "up" /\ loading[r] = "none"
    /\ \A s \in 1..(r - 1) : loading[s] # "none"
    /\ k = 0 \/ k < Len(ArtifactsToLoad)
    /\ loading' = [loading EXCEPT ![r] = "over"]
    /\ AskFor(r, k)
    /\ actor' = "restarting"
    /\ UNCHANGED <<jobs, awaiting, toProxy, rpc, files, loaded>>

\* Mutant of AllLoaded: the copies are not waited for.
AllLoadedTooEarly(r) ==
    /\ loading[r] = "saving"
    /\ loading' = [loading EXCEPT ![r] = "over"]
    /\ toProxy' = Append(toProxy, Reload(r))
    /\ UNCHANGED <<jobs, awaiting, actor, rpc, toSave, files, loaded>>

\* Nobody awaits the engine's answer.
AllLoaded(r) ==
    /\ loading[r] = "saving" /\ awaiting[r] = {}
    /\ loading' = [loading EXCEPT ![r] = "over"]
    /\ toProxy' = Append(toProxy, Reload(r))
    /\ UNCHANGED <<jobs, awaiting, actor, rpc, toSave, files, loaded>>

LoadTimesOut(r) ==
    /\ loading[r] = "saving" /\ awaiting[r] # {}
    /\ loading' = [loading EXCEPT ![r] = "over"]
    /\ UNCHANGED <<jobs, awaiting, actor, toProxy, rpc, toSave, files, loaded>>

-----------------------------------------------------------------------------
(* The other messages of BatchAction, and its restart                       *)

BatchMetrics(j) ==
    /\ actor = "up" /\ j \in Issued /\ Queries < MaxQueries
    /\ toSave' = Append(toSave, GetMetrics(j))
    /\ UNCHANGED <<jobs, reloads, actor, toProxy, rpc, files, loaded>>

BatchHealthCheck ==
    /\ actor = "up" /\ Queries < MaxQueries
    /\ toProxy' = Append(toProxy, Health)
    /\ UNCHANGED <<jobs, reloads, actor, rpc, toSave, files, loaded>>

\* What BatchExecutionStatus answers.
BatchExecutionStatus(j) ==
    IF status[j] = "none" THEN "Protocol not found!" ELSE status[j]

\* Mutant of Restart: the proxy is stopped with a message of its mailbox's own,
\* behind all the calls that are queued.
RestartBehindCalls ==
    /\ actor = "restarting" /\ rpc = None /\ toProxy = <<>>
    /\ actor' = "up"
    /\ status' = [j \in Jobs |-> "none"]
    /\ phase' = [j \in Jobs |-> IF j \in Issued THEN "over" ELSE "none"]
    /\ loading' = [r \in Reloads |->
                      IF loading[r] = "none" THEN "none" ELSE "over"]
    /\ toSave' = <<>>
    /\ UNCHANGED <<pending, overtaken, awaiting, toProxy, rpc, files, loaded>>

\* The new instance has new children and an empty cache.  Callbacks of the old
\* one write to the old cache and ask actors that are gone.  The children
\* must have stopped first, and the proxy does not stop during a call.
Restart ==
    /\ actor = "restarting" /\ rpc = None
    /\ actor' = "up"
    /\ status' = [j \in Jobs |-> "none"]
    /\ phase' = [j \in Jobs |-> IF j \in Issued THEN "over" ELSE "none"]
    /\ loading' = [r \in Reloads |->
                      IF loading[r] = "none" THEN "none" ELSE "over"]
    /\ toProxy' = <<>> /\ toSave' = <<>>
    /\ UNCHANGED <<pending, overtaken, awaiting, rpc, files, loaded>>

-----------------------------------------------------------------------------
(* BatchActionProxy and the engine                                          *)

Call ==
    /\ rpc = None /\ toProxy # <<>>
    /\ rpc' = Head(toProxy) /\ toProxy' = Tail(toProxy)
    /\ UNCHANGED <<jobs, reloads, actor, toSave, files, loaded>>

\* The engine writes the files of the job it is at, in any order.
EngineWrites(a) ==
    /\ rpc # None /\ rpc.kind = "job" /\ a \in Asks(ArtifactsToPersist)
    /\ local' \in {[local EXCEPT ![a] = Torn], [local EXCEPT ![a] = rpc]}
    /\ UNCHANGED <<jobs, reloads, actor, toProxy, rpc, toSave, remote, loaded>>

\* The engine has done what it was asked to.
EngineDone ==
    /\ rpc.kind = "job" =>
          \A a \in Asks(ArtifactsToPersist) : local[a] = rpc
    /\ loaded' = IF rpc.kind = "reload"
                 THEN [reload |-> rpc.id, read |-> local] ELSE loaded

\* Mutant of Answered: an answer goes to everybody who waits for one.
AnsweredAll ==
    phase' = [j \in Jobs |-> IF rpc.kind = "job" /\ phase[j] = "executing"
                             THEN "executed" ELSE phase[j]]

\* The answer counts if its ask is still open.
Answered ==
    phase' = [j \in Jobs |-> IF rpc = Job(j) /\ phase[j] = "executing"
                             THEN "executed" ELSE phase[j]]

Return ==
    /\ rpc # None
    /\ EngineDone /\ Answered
    /\ rpc' = None
    /\ UNCHANGED <<status, pending, overtaken, reloads, actor, toProxy, toSave,
                   files>>

\* The stub throws: the proxy is restarted with the mailbox it has, and the
\* ask stays open.
CallFails ==
    /\ rpc # None
    /\ rpc' = None
    /\ EngineDone \/ UNCHANGED loaded
    /\ UNCHANGED <<jobs, reloads, actor, toProxy, toSave, files>>

-----------------------------------------------------------------------------
(* The artifact saver                                                       *)

NextFor(op) == toSave # <<>> /\ Head(toSave).op = op /\ toSave' = Tail(toSave)

\* Files that are not there are not copied; the answer is Done anyway.
CopyToRemote ==
    /\ NextFor("SaveToRemote")
    /\ LET m == Head(toSave) IN
       /\ remote' = IF local[m.artifact] # NoFile
                    THEN [remote EXCEPT ![m.id][m.artifact] = local[m.artifact]]
                    ELSE remote
       /\ pending' = [pending EXCEPT ![m.id] = @ \ {m.artifact}]
    /\ UNCHANGED <<status, phase, overtaken, reloads, actor, toProxy, rpc,
                   local, loaded>>

CopyToLocal ==
    /\ NextFor("SaveToLocal")
    /\ LET m == Head(toSave) IN
       /\ local' = IF <<m.artifact, m.id>> \in Stored
                   THEN [local EXCEPT ![m.artifact] = Reload(m.id)] ELSE local
       /\ awaiting' = [awaiting EXCEPT ![m.id] = @ \ {m.artifact}]
    /\ UNCHANGED <<jobs, loading, actor, toProxy, rpc, remote, loaded>>

\* What GetArtifact answers, whichever protocol is named: the local file (or ""
\* if there is none).
Answers(a) == local[a]

GetArtifact ==
    /\ NextFor("GetArtifact")
    /\ UNCHANGED <<jobs, reloads, actor, toProxy, rpc, files, loaded>>

\* The copy throws: before it began, or when the destination was removed or
\* written in part.  The saver is restarted with the mailbox it has, and the ask
\* stays open.
CopyFails ==
    /\ toSave # <<>>
    /\ LET m == Head(toSave) IN
       \/ /\ m.op = "SaveToRemote" /\ local[m.artifact] # NoFile
          /\ \E left \in {remote[m.id][m.artifact], NoFile, Torn} :
                remote' = [remote EXCEPT ![m.id][m.artifact] = left]
          /\ UNCHANGED local
       \/ /\ m.op = "SaveToLocal" /\ <<m.artifact, m.id>> \in Stored
          /\ \E left \in {local[m.artifact], NoFile, Torn} :
                local' = [local EXCEPT ![m.artifact] = left]
          /\ UNCHANGED remote
    /\ toSave' = Tail(toSave)
    /\ UNCHANGED <<jobs, reloads, actor, toProxy, rpc, loaded>>

-----------------------------------------------------------------------------
Client ==
    \/ \E j \in Jobs : Execute(j) \/ BatchMetrics(j)
    \/ \E r \in Reloads : BatchReload(r)
    \/ \E r \in Reloads, k \in 0..Len(ArtifactsToLoad) : BadReload(r, k)
    \/ BatchHealthCheck

Callback ==
    \/ \E j \in Jobs : \/ SaveOutputs(j) \/ AllSaved(j)
                       \/ ExecuteTimesOut(j) \/ SaveTimesOut(j)
    \/ \E r \in Reloads : AllLoaded(r) \/ LoadTimesOut(r)

Next ==
    \/ Client
    \/ Callback
    \/ Restart
    \/ Call \/ Return \/ CallFails
    \/ \E a \in Artifact : EngineWrites(a)
    \/ CopyToRemote \/ CopyToLocal \/ GetArtifact \/ CopyFails

Spec == Init /\ [][Next]_vars

\* Callbacks run, timers fire and a restart ends when its children have
\* stopped.  The engine and the saver need not get anything done: a blocking
\* call has no deadline, and may last for ever.
Fairness ==
    /\ \A j \in Jobs :
        /\ WF_vars(SaveOutputs(j)) /\ WF_vars(AllSaved(j))
        /\ WF_vars(ExecuteTimesOut(j)) /\ WF_vars(SaveTimesOut(j))
    /\ WF_vars(Restart)

FairSpec == Spec /\ Fairness

-----------------------------------------------------------------------------
TypeOK ==
    /\ status \in [Jobs -> {"none", "Working", "Finished", "Failed"}]
    /\ phase \in [Jobs -> {"none", "executing", "executed", "saving", "over"}]
    /\ pending \in [Jobs -> SUBSET Asks(ArtifactsToPersist)]
    /\ overtaken \subseteq Jobs
    /\ loading \in [Reloads -> {"none", "saving", "over"}]
    /\ awaiting \in [Reloads -> SUBSET Asks(ArtifactsToLoad)]
    /\ actor \in {"up", "restarting"}
    /\ toProxy \in Seq(Origin \union {Health})
    /\ rpc \in Origin \union {Health, None}
    /\ toSave \in Seq([op : {"SaveToRemote", "GetArtifact"},
                       artifact : Artifact, id : Jobs] \union
                      [op : {"SaveToLocal"}, artifact : Artifact, id : Reloads])
    /\ local \in [Artifact -> Content]
    /\ remote \in [Jobs -> [Artifact -> Content]]
    /\ loaded \in [reload : Reloads \union {0}, read : [Artifact -> Content]]

\* A job that clients are told is Finished has its own complete output in the
\* remote store, whatever copies or calls failed or came late.  Only if a later
\* job came before it was over can it be that job's instead, never an older
\* one's.  (For an artifact that the action does not also load: a reload may
\* replace the file before it is saved.)
OwnOutput ==
    \A j \in Jobs : status[j] = "Finished" =>
        \A a \in Asks(ArtifactsToPersist) \ Asks(ArtifactsToLoad) :
            \/ remote[j][a] = Job(j)
            \/ /\ j \in overtaken
               /\ remote[j][a] \in {Job(k) : k \in (j + 1)..MaxJobs} \union {Torn}

\* The metrics that a client gets for a run that it was told is Finished are
\* that run's or a later one's, or incomplete if a later one has come, never an
\* older one's.  (If the action makes metrics and does not load them.)
MetricsAreNotOlder ==
    Metrics \in Asks(ArtifactsToPersist) \ Asks(ArtifactsToLoad) =>
        \A j \in Jobs : status[j] = "Finished" =>
            \/ Answers(Metrics) = Job(j)
            \/ \E k \in Issued : k > j /\ Answers(Metrics) \in {Job(k), Torn}

\* What clients know of the jobs.
clientView == [j \in Jobs |-> IF status[j] # "none" THEN status[j]
                              ELSE IF phase[j] = "none" THEN "none"
                              ELSE IF phase[j] = "over" THEN "forgotten"
                              ELSE "evicted"]

\* What a client reads about its job, and how that may change, is what
\* JobLifeCycle promises: late answers and timeouts never take an outcome back,
\* and a status is lost in a restart or when the cache is full, not otherwise.
LifeCycle == INSTANCE JobLifeCycle WITH
    Key <- Jobs, Room <- CacheSize, state <- clientView
ImplementsLifeCycle == LifeCycle!Spec

\* When the engine carries out a reload, each file it reads is the one that
\* the reload named, if the store has it, and complete.  Only if a later reload
\* has come can it be that one's file, or be torn or missing because that one's
\* copy broke off; it is never an older one.  (For an artifact that the action
\* does not also write.)
LoadsWhatWasNamed ==
    LET r == loaded.reload
        Later == {s \in Reloads : s > r /\ loading[s] # "none"}
    IN  r # 0 =>
        \A a \in Asks(ArtifactsToLoad) \ Asks(ArtifactsToPersist) :
            <<a, r>> \in Stored =>
                \/ loaded.read[a] = Reload(r)
                \/ /\ Later # {}
                   /\ loaded.read[a] \in {Reload(s) : s \in Later} \union {Torn, NoFile}

\* A job is not Working for ever, even if the engine never answers, copies
\* are lost or the actor hangs in its restart.
JobEnds == \A j \in Jobs : status[j] = "Working" ~> status[j] # "Working"

\* A restart waits for the call that the proxy is in, and for nothing else:
\* if no call lasts for ever the actor comes back, whatever its children still
\* had to do.
RestartEnds ==
    []<>(rpc = None) => (actor = "restarting" ~> actor = "up")

\* What tests and comments say, and the code does not keep: see the runs that
\* expect a violation.

\* BatchActionTest, "send BatchExecutionStatus message with valid protocol":
\* the status of a job that was accepted is its execution, not "not found".
AcceptedJobIsKnown ==
    actor = "up" =>
        \A j \in Issued : BatchExecutionStatus(j) # "Protocol not found!"
=============================================================================
