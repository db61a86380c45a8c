--------------------------- MODULE PipelineAction ---------------------------
(***************************************************************************)
(* The pipeline: all batch actions of an engine, one after the other.      *)
(*                                                                         *)
(* PipelineAction handles a PipelineExecute in one go (current, step, at): *)
(* for each action it makes a child, a BatchActionProxy, and blocks in     *)
(* Await until that one's calls to the engine (calls, answered) are back.  *)
(* While it blocks it handles no message, and no notice of its children    *)
(* either: a child it stopped keeps its name (names, stopping) and a saver *)
(* that failed stays down.  The artifact saver (toSave, saver) copies the  *)
(* actions' outputs in the background.                                     *)
(*                                                                         *)
(* Pipelines are numbered in the order of their arrival; a number stands   *)
(* for the protocol that the API generated.                                *)
(***************************************************************************)
EXTENDS Naturals, Sequences, LocalCache

CONSTANTS
    Action,             \* action names
    PipelineActions,    \* metadata.pipelineActions, a sequence
    Artifact,           \* artifact names
    ArtifactsToPersist, \* artifactsToPersist of each action, a sequence
    ArtifactsToLoad,    \* artifactsToLoad of each action, a set
    NoFile,             \* there is no such file
    Torn,               \* a file that is incomplete
    CacheSize,          \* bound: statuses that the cache has room for
    MaxPipelines        \* bound: pipelines accepted

ASSUME ActionAssumption ==
    /\ PipelineActions \in Seq(Action)
    /\ ArtifactsToPersist \in [Action -> Seq(Artifact)]
    /\ ArtifactsToLoad \in [Action -> SUBSET Artifact]
ASSUME FileAssumption == NoFile \notin Nat /\ Torn \notin Nat /\ NoFile # Torn
ASSUME BoundAssumption == MaxPipelines \in Nat /\ CacheSize \in Nat

VARIABLES
    issued,     \* pipelines accepted so far
    handled,    \* pipelines taken from the mailbox so far
    status,     \* the cache: the execution status of each pipeline
    actor,      \* "idle", "busy" in receive, or "restarting"
    step,       \* receive: index of the action it is at
    at,         \* receive: "create", "reload" or "execute"
    calls,      \* the engine calls that children are blocked in
    answered,   \* the current child has answered the ask that is awaited
    names,      \* the names that are taken among the children
    stopping,   \* those of them whose actor has yet to terminate
    toSave,     \* the saver's mailbox
    saver,      \* the saver: "up" or "failed"
    local,      \* the files on the local disk, by the pipeline that made them
    remote,     \* the files in the remote store, by protocol
    inputs,     \* engines: the files each action read at its last reload
    brokenOff,  \* history: the messages whose copy broke off
    finishedLast \* history: whether the last pipeline to end was Finished

vars == <<issued, handled, status, actor, step, at, calls, answered, names,
          stopping, toSave, saver, local, remote, inputs, brokenOff,
          finishedLast>>
receive == <<actor, step, at>>
progress == <<issued, handled, finishedLast>>
child == <<calls, answered, names, stopping>>
store == <<toSave, saver, remote, brokenOff>>
engine == <<local, inputs>>

-----------------------------------------------------------------------------
Pipelines == 1..MaxPipelines
Steps == DOMAIN PipelineActions
Current == PipelineActions[step]
Outputs(a) == {ArtifactsToPersist[a][i] : i \in DOMAIN ArtifactsToPersist[a]}

Save(p, s) == status' \in Saved(status, p, s, "none", CacheSize)

\* A file on the disk: left by an earlier run (0) or made by a pipeline.
File == 0..MaxPipelines \union {NoFile, Torn}

\* The call of the child that pipeline p has for action a.
Call(p, a, kind) == [pipeline |-> p, action |-> a, kind |-> kind]

\* Mutant of SaveToRemote: both arguments are strings, and they are swapped.
SaveToRemoteSwapped(f, p) == [artifact |-> p, protocol |-> f]

SaveToRemote(f, p) == [artifact |-> f, protocol |-> p]

Init ==
    /\ issued = 0 /\ handled = 0
    /\ status = [p \in Pipelines |-> "none"]
    /\ actor = "idle" /\ step = 1 /\ at = "create"
    /\ calls = {} /\ answered = FALSE
    /\ names = {} /\ stopping = {}
    /\ toSave = <<>> /\ saver = "up"
    /\ local \in [Artifact -> {NoFile, 0}]
    /\ remote = [p \in Pipelines |-> [f \in Artifact |-> NoFile]]
    /\ inputs = [a \in Action |-> [f \in Artifact |-> NoFile]]
    /\ brokenOff = {} /\ finishedLast = FALSE

-----------------------------------------------------------------------------
(* PipelineAction                                                           *)

\* The API sends a PipelineExecute; it waits in the mailbox.
Submit ==
    /\ issued < MaxPipelines
    /\ issued' = issued + 1
    /\ UNCHANGED <<handled, finishedLast, status, receive, child, store, engine>>

\* Notices about children come before other messages, so a failed saver has
\* been restarted and the children that have terminated are gone by now.
PipelineExecute ==
    /\ actor = "idle" /\ saver = "up" /\ handled < issued
    /\ handled' = handled + 1
    /\ Save(handled + 1, "Working")
    /\ actor' = "busy" /\ step' = 1 /\ at' = "create"
    /\ names' = stopping
    /\ UNCHANGED <<issued, finishedLast, calls, answered, stopping, store,
                   engine>>

\* A child is made for the next action and asked to reload.
Create ==
    /\ actor = "busy" /\ at = "create" /\ step \in Steps
    /\ Current \notin names
    /\ names' = names \union {Current}
    /\ at' = "reload" /\ answered' = FALSE
    /\ calls' = calls \union {Call(handled, Current, "reload")}
    /\ UNCHANGED <<progress, status, actor, step, stopping, store, engine>>

Reloaded ==
    /\ actor = "busy" /\ at = "reload" /\ answered
    /\ at' = "execute" /\ answered' = FALSE
    /\ calls' = calls \union {Call(handled, Current, "execute")}
    /\ UNCHANGED <<progress, status, actor, step, names, stopping, store,
                   engine>>

\* The child is stopped, its outputs are to be saved, the next action's turn.
Executed ==
    /\ actor = "busy" /\ at = "execute" /\ answered
    /\ stopping' = stopping \union {Current}
    /\ toSave' = toSave \o [i \in DOMAIN ArtifactsToPersist[Current] |->
                    SaveToRemote(ArtifactsToPersist[Current][i], handled)]
    /\ step' = step + 1 /\ at' = "create" /\ answered' = FALSE
    /\ UNCHANGED <<progress, status, actor, calls, names, saver, remote,
                   brokenOff, engine>>

Finish ==
    /\ actor = "busy" /\ at = "create" /\ step \notin Steps
    /\ Save(handled, "Finished")
    /\ actor' = "idle" /\ finishedLast' = TRUE
    /\ UNCHANGED <<issued, handled, step, at, child, store, engine>>

\* Mutant of Fail: Await has no time limit.
FailNeverLate ==
    /\ actor = "busy"
    /\ at = "create" /\ step \in Steps /\ Current \in names
    /\ Save(handled, "Failed")
    /\ actor' = "restarting"
    /\ UNCHANGED <<progress, step, at, child, store, engine>>

\* An Await times out, or the name of the new child is taken: the exception
\* is rethrown and makes the supervisor restart PipelineAction.
Fail ==
    /\ actor = "busy"
    /\ \/ at \in {"reload", "execute"} /\ ~answered
       \/ at = "create" /\ step \in Steps /\ Current \in names
    /\ Save(handled, "Failed")
    /\ actor' = "restarting"
    /\ UNCHANGED <<progress, step, at, child, store, engine>>

\* Mutants of Restart: the children are not waited for; the cache survives; and
\* the children keep their names.
RestartAtOnce ==
    /\ actor = "restarting"
    /\ actor' = "idle" /\ finishedLast' = FALSE
    /\ status' = [p \in Pipelines |-> "none"]
    /\ names' = {} /\ stopping' = {} /\ answered' = FALSE
    /\ toSave' = <<>> /\ saver' = "up"
    /\ UNCHANGED <<issued, handled, step, at, calls, remote, brokenOff, engine>>

RestartWithNames ==
    /\ actor = "restarting" /\ calls = {}
    /\ actor' = "idle" /\ finishedLast' = FALSE
    /\ status' = [p \in Pipelines |-> "none"]
    /\ toSave' = <<>> /\ saver' = "up"
    /\ UNCHANGED <<issued, handled, step, at, child, remote, brokenOff, engine>>

RestartWithCache ==
    /\ actor = "restarting" /\ calls = {}
    /\ actor' = "idle" /\ finishedLast' = FALSE
    /\ names' = {} /\ stopping' = {} /\ answered' = FALSE
    /\ toSave' = <<>> /\ saver' = "up"
    /\ UNCHANGED <<issued, handled, status, step, at, calls, remote, brokenOff,
                   engine>>

\* The children must have stopped, and a child does not stop during a call.
\* The new instance has an empty cache and a new saver.
Restart ==
    /\ actor = "restarting" /\ calls = {}
    /\ actor' = "idle" /\ finishedLast' = FALSE
    /\ status' = [p \in Pipelines |-> "none"]
    /\ names' = {} /\ stopping' = {} /\ answered' = FALSE
    /\ toSave' = <<>> /\ saver' = "up"
    /\ UNCHANGED <<issued, handled, step, at, calls, remote, brokenOff, engine>>

\* What PipelineExecutionStatus answers, when the actor gets round to it.
PipelineExecutionStatus(p) ==
    IF status[p] = "none" THEN "Protocol not found!" ELSE status[p]

-----------------------------------------------------------------------------
(* The children and the engine                                              *)

Terminate(a) ==
    /\ a \in stopping
    /\ stopping' = stopping \ {a}
    /\ UNCHANGED <<progress, status, receive, calls, answered, names,
                   store, engine>>

\* The engine writes the files of the action it executes, in any order.
EngineWrites(c, f) ==
    /\ c.kind = "execute" /\ f \in Outputs(c.action)
    /\ local' \in {[local EXCEPT ![f] = Torn], [local EXCEPT ![f] = c.pipeline]}
    /\ UNCHANGED <<progress, status, receive, child, store, inputs>>

\* The engine has read all its files, or written all of them.
EngineDone(c) ==
    /\ c.kind = "execute" => \A f \in Outputs(c.action) : local[f] = c.pipeline
    /\ inputs' = IF c.kind = "reload" THEN [inputs EXCEPT ![c.action] = local]
                 ELSE inputs

Return(c) ==
    /\ EngineDone(c)
    /\ calls' = calls \ {c}
    /\ answered' = (actor = "busy" /\ c = Call(handled, Current, at))
    /\ UNCHANGED <<progress, status, receive, names, stopping, store,
                   local>>

\* The child throws, and waits for a supervisor that is blocked.
CallFails(c) ==
    /\ EngineDone(c) \/ UNCHANGED inputs
    /\ calls' = calls \ {c}
    /\ UNCHANGED <<progress, status, receive, answered, names, stopping,
                   store, local>>

-----------------------------------------------------------------------------
(* The artifact saver                                                       *)

CopyToRemote ==
    /\ saver = "up" /\ toSave # <<>>
    /\ LET m == Head(toSave) IN
       remote' = IF local[m.artifact] # NoFile
                 THEN [remote EXCEPT ![m.protocol][m.artifact] = local[m.artifact]]
                 ELSE remote
    /\ toSave' = Tail(toSave)
    /\ UNCHANGED <<progress, status, receive, child, saver, brokenOff, engine>>

\* The copy throws: before it began, or when the destination was removed or
\* written in part.
CopyFails ==
    /\ saver = "up" /\ toSave # <<>>
    /\ LET m == Head(toSave) IN
       /\ local[m.artifact] # NoFile
       /\ \E left \in {remote[m.protocol][m.artifact], NoFile, Torn} :
             remote' = [remote EXCEPT ![m.protocol][m.artifact] = left]
       /\ brokenOff' = brokenOff \union {m}
    /\ toSave' = Tail(toSave) /\ saver' = "failed"
    /\ UNCHANGED <<progress, status, receive, child, engine>>

\* PipelineAction learns of the failure when it is not in receive.
RestartSaver ==
    /\ saver = "failed" /\ actor = "idle"
    /\ saver' = "up"
    /\ UNCHANGED <<progress, status, receive, child, toSave, remote,
                   brokenOff, engine>>

-----------------------------------------------------------------------------
Next ==
    \/ Submit
    \/ PipelineExecute \/ Create \/ Reloaded \/ Executed \/ Finish
    \/ Fail \/ Restart
    \/ \E a \in Action : Terminate(a)
    \/ \E c \in calls : \/ \E f \in Artifact : EngineWrites(c, f)
                       \/ Return(c) \/ CallFails(c)
    \/ CopyToRemote \/ CopyFails \/ RestartSaver

Spec == Init /\ [][Next]_vars

\* The actor gets on with receive, and Await has a time limit.  Nothing is
\* assumed of the engine: a call may last for ever.
Fairness ==
    /\ WF_vars(Create) /\ WF_vars(Reloaded) /\ WF_vars(Executed)
    /\ WF_vars(Finish) /\ WF_vars(Fail)

FairSpec == Spec /\ Fairness

-----------------------------------------------------------------------------
TypeOK ==
    /\ issued \in 0..MaxPipelines /\ handled \in 0..issued
    /\ status \in [Pipelines -> {"none", "Working", "Finished", "Failed"}]
    /\ actor \in {"idle", "busy", "restarting"}
    /\ step \in 1..(Len(PipelineActions) + 1)
    /\ at \in {"create", "reload", "execute"}
    /\ calls \subseteq [pipeline : Pipelines, action : Action,
                       kind : {"reload", "execute"}]
    /\ answered \in BOOLEAN
    /\ names \subseteq Action /\ stopping \subseteq names
    /\ toSave \in Seq([artifact : Artifact, protocol : Pipelines])
    /\ saver \in {"up", "failed"}
    /\ local \in [Artifact -> File]
    /\ remote \in [Pipelines -> [Artifact -> File]]
    /\ inputs \in [Action -> [Artifact -> File]]
    /\ brokenOff \subseteq [artifact : Artifact, protocol : Pipelines]
    /\ finishedLast \in BOOLEAN

\* An action is executed on the outputs of the actions before it in the same
\* pipeline, never on those of another pipeline, or on an incomplete file left
\* by a call that was given up.
FreshInputs ==
    actor = "busy" /\ at = "execute" =>
        \A i \in 1..(step - 1) :
            \A f \in Outputs(PipelineActions[i]) \intersect ArtifactsToLoad[Current] :
                inputs[Current][f] = handled

\* When a pipeline is Finished and the saver has nothing left to do for it,
\* each of its outputs is in the remote store, and complete.  Only if the copy of
\* that very output broke off can it be missing or torn, and only if a later
\* pipeline had started by then can it be that one's or torn, but never one of
\* an earlier pipeline, and never missing.
FinishedIsSaved ==
    \A p \in Pipelines :
        /\ status[p] = "Finished"
        /\ \A i \in DOMAIN toSave : toSave[i].protocol # p
        =>
        \A f \in UNION {Outputs(PipelineActions[i]) : i \in Steps} :
            \/ remote[p][f] = p
            \/ SaveToRemote(f, p) \in brokenOff /\ remote[p][f] \in {NoFile, Torn}
            \/ handled > p /\ remote[p][f] \in (p + 1)..handled \union {Torn}

\* Between two pipelines, a pipeline's status is Finished or not known: neither
\* Working nor Failed is ever told to a client.
OnlyFinishedIsTold ==
    actor = "idle" => \A p \in Pipelines : status[p] \in {"none", "Finished"}

\* A pipeline of different actions fails to make a child only if it directly
\* follows one that Finished, whose last children may not have terminated: what a
\* failed pipeline leaves behind never keeps the next one from its start.
NamesAreFree ==
    /\ actor = "busy" /\ at = "create" /\ step \in Steps
    /\ \A i, j \in Steps : PipelineActions[i] = PipelineActions[j] => i = j
    /\ Current \in names
    => finishedLast

\* What clients know of the pipelines.
clientView == [p \in Pipelines |-> IF status[p] # "none" THEN status[p]
                                   ELSE IF p > handled THEN "none"
                                   ELSE "forgotten"]

\* A client's view of a pipeline is the life cycle of a job: outcomes are final,
\* and are lost in a restart or when the cache is full, not otherwise.  With
\* fairness, a pipeline that was begun ends, whatever the engine does: receive
\* does not block for ever.
LifeCycle == INSTANCE JobLifeCycle WITH
    Key <- Pipelines, Room <- CacheSize, state <- clientView
ImplementsLifeCycle == LifeCycle!FairSpec
=============================================================================
