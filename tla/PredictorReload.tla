--------------------------- MODULE PredictorReload ---------------------------
(***************************************************************************)
(* How the online predictor of the engine executor (re)loads a model.      *)
(*                                                                         *)
(* Four actors and one outside process take part.  PredictorFSM (fsm,      *)
(* data, timeoutDue) answers the API and asks OnlineAction to reload.      *)
(* OnlineAction (mailbox, actor, phase, pending) asks the artifact saver   *)
(* (toSave, saver) to copy every artifact of the protocol to the local     *)
(* disk, and when all copies are answered asks OnlineActionProxy (toProxy, *)
(* rpc) to call the engine, a process of its own that reads the local      *)
(* files (loaded, served).  The outcome comes back to PredictorFSM as a    *)
(* message (answers).                                                      *)
(*                                                                         *)
(* Every Reload the FSM accepts opens a conversation, numbered 1..issued.  *)
(* The number is not in the code: it is the identity of the ask futures    *)
(* that belong to that reload.  A queue entry Request is an OnlineExecute  *)
(* or OnlineHealthCheck of a client, which the reload machinery does not   *)
(* tell apart.                                                             *)
(***************************************************************************)
EXTENDS Naturals, Sequences

CONSTANTS
    Protocol,        \* the protocols a client may ask for
    NoProtocol,      \* the empty (or null) protocol: "load what is on disk"
    Artifact,        \* artifact names
    ArtifactsToLoad, \* engineActionMetadata.artifactsToLoad, a sequence
    Version,         \* the protocol parts, i.e. names of stored artifacts
    Split,           \* what ProtocolUtil.splitProtocol yields for a protocol
    Unsplittable,    \* protocols for which splitProtocol throws
    Remote,          \* the <<artifact, version>> pairs in the remote store
    NoFile,          \* the local file does not exist yet
    Torn,            \* a copy broke off half-way
    MaxReloads,      \* bound: reloads the FSM accepts
    MaxQueued        \* bound: messages waiting in OnlineAction and its proxy

ASSUME ProtocolAssumption == NoProtocol \notin Protocol
ASSUME LoadAssumption == ArtifactsToLoad \in Seq(Artifact)
ASSUME SplitAssumption ==
    /\ Split \in [Protocol -> UNION {[S -> Version] : S \in SUBSET Artifact}]
    /\ Unsplittable \subseteq Protocol
ASSUME RemoteAssumption == Remote \subseteq Artifact \X Version
ASSUME FileAssumption == NoFile \notin Version /\ Torn \notin Version
ASSUME BoundAssumption == MaxReloads \in Nat /\ MaxQueued \in Nat

VARIABLES
    fsm,         \* PredictorFSM: stateName
    data,        \* PredictorFSM: stateData
    timeoutDue,  \* a StateTimeout that is still valid waits for the FSM
    answers,     \* the outcomes of reloads waiting in the FSM's mailbox
    issued,      \* number of reloads the FSM accepted so far
    protocol,    \* the protocol of each conversation
    phase,       \* how far OnlineAction is with each conversation
    pending,     \* the SaveToLocal asks of each conversation not answered yet
    mailbox,     \* OnlineAction's mailbox
    actor,       \* OnlineAction: "up" or "restarting"
    toSave,      \* the artifact saver's mailbox
    saver,       \* the artifact saver: "up" or "failed"
    toProxy,     \* OnlineActionProxy's mailbox
    rpc,         \* the reload the proxy's blocking call is for, 0 if none
    local,       \* the files on the local disk
    served,      \* engine: the last reload it carried out, 0 if none
    loaded,      \* engine: the files it read then
    alone        \* history: nothing of an older reload, nor a restart, was
                 \* under way when the latest one was issued

fsmVars == <<fsm, data, timeoutDue>>
conversation == <<issued, protocol, alone>>
engine == <<served, loaded>>
vars == <<fsm, data, timeoutDue, answers, issued, protocol, phase, pending,
          mailbox, actor, toSave, saver, toProxy, rpc, local, served, loaded,
          alone>>

-----------------------------------------------------------------------------
Reloads == 1..MaxReloads
Request == 0
Asks == DOMAIN ArtifactsToLoad
File == Version \union {NoFile, Torn}

NoModel     == [kind |-> "NoModel",  protocol |-> NoProtocol]
ToReload(p) == [kind |-> "ToReload", protocol |-> p]
Model(p)    == [kind |-> "Model",    protocol |-> p]

Answer(n, e) == [reload |-> n, event |-> e]
\* Mutant of SaveToLocal: the asks are counted from zero.
SaveToLocalFromZero(n, i) == [reload |-> n, ask |-> i - 1]

SaveToLocal(n, i) == [reload |-> n, ask |-> i]

Waiting == {"sent", "saving", "loading", "orphan"}

\* Some trace of conversation n is left anywhere: a message, a running call
\* or an ask that is still open.
InFlight(n) ==
    \/ phase[n] \in Waiting
    \/ \E i \in DOMAIN toSave : toSave[i].reload = n
    \/ \E i \in DOMAIN toProxy : toProxy[i] = n
    \/ rpc = n
    \/ \E i \in DOMAIN answers : answers[i].reload = n

\* The reload machinery has nothing left to do.
Idle ==
    /\ \A n \in Reloads : ~InFlight(n)
    /\ actor = "up" /\ saver = "up"

Init ==
    /\ fsm = "Unavailable" /\ data = NoModel /\ timeoutDue = FALSE
    /\ answers = <<>>
    /\ issued = 0 /\ alone = TRUE
    /\ protocol = [n \in Reloads |-> NoProtocol]
    /\ phase = [n \in Reloads |-> "none"]
    /\ pending = [n \in Reloads |-> {}]
    /\ mailbox = <<>> /\ actor = "up"
    /\ toSave = <<>> /\ saver = "up"
    /\ toProxy = <<>> /\ rpc = 0
    /\ local = [a \in Artifact |-> NoFile]
    /\ served = 0 /\ loaded = [a \in Artifact |-> NoFile]

-----------------------------------------------------------------------------
(* PredictorFSM.  Every message it handles re-arms the state timer, which   *)
(* makes a StateTimeout that is already in the mailbox void.                *)

AcceptReload(p) ==
    /\ fsm \in {"Unavailable", "Ready"}
    /\ issued < MaxReloads
    /\ issued' = issued + 1
    /\ protocol' = [protocol EXCEPT ![issued + 1] = p]
    /\ phase' = [phase EXCEPT ![issued + 1] = "sent"]
    /\ mailbox' = Append(mailbox, issued + 1)
    /\ fsm' = "Reloading" /\ data' = ToReload(p) /\ timeoutDue' = FALSE
    /\ alone' = Idle
    /\ UNCHANGED <<answers, pending, actor, toSave, saver, toProxy, rpc, local,
                   engine>>

\* A client's execute, health check or (when Reloading) reload is answered
\* with Status.Failure.
Refuse ==
    /\ fsm \in {"Unavailable", "Reloading"}
    /\ timeoutDue' = FALSE
    /\ UNCHANGED <<fsm, data, answers, conversation, phase, pending, mailbox,
                   actor, toSave, saver, toProxy, rpc, local, engine>>

Forward ==
    /\ fsm = "Ready"
    /\ Len(mailbox) + Len(toProxy) < MaxQueued
    /\ mailbox' = Append(mailbox, Request)
    /\ UNCHANGED <<fsmVars, answers, conversation, phase, pending, actor,
                   toSave, saver, toProxy, rpc, local, engine>>

\* Mutants of AfterAnswer: any outcome of the engine makes the FSM Ready; and
\* a failed ask, too, counts as a success.
AfterAnswerAnyOutcome(a) ==
    IF fsm = "Reloading" /\ a.event # "Failure"
    THEN fsm' = "Ready" /\ data' = Model(protocol[a.reload])
    ELSE UNCHANGED <<fsm, data>>

AfterAnswerTrusting(a) ==
    IF fsm = "Reloading" /\ a.event # "FailedToReload"
    THEN fsm' = "Ready" /\ data' = Model(protocol[a.reload])
    ELSE fsm' = (IF fsm = "Reloading" THEN "Unavailable" ELSE fsm) /\ UNCHANGED data

\* The FSM takes the next reload outcome from its mailbox.  Only in Reloading
\* does an outcome matter, Status.Failure does not even there, and nobody
\* compares it with the reload the FSM waits for.
AfterAnswer(a) ==
    /\ fsm' = IF fsm = "Reloading" /\ a.event = "Reloaded" THEN "Ready"
              ELSE IF fsm = "Reloading" /\ a.event = "FailedToReload"
                   THEN "Unavailable" ELSE fsm
    /\ data' = IF fsm = "Reloading" /\ a.event = "Reloaded"
               THEN Model(protocol[a.reload]) ELSE data

HandleAnswer ==
    /\ answers # <<>>
    /\ answers' = Tail(answers)
    /\ AfterAnswer(Head(answers))
    /\ timeoutDue' = FALSE
    /\ UNCHANGED <<conversation, phase, pending, mailbox, actor, toSave, saver,
                   toProxy, rpc, local, engine>>

\* Mutant of TimerFires: the state that has the timeout is Unavailable.
TimerFiresUnavailable ==
    /\ fsm = "Unavailable" /\ ~timeoutDue
    /\ timeoutDue' = TRUE
    /\ UNCHANGED <<fsm, data, answers, conversation, phase, pending, mailbox,
                   actor, toSave, saver, toProxy, rpc, local, engine>>

\* The state timer fires: no message was handled for reloadStateTimeout.
TimerFires ==
    /\ fsm = "Reloading" /\ ~timeoutDue
    /\ timeoutDue' = TRUE
    /\ UNCHANGED <<fsm, data, answers, conversation, phase, pending, mailbox,
                   actor, toSave, saver, toProxy, rpc, local, engine>>

HandleStateTimeout ==
    /\ timeoutDue
    /\ fsm' = "Unavailable" /\ timeoutDue' = FALSE
    /\ UNCHANGED <<data, answers, conversation, phase, pending, mailbox, actor,
                   toSave, saver, toProxy, rpc, local, engine>>

-----------------------------------------------------------------------------
(* OnlineAction                                                             *)

\* Asks 1..k go out before the loop ends, or meets an artifact the protocol
\* does not name and throws.
AsksSent(p, k) ==
    IF p \in Unsplittable THEN k = 0
    ELSE /\ \A i \in 1..k : ArtifactsToLoad[i] \in DOMAIN Split[p]
         /\ k # Len(ArtifactsToLoad) =>
               ArtifactsToLoad[k + 1] \notin DOMAIN Split[p]

Throws(p) ==
    \/ p \in Unsplittable
    \/ \E i \in Asks : ArtifactsToLoad[i] \notin DOMAIN Split[p]

\* OnlineReload with an empty protocol: forwarded, no ask and no timeout.
ReloadFromDisk ==
    /\ actor = "up" /\ mailbox # <<>> /\ Head(mailbox) # Request
    /\ LET n == Head(mailbox) IN
       /\ protocol[n] = NoProtocol
       /\ phase' = [phase EXCEPT ![n] = "loading"]
       /\ toProxy' = Append(toProxy, n)
    /\ mailbox' = Tail(mailbox)
    /\ UNCHANGED <<fsmVars, answers, conversation, pending, actor, toSave,
                   saver, rpc, local, engine>>

\* OnlineReload with a protocol: one SaveToLocal ask per artifact.  A bad
\* protocol throws out of receive: the conversation is lost, the actor
\* restarts, and what was already sent to the saver stays sent.
ReloadProtocol ==
    /\ actor = "up" /\ mailbox # <<>> /\ Head(mailbox) # Request
    /\ LET n == Head(mailbox) IN
       /\ protocol[n] # NoProtocol
       /\ \E k \in 0..Len(ArtifactsToLoad) :
             /\ AsksSent(protocol[n], k)
             /\ toSave' = toSave \o [i \in 1..k |-> SaveToLocal(n, i)]
       /\ IF Throws(protocol[n])
          THEN /\ phase' = [phase EXCEPT ![n] = "over"]
               /\ actor' = "restarting"
               /\ UNCHANGED pending
          ELSE /\ phase' = [phase EXCEPT ![n] = "saving"]
               /\ pending' = [pending EXCEPT ![n] = Asks]
               /\ UNCHANGED actor
    /\ mailbox' = Tail(mailbox)
    /\ UNCHANGED <<fsmVars, answers, conversation, saver, toProxy, rpc, local,
                   engine>>

PassRequest ==
    /\ actor = "up" /\ mailbox # <<>> /\ Head(mailbox) = Request
    /\ mailbox' = Tail(mailbox)
    /\ toProxy' = Append(toProxy, Request)
    /\ UNCHANGED <<fsmVars, answers, conversation, phase, pending, actor,
                   toSave, saver, rpc, local, engine>>

\* Mutant of AllSaved: the engine is called without waiting for the copies.
AllSavedTooEarly(n) ==
    /\ phase[n] = "saving"
    /\ phase' = [phase EXCEPT ![n] = "loading"]
    /\ toProxy' = Append(toProxy, n)
    /\ UNCHANGED <<fsmVars, answers, conversation, pending, mailbox, actor,
                   toSave, saver, rpc, local, engine>>

\* Future.sequence succeeds once every SaveToLocal was answered with Done.
AllSaved(n) ==
    /\ phase[n] = "saving" /\ pending[n] = {}
    /\ phase' = [phase EXCEPT ![n] = "loading"]
    /\ toProxy' = Append(toProxy, n)
    /\ UNCHANGED <<fsmVars, answers, conversation, pending, mailbox, actor,
                   toSave, saver, rpc, local, engine>>

\* An ask runs into reloadTimeout: the FSM gets Status.Failure, and what the
\* ask had put into the children's mailboxes stays there.
AskTimesOut(n) ==
    /\ \/ phase[n] = "saving" /\ pending[n] # {}
       \/ phase[n] = "loading" /\ protocol[n] # NoProtocol
       \/ phase[n] = "orphan"
    /\ phase' = [phase EXCEPT ![n] = "over"]
    /\ answers' = Append(answers, Answer(n, "Failure"))
    /\ UNCHANGED <<fsmVars, conversation, pending, mailbox, actor, toSave,
                   saver, toProxy, rpc, local, engine>>

\* The supervisor strategy escalates the saver's exception.
Escalate ==
    /\ saver = "failed" /\ actor = "up"
    /\ actor' = "restarting"
    /\ UNCHANGED <<fsmVars, answers, conversation, phase, pending, mailbox,
                   toSave, saver, toProxy, rpc, local, engine>>

\* A restart stops the children, once the proxy's blocking call has returned,
\* and drops their mailboxes, then makes new ones; the actor's own mailbox
\* stays.  Open asks are left with nobody to answer them.
Restart ==
    /\ actor = "restarting" /\ rpc = 0
    /\ actor' = "up" /\ saver' = "up"
    /\ toSave' = <<>> /\ toProxy' = <<>>
    /\ phase' = [n \in Reloads |->
                   IF phase[n] \notin {"saving", "loading"} THEN phase[n]
                   ELSE IF protocol[n] = NoProtocol THEN "over" ELSE "orphan"]
    /\ UNCHANGED <<fsmVars, answers, conversation, pending, mailbox, rpc,
                   local, engine>>

-----------------------------------------------------------------------------
(* The artifact saver                                                       *)

FileOf(m) == ArtifactsToLoad[m.ask]
VersionOf(m) == Split[protocol[m.reload]][FileOf(m)]

\* The saver copies the artifact if the remote store has it and answers Done
\* in any case.
Save ==
    /\ saver = "up" /\ toSave # <<>>
    /\ LET m == Head(toSave) IN
       /\ local' = IF <<FileOf(m), VersionOf(m)>> \in Remote
                   THEN [local EXCEPT ![FileOf(m)] = VersionOf(m)] ELSE local
       /\ pending' = [pending EXCEPT ![m.reload] = @ \ {m.ask}]
    /\ toSave' = Tail(toSave)
    /\ UNCHANGED <<fsmVars, answers, conversation, phase, mailbox, actor, saver,
                   toProxy, rpc, engine>>

\* The copy throws: before it began, or when the destination was removed or
\* written in part.
SaveFails ==
    /\ saver = "up" /\ toSave # <<>>
    /\ LET m == Head(toSave) IN
       /\ <<FileOf(m), VersionOf(m)>> \in Remote
       /\ \E left \in {local[FileOf(m)], NoFile, Torn} :
             local' = [local EXCEPT ![FileOf(m)] = left]
    /\ saver' = "failed"
    /\ toSave' = Tail(toSave)
    /\ UNCHANGED <<fsmVars, answers, conversation, phase, pending, mailbox,
                   actor, toProxy, rpc, engine>>

-----------------------------------------------------------------------------
(* OnlineActionProxy and the engine                                         *)

\* ExecuteOnline and HealthCheck are asynchronous calls: they do not hold up
\* the mailbox.
CallRequest ==
    /\ rpc = 0 /\ toProxy # <<>> /\ Head(toProxy) = Request
    /\ toProxy' = Tail(toProxy)
    /\ UNCHANGED <<fsmVars, answers, conversation, phase, pending, mailbox,
                   actor, toSave, saver, rpc, local, engine>>

\* RemoteReload is a blocking call: nothing else is handled until it returns.
CallReload ==
    /\ rpc = 0 /\ toProxy # <<>> /\ Head(toProxy) # Request
    /\ rpc' = Head(toProxy) /\ toProxy' = Tail(toProxy)
    /\ UNCHANGED <<fsmVars, answers, conversation, phase, pending, mailbox,
                   actor, toSave, saver, local, engine>>

\* The engine carries out the reload: it reads its files from the local disk.
EngineLoads == served' = rpc /\ loaded' = local

\* Mutant of Return: the proxy answers whoever is waiting, or not, by now.
ReturnAlways(event) ==
    /\ rpc # 0
    /\ rpc' = 0
    /\ phase' = [phase EXCEPT ![rpc] = "over"]
    /\ answers' = Append(answers, Answer(rpc, event))
    /\ UNCHANGED <<fsmVars, conversation, pending, mailbox, actor, toSave,
                   saver, toProxy, local>>

\* The call is over.  Its outcome reaches the FSM unless the ask behind it
\* has timed out.
Return(event) ==
    /\ rpc # 0
    /\ rpc' = 0
    /\ IF phase[rpc] = "loading"
       THEN /\ phase' = [phase EXCEPT ![rpc] = "over"]
            /\ answers' = Append(answers, Answer(rpc, event))
       ELSE UNCHANGED <<phase, answers>>
    /\ UNCHANGED <<fsmVars, conversation, pending, mailbox, actor, toSave,
                   saver, toProxy, local>>

ReloadSucceeds == Return("Reloaded") /\ EngineLoads

\* The engine refused, or it did load but its reply was lost.
ReloadFails ==
    /\ Return("FailedToReload")
    /\ EngineLoads \/ UNCHANGED engine

-----------------------------------------------------------------------------
Client ==
    \/ \E p \in Protocol \union {NoProtocol} : AcceptReload(p)
    \/ Refuse
    \/ Forward

Next ==
    \/ Client
    \/ HandleAnswer \/ TimerFires \/ HandleStateTimeout
    \/ ReloadFromDisk \/ ReloadProtocol \/ PassRequest
    \/ \E n \in Reloads : AllSaved(n) \/ AskTimesOut(n)
    \/ Escalate \/ Restart
    \/ Save \/ SaveFails
    \/ CallRequest \/ CallReload \/ ReloadSucceeds \/ ReloadFails

Spec == Init /\ [][Next]_vars

\* The actors keep working through their mailboxes and timers keep firing.
\* Clients need not send anything, a copy need not fail, and the engine's
\* blocking call has no deadline: nothing says that it ever returns.
Fairness ==
    /\ WF_vars(HandleAnswer)
    /\ WF_vars(TimerFires) /\ WF_vars(HandleStateTimeout)
    /\ WF_vars(ReloadFromDisk) /\ WF_vars(ReloadProtocol)
    /\ WF_vars(PassRequest)
    /\ \A n \in Reloads : WF_vars(AllSaved(n)) /\ WF_vars(AskTimesOut(n))
    /\ WF_vars(Escalate) /\ WF_vars(Restart)
    /\ WF_vars(Save)
    /\ WF_vars(CallRequest) /\ WF_vars(CallReload)

FairSpec == Spec /\ Fairness

-----------------------------------------------------------------------------
TypeOK ==
    /\ fsm \in {"Unavailable", "Reloading", "Ready"}
    /\ data \in [kind : {"NoModel", "ToReload", "Model"},
                 protocol : Protocol \union {NoProtocol}]
    /\ timeoutDue \in BOOLEAN
    /\ answers \in Seq([reload : Reloads,
                        event : {"Reloaded", "FailedToReload", "Failure"}])
    /\ issued \in 0..MaxReloads
    /\ protocol \in [Reloads -> Protocol \union {NoProtocol}]
    /\ phase \in [Reloads -> {"none", "over"} \union Waiting]
    /\ pending \in [Reloads -> SUBSET Asks]
    /\ mailbox \in Seq(Reloads \union {Request})
    /\ actor \in {"up", "restarting"}
    /\ toSave \in Seq([reload : Reloads, ask : Asks])
    /\ saver \in {"up", "failed"}
    /\ toProxy \in Seq(Reloads \union {Request})
    /\ rpc \in Reloads \union {0}
    /\ local \in [Artifact -> File]
    /\ served \in Reloads \union {0}
    /\ loaded \in [Artifact -> File]
    /\ alone \in BOOLEAN

(* The properties.  They are about reloads issued alone: the code promises  *)
(* nothing for those that overlap, and the runs that expect a violation     *)
(* show what overlapping does.                                              *)

\* When the FSM is Ready after a reload that overlapped no other, the model
\* it names is the one asked for last and the engine's last load was that
\* reload: FSM and engine agree on what is being served.
Agreement ==
    fsm = "Ready" /\ alone =>
        served = issued /\ data = Model(protocol[issued])

\* Then every artifact that the remote store has for that protocol is the
\* one the engine read, whatever older copies, torn copies or restarts left
\* on the disk.
FreshFiles ==
    fsm = "Ready" /\ alone /\ protocol[issued] # NoProtocol =>
        \A i \in Asks :
            LET a == ArtifactsToLoad[i]
                v == Split[protocol[issued]][a]
            IN  <<a, v>> \in Remote => loaded[a] = v

\* And nothing of any reload is left over: a client request that a Ready FSM
\* forwards is never held up by a blocking reload or a restart, and no late
\* call swaps the model under it.
ReadyIsQuiet ==
    fsm = "Ready" /\ alone => Idle

\* A conversation has at most one outcome, and once that is under way
\* neither an ask nor a call can produce another one.
OneOutcome ==
    \A i, j \in DOMAIN answers :
        /\ phase[answers[i].reload] = "over"
        /\ answers[i].reload = answers[j].reload => i = j

\* Nor later, when the FSM has handled that outcome and forgotten it: neither
\* an ask that times out nor a call that comes back late reopens a
\* conversation that is over, or tells the FSM of it again.
Told(n) == \E i \in DOMAIN answers : answers[i].reload = n

OutcomeIsLast ==
    [][\A n \in Reloads :
          phase[n] = "over" => phase'[n] = "over" /\ (Told(n)' => Told(n))]_vars

\* Once the clients fall silent the FSM leaves Reloading, even if the
\* conversation was lost in a restart or the engine never returns.
Settles ==
    <>[][~Client]_vars => (fsm = "Reloading" ~> fsm # "Reloading")

\* Where the outcome of a conversation is: still open, waiting for the FSM,
\* or over.
Answered(n, event) ==
    \E i \in DOMAIN answers : answers[i] = Answer(n, event)

Outcomes ==
    [n \in Reloads |->
        IF phase[n] = "none" THEN "none"
        ELSE IF phase[n] \in Waiting THEN "open"
        ELSE IF Answered(n, "Reloaded") THEN "loaded"
        ELSE IF Answered(n, "FailedToReload") THEN "failed"
        ELSE "over"]

Serving == INSTANCE ModelServing WITH
    None <- NoProtocol, Bound <- MaxReloads,
    state <- fsm, named <- data.protocol, outcome <- Outcomes

\* The actors together do what ModelServing promises, also for reloads that
\* overlap: PredictorFSM becomes Ready only by an outcome that the engine gave
\* for a reload, it uses no outcome twice however many come late, and it names
\* the protocol of the reload the outcome belongs to.
ImplementsModelServing == Serving!Spec

\* What the tests and log texts say, and the code does not keep: see the
\* runs that expect a violation.

\* PredictorFSMTest, "receive failure and go to Unavailable when Reloading":
\* a predictor that is Reloading, and answers clients meanwhile, does not
\* stay so.
LeavesReloading == fsm = "Reloading" ~> fsm # "Reloading"

\* PredictorFSM logs "Reloaded the model with success." when it becomes
\* Ready: the model is the one that was to be reloaded.
ReadyWithWhatWasAsked ==
    [][fsm = "Reloading" /\ fsm' = "Ready" =>
          data'.protocol = data.protocol]_vars

\* ArtifactFSSaver, "Validate if the protocol is correct": a protocol whose
\* artifacts are not in the remote store does not become the served model.
ReadyMeansStored ==
    fsm = "Ready" /\ data.protocol # NoProtocol =>
        \A i \in Asks :
            <<ArtifactsToLoad[i], Split[data.protocol][ArtifactsToLoad[i]]>>
                \in Remote

=============================================================================
