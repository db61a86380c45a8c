# Verification of marvin-engine-executor

The engine executor is the Scala process that puts an HTTP API in front of a
Marvin engine. The engine is a process of its own for each action and is called
by gRPC. The executor is built from Akka actors. What is hard about it is not
what one actor does with one message, but what happens when reloads, jobs and
pipelines overlap, a call or copy fails or comes late, or an actor is restarted
with work under way. That is what this project models, checks and proves.

Source paths below are relative to `src/main/scala/org/marvin/`.

## The system

| Part | State | Operations | Talks to |
|---|---|---|---|
| `GenericAPI` (`executor/api`) | none; a map of actors | one per route: execute, reload, health, status, metrics | *tells* reloads, jobs and pipelines (nobody answers them), *asks* for the rest with a timeout |
| `PredictorFSM` (`executor/statemachine`) | `Unavailable`, `Reloading`, `Ready`; the model's protocol; a state timer | reload, execute, health check, the outcomes of a reload | tells `OnlineAction`, which answers or pipes answers back |
| `OnlineAction` (`executor/actions`) | its two children | execute, reload, health check | asks the artifact saver, then `OnlineActionProxy`, in future callbacks |
| `OnlineActionProxy` (`executor/proxies`) | gRPC stubs | reload (blocking), execute and health check (asynchronous) | the engine |
| `BatchAction` (`executor/actions`), one for each of four actions | its children; a cache of execution statuses | execute, reload, metrics, health check, status | asks `BatchActionProxy`, then the saver, in callbacks |
| `BatchActionProxy` (`executor/proxies`) | gRPC stub | execute, reload, health check (all blocking) | the engine |
| `PipelineAction` (`executor/actions`) | a saver, a cache, a child while it works on an action | execute (blocks in `Await`), status | a `BatchActionProxy` for each action, the saver |
| `ArtifactFSSaver`, `ArtifactHdfsSaver`, `ArtifactS3Saver` (`artifact/manager`) | none; local and remote files | save to local, save to remote, get artifact | file systems and stores |
| `ProtocolUtil` (`util`) | none | generate a protocol, split one into artifacts | |
| `LocalCache` (`util`) | up to 10000 entries, 30 days | load, save | |
| `EngineExecutorApp`, `ExecutorManager` | start-up, actors that may be stopped | boot, stop an actor | all |
| the engine | the loaded model; the local files it writes | `RemoteExecute`, `RemoteReload`, `HealthCheck` | external |

All savers of one JVM, and the engines, share the local disk: the path of a local
file depends on the engine's name and the artifact only, not on the protocol
(`ArtifactFSSaver.generatePaths`). Most of the hazards below come from there, or
from restarts.

What makes each part correct:

- **Predictor reload**: a `Ready` predictor serves the model that was asked for
  last, made from that protocol's files; `Ready` means that nothing of a reload
  is left over; `Reloading` ends.
- **Batch action**: `Finished` means that the job's own outputs are stored; an
  outcome is final; no job is `Working` for ever; a reload reads the files that
  it named.
- **Pipeline**: an action reads the outputs of the actions before it, not those
  of another pipeline; `Finished` means that the outputs get stored; the blocking
  `receive` ends.
- **Protocols**: an artifact comes from the last part of the protocol that
  produced it; a bad part makes the whole protocol bad.
- **API**: a request reaches an actor that can handle it; a job whose protocol was given
  out is known when it is asked for, and is begun in the end.
- **Cache**: a status is lost in a restart or when the cache is full, not otherwise,
  and a job that was evicted while it was `Working` is known again when it ends.
- **Savers**: `Done` means that the file was copied, if nobody else wrote it
  meanwhile; what is stored stays as it is; a saver that works alone fails only
  if the file system does.

`PROJECT.json` lists the hazards, each at its line, with the properties that
cover it.

## The modules

| Module | Models | Run by |
|---|---|---|
| `ProtocolUtil` | `splitProtocol` as a fold over the parts | (used by the next ones) |
| `SplitLoop` | the loop of `splitProtocol`, one turn a step; **proofs** | `MCSplitLoop` |
| `PredictorReload` | `PredictorFSM`, `OnlineAction`, `OnlineActionProxy`, the saver and the engine during reloads | `MCPredictorReload` |
| `PredictorReloadProofs` | **theorems** about `PredictorReload` | |
| `ModelServing` | abstract: what the predictor promises about the model it names; `PredictorReload` implements it | `MCPredictorReload` |
| `PredictorServingProofs` | **theorem**: that refinement | |
| `LocalCache` | the cache of statuses, with eviction | (used by the next two; `GenericAPI` has the keys alone) |
| `BatchAction` | `BatchAction`, `BatchActionProxy`, the saver and the engine | `MCBatchAction` |
| `BatchActionProofs` | **theorems** about `BatchAction` | |
| `PipelineAction` | `PipelineAction`, its children, the saver and the engines | `MCPipelineAction` |
| `PipelineActionProofs` | **theorems** about `PipelineAction` | |
| `MailboxLemmas` | lemmas about sequences as mailboxes, cited by the proofs | |
| `JobLifeCycle` | abstract: what clients may rely on when they ask for a status; `BatchAction` and `PipelineAction` implement it | `MCBatchAction`, `MCPipelineAction` |
| `ArtifactSavers` | the savers of all actors of one JVM, of each of the three classes, on one local disk and one store | `MCArtifactSavers` |
| `ArtifactSaversProofs` | **theorems** about `ArtifactSavers` | |
| `GenericAPI` | the API's routes and asks, how each actor takes its requests, the first reload, `ExecutorManager` | `MCGenericAPI` |
| `GenericAPIProofs` | **theorems** about `GenericAPI` | |

Conventions common to them:

- A mailbox is a sequence. A handler is one action: it takes the first message and
  does everything the handler does. A future callback is an action of its own,
  since it runs beside the actor.
- A reload, a job or a pipeline has a number in the order of its arrival. The code
  has no such number; it stands for the ask futures that belong to it, or for the
  protocol that the API generated for it (a random UUID, so no two are equal).
- A timer may fire at any time while what it waits for is open; durations are not
  modelled. So nothing depends on how the configured timeouts compare.
- A file's content is the run it came from, or `Torn` if a copy or a write was
  broken off, or `NoFile`.
- A restart (Akka's default for an exception in `receive`) stops the children,
  waits for one that is in a blocking call, drops their mailboxes, and makes a
  new instance; the actor's own mailbox stays. Between the exception and the end of the
  restart the children may still take messages, since the order to stop
  travels to them asynchronously.
- Operators named in a comment that begins with "Mutant of" are slips that could
  have been made in the definition below them. They are used only to show that a
  property notices them.

**PredictorReload.** `fsm`, `data`, `timeoutDue` are the FSM (`AcceptReload`,
`Refuse`, `Forward`, `HandleAnswer`, `TimerFires`, `HandleStateTimeout`). A
`StateTimeout` that waits in the mailbox becomes void when another message
is handled first, as Akka's FSM does by numbering its timers. `ReloadFromDisk`,
`ReloadProtocol`, `PassRequest` are `OnlineAction.receive`; `AllSaved` and
`AskTimesOut` its callbacks; `Escalate` and `Restart` its supervisor strategy: an
exception of the saver is not a `StatusRuntimeException` and is escalated, which
restarts `OnlineAction`. `ReloadProtocol` may send some asks and then
throw. `Save`/`SaveFails` are the saver, `CallReload`/`Return` the proxy, and
`EngineLoads` the engine, which reads its files when it reloads. `alone` is a
history variable: it says that nothing of an earlier reload was left when the
latest one was issued.

**ModelServing.** A reload is accepted, has an outcome of the engine or loses
it, and the outcome is noted once or never (`Accept`, `Answer`, `Lose`, `Note`); the
predictor gives up waiting when it likes (`GiveUp`). Mapped to it, a conversation is
`open` while its ask or call is, `loaded` or `failed` while that outcome waits in
the FSM's mailbox, and `over` after that; `Status.Failure` is a lost outcome. So
the refinement (`ImplementsModelServing`) says, also for reloads that overlap, that
`Ready` is always due to an engine that loaded a model, that no outcome counts twice,
and that the FSM names the protocol of the reload whose outcome it was (which need not
be the reload it was waiting for).

**JobLifeCycle.** A job is accepted, ends once, and may be forgotten, by a restart or by
an eviction when there is no room. The mapping reads the cache for the jobs that it
has, and the progress of the job for the others.

**LocalCache.** `Saved` gives the caches that a `save` may leave. A Guava cache evicts
when it gets full, and its segments may do so a little earlier than the whole:
the models take any other entry, once there is one too many (`CacheSize`).

**ArtifactSavers.** Each saver takes a message (`Take`), looks whether the
origin exists (`Found`, `Missing`), with FS replaces the destination (`Replace`),
opens it (`Open`), writes it (`Write`) and answers (`Done`), and other savers
and engines go on between these steps. `Closed` is the HDFS file system that another saver
has closed: `FileSystem.get` caches instances, and `close` takes the instance out
of the cache, so the next `get` makes a new one. `crc` is the checksum file that
Hadoop's local file system writes beside a copy to the local disk; an engine that writes
the file in place makes it `stale`, and a copy to the remote store that meets a stale one
fails and sets the local file aside. `own`, `undisturbed`, `alone` and `stored` are
history: whether the local file is still the engine's, whether somebody
else touched the file during the request, whether anybody else was at work, and
whether the store had the file. `last` is the request that the last step ended.

**BatchAction.** `status` is the cache, `phase`/`pending` follow a job's asks,
`loading`/`awaiting` a reload's. Clients' messages are handled as they come (an
actor that is restarting makes them wait). `EngineWrites` lets the engine write its
output files one by one, half or whole, while its call lasts, so a saver may
copy a file that is being written. The proxy and the saver have the default
supervision here: an exception restarts that child alone, which keeps its
mailbox, and leaves the ask to its timeout. `overtaken` is a history variable.

**PipelineAction.** `receive` is a sequence of steps, during which the actor
handles neither messages nor notices about children. So a child that was stopped
keeps its name until `receive` has ended (`names`, `stopping`), and a saver that
failed stays suspended (`saver`). An endless call makes `Await` give up, after
which the restart waits for that call. `finishedLast` is a history variable: whether the
last pipeline to end was `Finished`, whose children may still have their names, or
failed, which ends with a restart.

**GenericAPI.** `Messages` lists what the routes send; `Reject`, `Tell` and `Ask` are
what they do with it. An asked actor takes the request (`Forward`, `AskProxy`,
`BatchMetrics`) and asks a child; `Pipe` hands the child's outcome to the
first asker, if the inner ask is still open (`inner`), and `Reply` makes the HTTP
status of the first outcome of the outer ask (`Code`: 200 for an answer, 503 for an engine
that is not well, a model that is not available and a job that is not found,
500 for a timeout or an error of the engine, 400 for what is rejected). `calls` are
requests at an asynchronous stub, answered in any order; `rpc` is the one the
blocking stub of the batch proxy is at. Reloads, jobs and pipelines are
reduced to when they begin and end (`working`, `BatchEnds`, `PipelineEnds`) and whether the
actor restarts, since the other modules have the rest. `cache` holds the protocols with a
status; `Save` may evict one when there is no room for all. A pipeline blocks its actor
while it is `working`, a batch job does not. That an answer goes to the client that asked
is how Akka makes its ask futures, and so is the timeout of each: the model has both by
construction, and no property states them. `ignored` and `forgotten` are history
variables. Request 0 is the reload of the start-up.

## What the runs check

| Run | Instance | Shows |
|---|---|---|
| `predictor_reload` | 2 reloads, five kinds of protocol, 2 artifacts, one missing in the store, 1 client request queued | `TypeOK`, `Agreement`, `FreshFiles`, `ReadyIsQuiet`, `OneOutcome`, `OutcomeIsLast`, the refinement `ImplementsModelServing`, and with fairness `Settles` |
| `batch_jobs` | trainer, which here makes the metrics too: 2 jobs, 1 reload, 1 query, a cache of 1 | `TypeOK`, `OwnOutput`, `MetricsAreNotOlder`, the refinement `ImplementsLifeCycle` |
| `batch_reloads` | evaluator: 1 job, 2 reloads, 2 artifacts to load, one missing | `LoadsWhatWasNamed`, and with fairness `JobEnds` and `RestartEnds` |
| `pipelines` | 2 pipelines of 3 actions, a cache of 1 | `TypeOK`, `FreshInputs`, `FinishedIsSaved`, `OnlyFinishedIsTold`, `NamesAreFree`, and with fairness the refinement `ImplementsLifeCycle` |
| `artifact_savers` | FS, HDFS or S3; 3 savers, 2 artifacts, 1 run of each engine after the stored one, 3 messages | `TypeOK`, `StoresOwnOutput`, `CopiesWhatWasNamed`, `AloneNeverFails`, `StoredForGood`, and with fairness `WorkEnds` |
| `api_requests` | 3 requests to one action, which may be stopped, a cache of 1 | `TypeOK`, `AcceptedIsFound`, and with fairness `AcceptedBegins` |
| `split_protocol` | all protocols of up to 3 parts over 5 names | `TypeOK`, `LastWins`, `AllOrNothing`, `ReturnsTheFold` |
| `reload_polled` | as `predictor_reload` | violated: clients that poll keep a lost reload in `Reloading` |
| `reload_wrong_model` | good protocols | violated: a late answer of an older reload makes the FSM `Ready` |
| `reload_not_stored` | a protocol with an artifact missing | violated: it is served all the same |
| `batch_job_forgotten` | as `batch_jobs` | violated: a bad reload makes accepted jobs "not found" |
| `api_feedback_reload` | 2 requests | violated: a reload of the feedback action is told to be in progress, and ignored |

Bounds. Two reloads (jobs, pipelines) are the least for one to overlap, follow or
be followed by another; two artifacts the least for one to be copied and the other not, and for
an ask to go out before a throw; one client message is enough to stand in a queue
before or behind anything else. Three actions are the least for a pipeline with an
action that has one before and one after it. What is proved (see
below) holds for all bounds, so those runs need not be larger. Three requests to the API are the
least for a job, a reload that restarts its actor, and a question about that job. In
one behaviour they all go to the predictor, to the feedback, to the batch or to the
pipeline action (`Together`): the actions share no actor, so their interleavings would add
nothing but time. The proofs are about every mixture.

A cache of one entry overflows with the second job or pipeline, which is
when eviction happens, also in `api_requests`; with room for all (`batch_job_forgotten`) only restarts forget. Three savers
are the least for two to copy one artifact to and from the same local file while
a third one closes the file system over another artifact; three messages
(`MaxAsks`) let each have one, or one saver two; one run (`MaxRuns`) beside run 0,
whose output the store may have, makes files of two ages.

`CHECK_DEADLOCK` is off: when all reloads, jobs or pipelines that the bound
allows are done, the system rests.

What the properties say about overlapping is part of what was found out. The
predictor's invariants hold for a reload issued when nothing else is
under way (`alone`); for overlapping ones the code gives no guarantee, as
`reload_wrong_model` shows. `OwnOutput` says that a job overtaken by a later one
may have that one's output, or half of it, stored as its own, but never an older
one's. A copy that throws may leave the file that was there, none, or a torn one, and the
code notices none of the three when it goes on to the next message. So `FinishedIsSaved`
excuses an output whose own copy broke off (`brokenOff`, a history variable), which may be
missing or torn, while one that was copied whole is there, or a later pipeline's; and
`LoadsWhatWasNamed` lets an engine find nothing or a torn file where a later reload's copy
broke off, but never an older file. `AcceptedIsFound` excuses two things: a restart, and
more jobs of the action before the question than the cache has room for. `OnlyFinishedIsTold` says that a pipeline's failure is never told: the
status `Failed` is saved, and the restart that follows forgets it, and forgets all
`Finished` pipelines as well; nor can a client read `Working`, since
`receive` is busy then. `RestartWithCache`, a mutant, shows that keeping the cache
alone would not do: the saver's mailbox is lost in the same restart.

## Fairness

- `PredictorReload`: weak fairness of the actors' handlers, of callbacks and timers,
  and of the saver. None for the engine's reply (`ReloadSucceeds`, `ReloadFails`): a
  blocking call has no deadline. None for clients or for failures. `Settles`
  is about the time after which clients send nothing; `reload_polled` shows why.
- `BatchAction`: callbacks, ask timeouts and the restart. `JobEnds` needs neither the
  engine nor the saver nor the actor. `RestartEnds` is about behaviours in which the
  proxy is between two calls again and again: no fairness says that a call ends.
- `PipelineAction`: the steps of `receive`, and the time limit of `Await`. Nothing for
  the engine.
- `ArtifactSavers`: each saver goes on, since an operation of a file system or a store
  ends, well or not (Hadoop's and Amazon's clients have time limits of their own).
  Nothing for engines and clients.
- `GenericAPI`: a batch or pipeline actor takes its messages, a pipeline ends, since
  `Await` has a time limit, and a restart ends. The last is so unless a child is in a call
  that never returns: for the batch action `AcceptedBegins` says it itself (it is about
  behaviours in which `rpc` is free again and again), for the pipeline, whose calls are
  not in this module, it is assumed. Nothing for engines, savers, timers and clients.

Akka's dispatcher runs every actor with a message, every callback and every timer
eventually; that is what weak fairness of these actions says.

## What is proved

TLAPS checks these for every set of protocols, artifacts, savers, stored versions and
every bound; the assumptions are the `ASSUME`s of the modules (types of the
constants, that `NoProtocol`, `NoFile`, `Torn`, `Idle`, `Local` and `None` are none of the
values they stand beside, and for a batch action that its metadata names an artifact once).
So the safety properties of all passing runs are proved, not only checked.

- `PredictorReloadProofs`: `Types` (`[]TypeOK`), `ReadyAgrees` (`[]Agreement`),
  `ReadyFresh` (`[]FreshFiles`), `ReadyQuiet` (`[]ReadyIsQuiet`), `OutcomeOnce`
  (`[]OneOutcome`), `OutcomeFinal` (`Spec => OutcomeIsLast`).
- `PredictorServingProofs`: `ServesWhatWasLoaded` (`Spec => ImplementsModelServing`).
- `BatchActionProofs`: `Types` (`[]TypeOK`), `StoresItsOutput` (`[]OwnOutput`),
  `AnswersNotOlder` (`[]MetricsAreNotOlder`), `ReadsWhatWasNamed`
  (`[]LoadsWhatWasNamed`), `IsALifeCycle` (`Spec => ImplementsLifeCycle`),
  `OutcomesStand` (an outcome that a client has read stands until it is forgotten).
- `PipelineActionProofs`: `Types` (`[]TypeOK`), `ExecutesOnItsInputs` (`[]FreshInputs`),
  `SavesWhatFinished` (`[]FinishedIsSaved`), `TellsOnlyFinished` (`[]OnlyFinishedIsTold`),
  `FindsNamesFree` (`[]NamesAreFree`), and `IsALifeCycle` (`Spec => LifeCycle!Spec`, the
  safety part of `ImplementsLifeCycle`), `OutcomesStand` (as for the batch action).
- `ArtifactSaversProofs`: `Types` (`[]TypeOK`), `StoresTheOutput` (`[]StoresOwnOutput`),
  `KeepsWhatIsStored` (`Spec => StoredForGood`), `FetchesTheFile`
  (`[]CopiesWhatWasNamed`), `FailsOnlyForOthers` (`[]AloneNeverFails`), `WorkGetsLess`
  (a saver's steps only ever leave it less to do).
- `GenericAPIProofs`: `Types` (`[]TypeOK`), `AcceptedJobsAreFound` (`[]AcceptedIsFound`).
- `SplitLoop`: `Types` (`[]TypeOK`), `SplitLastWins` (`[]LastWins`), `SplitAllOrNothing`
  (`[]AllOrNothing`), `LoopIsTheFold` (`[]ReturnsTheFold`), and `MeetsSplitAssumption`:
  what the loop returns is what `PredictorReload` assumes of `Split`.

The argument for the predictor. `Agreement`, `FreshFiles` and `ReadyIsQuiet` speak of
`Ready` states only and are not inductive: how the FSM came to be `Ready` is in
messages, asks and calls elsewhere. `IInv` (theorem `Inductive`) says where
everything is at each stage of a reload that was issued alone (`Stages`): sent,
when all else is idle; saving, when each `SaveToLocal` in the saver's mailbox is
still pending and the artifacts no longer pending are fresh on the disk; loading, when
all are fresh and exactly one call is queued or running; answered, when an outcome
`Reloaded` in the FSM's mailbox implies that the engine has loaded the fresh files
and nothing is left. If the saver fails, some ask stays open, so the
stage of loading is never reached. Numbers, places in the mailbox and outcomes are
used once whatever overlaps (`Ordered`). `OutcomeIsLast` is about two states at different
times, between which the FSM forgets an outcome: `StepFinal` shows that a step which tells
one belongs to a conversation that is not over yet.

The refinement uses from the same invariant that conversations are numbered in
order (`Numbered`), are `sent` while they are in a mailbox (`Queued`) and have one
outcome (`OneOutcome`), and in addition that only a reloading FSM has a timeout to
handle (`TimerIsDue`). Three lemmas say what a step does to the mapped outcomes: none
of its own and some conversations lost (`PhaseStep`), one outcome more (`AnswerStep`), one
taken from the mailbox (`NoteStep`); every other step is invisible (`Stutter`).

The argument for the batch action. `OwnOutput` speaks of the store, `MetricsAreNotOlder`
of the disk and `LoadsWhatWasNamed` of the engine, and each was put there by messages
and calls sent long before. Three parts of `IInv` follow them. `Executions`: the calls
that are queued or running (`Turns`) come in the order of the jobs (`CallOrder`), and
none is of a job that has had its answer (`HasOutput`) or of an earlier one; so what a
job left on the disk is replaced by later jobs only (`NotOlder`). `Copies`: a copy is
asked for once (`SaveOrder`) and is then pending, so when none is pending each artifact
was copied after the job had its output, and no message is left that could replace it
(`Own`). `Fetches`: of two copies of one artifact to the disk the one for the later
reload comes later, so what a reload has fetched (`Fetched`) is replaced, or removed or
torn by a copy that breaks off, by later reloads only, also while its own call waits in the proxy's mailbox. That an overtaken
job is in `overtaken` needs that jobs are accepted in order (`InOrder`). `Told` relates
the cache to the phases, and gives the refinement (`StepSimulates`): an answer or a timer
counts in one phase only, so no outcome is told twice. That it stands (`OutcomesStand`)
follows from `JobLifeCycle` alone (`OutcomeStays`). Orders in mailboxes are kept by
taking the first message and appending greater ones (`Chain`, in `MailboxLemmas`).

The argument for the pipeline. What an action reads was written by calls that may have
been given up, so `FreshInputs` needs to know which calls exist: `CallsOfLatest` says that
they are all of the pipeline in `receive`, and none but the awaited one while it is
busy, which holds because a restart waits for the call that `Await` gave up. From that
follow `Written` (the outputs of the actions executed so far are on the disk, but for
those that the current action is writing again) and `HasRead` (a reload reads them).
`AllKept` follows each output of a `Finished` pipeline from the saver's mailbox to the
store: a copy is its own, a later pipeline's or torn, since a file is never again one
of an earlier pipeline, and it is lost only with the message whose copy broke off
(`brokenOff`). A local file that waits to be copied is torn only if a later call may be
writing it (`MayBeTorn`). `Told` says what the cache holds at each stage of `receive`,
and gives the refinement: only the pipeline in `receive` is `Working`, so an eviction
takes an outcome that was told, and never one under way (`SavedBecomes`).
`NamesOfLatest` says whose children's names are taken.

The argument for the savers. The properties speak of the step that ends a request,
and what it finds was made by steps of several savers and engines before. `IInv` says of
each saver at work what the others cannot have done to it. A request to store a run is made
once, after that run (`Requests`), and is then in one mailbox or with one saver (`Once`).
So its remote file is absent or torn until that saver has written it (`Unsaved`), and a
remote file that is whole is never touched again: this is `StoredForGood`, and why a
saver that fetches a file still has it whole at the end (`Fetching`). Local files are
shared, and there the argument is about marks: whoever writes or unlinks one takes the
artifact out of `own` and takes `undisturbed` from the others that handle it (`Touches`,
`Keeps`). So a file in `own` is the engine's last run (`OwnFiles`), a saver that stores it
has read that run (`Storing`), and a saver that was not disturbed finds what it wrote
(`Fetching`). `Alone` says that nobody is at work beside a saver marked `alone`, since
each `Take` takes that mark from the others; so its file system is open and
what it has checked is still so. A checksum file is there only if some action
loads the artifact (`Checksums`).

`WorkGetsLess` is the part of `WorkEnds` that can be proved. What is left for a saver is a
number (`Left`): six for each message, and the distance of its request from the end. Each
step of the saver makes it less, the steps of engines and other savers leave it alone, and a
new message adds six. So a saver that goes on at all gets through its mailbox; that it goes
on is fairness.

The argument for the API. `AcceptedIsFound` is about an order: requests get their numbers
as they arrive (`Numbered`), a client can only ask for a job that was accepted before
(`Named`), and the mailbox of a batch action has its messages in that order (`Queued`). An
accepted job is in the mailbox, in the cache or forgotten, unless the actor has handled more
jobs than there is room for (`Kept`). When its status request is the head of the mailbox,
nothing earlier is left in it, so the job was handled before (`Handled`). That eviction
does no more than this needs `Cached`: what the cache holds and what is under way, whose
end is saved again, was handled by the actor, so a cache that overflows shows that so many
jobs were (`MoreRequests`). Each step is seen as taking some jobs from the mailbox, or
seeing them end, and saving these in the cache (`JobsAdded`). An answer that is piped from a
child never tells of a job, since only a status request is about one (`Served`). Of an actor
that was stopped no request is handled at all.

The argument for `splitProtocol` is the loop invariant: the map holds, for each
artifact of the parts passed so far, the last of them that produced it. `ReturnsTheFold`
compares the loop with a recursive function of the sets of positions. The provers cannot do
an induction over its argument, but the loop does it for them: `Folds` says that the positions
passed so far can be folded, and that every fold of all positions agrees with the map so
far, and each turn carries both on by one position (`FoldOneMore`, `StepFolds`).

## Only model-checked

Liveness (`Settles`, `JobEnds`, `RestartEnds`, `WorkEnds`, `AcceptedBegins`,
and that pipelines end, which is part of `ImplementsLifeCycle`), which is out of the provers'
reach, as is `ENABLED`. The properties of runs that expect a violation do not hold.

## Assumptions about what is not in the repository

- The engine writes its outputs during its `RemoteExecute` call and has written all
  of them when it answers; it reads its files during `RemoteReload`. A call that
  ended, even in an error, writes no more. (An engine that goes on after the
  connection broke would be outside the model.)
- `java.nio.file.Files.copy` with `REPLACE_EXISTING` removes the destination, creates it
  (and fails if it exists again), copies, and removes it if the copy breaks off. So one that
  throws leaves the old file, if it failed before that, or none; and a torn one, if
  removing it fails as well.
- Hadoop: `FileSystem.get` returns the cached instance for all callers of one JVM,
  `close` closes that one for all, and any later use of it throws. `exists` on a
  `java.io.File`, which `validatePath` uses for local paths, does not go through it.
  The local side of a copy is a `LocalFileSystem`, which keeps and checks `.crc` files.
- Amazon S3: an object appears whole or not at all; a download is written in place.
- Akka delivers messages between local actors in order and without loss, other
  than by restarts and stops. gRPC and the file systems may fail in any way the
  code can see.

## Not modelled

- JSON, which payloads a schema rejects, static documentation, logging, configuration
  files: I/O and pure functions. What is sent to engines other than the fact of a call.
- `src/main/resources/docs/`: the bundles of swagger-ui, minified JavaScript of a third
  party, which the API serves as static files and no code of the executor calls. They
  are the only JavaScript in the repository; the program is in Scala.
- `ExecutorClusterListener`: logs events, and nothing uses it.
- The restart limit of `OnlineAction`'s supervisor (10 in a time range): a
  frequent failure would stop the child for good.
- The cache's life time (30 days) and the executors that the API makes for
  each request and nobody shuts down: the models have neither time nor threads.
- The S3 saver's remote path, which begins with "null" unless the configured one
  starts with "/": a pure function of the configuration.

`ArtifactFSSaver.GetArtifact` reads a path that does not depend on the protocol, so the
metrics a client gets need not be of the run it names, though lines 82-86 speak of a
protocol that is validated. `MetricsAreNotOlder` says what holds: they are
never of an older run than a `Finished` one that was asked for. The HDFS and S3 savers do not
handle `GetArtifact` at all: with them every request for metrics ends in a timeout.

## Plan

Done: `ProtocolUtil`, `SplitLoop`, `PredictorReload`, `BatchAction`, `PipelineAction`,
`ArtifactSavers` and `GenericAPI` with their proofs, `LocalCache`; the
abstract specifications `ModelServing` (implemented by `PredictorReload`, proved) and
`JobLifeCycle` (implemented by `BatchAction`, proved, and `PipelineAction`, its safety proved).

Not done:

1. A composition of the actions with `ArtifactSavers`, in which a pipeline runs beside
   batch jobs. `ArtifactSavers` takes any order of messages and engine runs instead, so what
   is proved of it (`StoresOwnOutput`, `CopiesWhatWasNamed`, `StoredForGood`) holds beside any
   actor.
2. A refinement from the savers of `ArtifactSavers`, which copy in several steps, to those of
   `BatchAction` and `PipelineAction`, which copy in one. It is not a step-by-step one: which
   content a copy gets is settled only by its last step. A copy that overlaps a write of
   the engine yields the old file, the new one or a torn one, and one step can read all of
   these too, since the engine leaves the file torn half-way; reloads in these modules name
   files that were stored before, not one that is being stored. `StoresOwnOutput` and
   `CopiesWhatWasNamed` say of the steps what the actions rely on.
