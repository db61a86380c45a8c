------------------------------ MODULE GenericAPI ------------------------------
(***************************************************************************)
(* How requests to the HTTP API are answered.                              *)
(*                                                                         *)
(* A request is rejected, or told to an actor and answered at once, or     *)
(* asked of an actor, whose answer, failure or silence becomes the HTTP    *)
(* response.  An asked actor asks a child of its own in turn and pipes the *)
(* outcome to the first asker.  So two timers run for most requests, and   *)
(* the answers of the asynchronous proxies come in any order.              *)
(*                                                                         *)
(* Requests are numbered in the order of their arrival; the number also    *)
(* stands for the ask futures made for a request, and for the protocol     *)
(* that the API generates for a job.  Request 0 is the reload that         *)
(* EngineExecutorApp sends before the server starts.  One batch action     *)
(* stands for all four, which are instances of one class and share no      *)
(* actor; "predictorActor" is the OnlineAction behind the predictor's FSM. *)
(* How a reload or a job goes on is the business of PredictorReload,       *)
(* BatchAction and PipelineAction, here it just takes any time and ends    *)
(* well or badly.                                                          *)
(***************************************************************************)
EXTENDS Naturals, Sequences, FiniteSets

CONSTANTS
    MaxRequests, \* bound: requests that arrive
    MaxStops,    \* bound: actors that the administrator stops
    Together,    \* bound: the sets of actions that are requested or stopped
                 \* in one behaviour
    CacheSize,   \* bound: statuses that a cache has room for
    None         \* no request, no response

Requests == 1..MaxRequests
Ids == 0..MaxRequests

Online == {"predictor", "feedback"}
Batch == {"batch", "pipeline"}

HttpRequest == [kind : {"execute", "reload", "health", "status", "metrics"},
                action : Online \union Batch, protocol : Ids]
HttpResponse == {200, 400, 500, 503}

ASSUME BoundAssumption ==
    MaxRequests \in Nat /\ MaxStops \in Nat /\ CacheSize \in Nat
ASSUME TogetherAssumption == Together \subseteq SUBSET (Online \union Batch)
ASSUME NoneAssumption == None \notin Nat \union HttpRequest

VARIABLES
    request,    \* the request of each number
    http,       \* the response to each request
    fsm,        \* PredictorFSM: stateName
    mailbox,    \* of each actor
    inner,      \* the ask that an actor made of its child for a request
    toProxy,    \* the mailbox of each proxy
    calls,      \* requests the asynchronous stubs wait for
    rpc,        \* the request that the batch proxy's blocking call is for
    toSave,     \* the mailbox of the batch action's artifact saver
    cache,      \* the jobs whose status a batch or pipeline actor has
    working,    \* the jobs that its present instance has under way
    restarting, \* actors that an exception stopped and that will be restarted
    stopped,    \* actors that the administrator stopped
    ignored,    \* history: requests told to an actor that did nothing with them
    forgotten   \* history: jobs whose status a restart deleted

actors == <<fsm, mailbox, cache, working, restarting, stopped>>
asks == <<inner, toProxy, calls, rpc, toSave>>
history == <<ignored, forgotten>>
vars == <<request, http, actors, asks, history>>

-----------------------------------------------------------------------------
Actors == Online \union Batch \union {"predictorActor"}
Proxies == {"predictorActor", "feedback", "batch"}

Message(k, a, p) == [kind |-> k, action |-> a, protocol |-> p]

Arrived == {r \in Requests : request[r] # None}
Told(m) == m.kind = "reload" \/ (m.kind = "execute" /\ m.action \in Batch)
Jobs == {r \in Arrived : Told(request[r]) /\ request[r].kind = "execute"}

\* The jobs whose protocol a client got.
Accepted == {r \in Jobs : http[r] = 200}

\* The HTTP status of each outcome of an ask: a string, a health status, or a
\* failure, which GenericAPIHandlers.exceptions tells apart.
Code == [answer |-> 200, OK |-> 200, NOK |-> 503,
         MarvinEExecutorException |-> 503,
         TimeoutException |-> 500, StatusRuntimeException |-> 500]

\* Mutant of Respond: a timeout is answered as such.
RespondGatewayTimeout(outcome) ==
    IF outcome = "TimeoutException" THEN 504 ELSE Code[outcome]

Respond(outcome) == Code[outcome]

\* Only the first outcome of an ask counts.
Reply(r, outcome) ==
    http' = IF http[r] = None
            THEN [http EXCEPT ![r] = Respond(outcome)] ELSE http

\* Receive of the pipeline awaits the end of the one it is at.
Blocked == working["pipeline"] # {}

\* The status of job r is saved, with or without one already there.  Another
\* one may be evicted, if there is no room for all.  See LocalCache.
Save(a, r) ==
    \E gone \in {{}} \union {{k} : k \in cache[a] \ {r}} :
        /\ gone # {} => Cardinality(cache[a] \union {r}) > CacheSize
        /\ cache' = [cache EXCEPT ![a] = (@ \union {r}) \ gone]

Begins(a, r) == working' = [working EXCEPT ![a] = @ \union {r}]
Ends(a, r) == working' = [working EXCEPT ![a] = @ \ {r}]

Init ==
    /\ request = [r \in Ids |-> IF r = 0 THEN Message("reload", "predictor", 0)
                                ELSE None]
    /\ http = [r \in Requests |-> None]
    /\ fsm = "Unavailable"
    /\ mailbox = [a \in Actors |-> IF a = "predictor" THEN <<0>> ELSE <<>>]
    /\ inner = [r \in Requests |-> "none"]
    /\ toProxy = [a \in Proxies |-> <<>>] /\ calls = {} /\ rpc = None
    /\ toSave = <<>>
    /\ cache = [a \in Batch |-> {}] /\ working = [a \in Batch |-> {}]
    /\ restarting = {} /\ stopped = {}
    /\ ignored = {} /\ forgotten = {}

-----------------------------------------------------------------------------
(* The routes                                                               *)

\* Protocols a client knows: those of the jobs it was told of, or a wrong one.
KnownProtocols == {0} \union Accepted

Messages ==
    {Message("execute", a, 0) : a \in Online \union Batch} \union
    {Message("reload", a, 0) : a \in Online \union {"batch"}} \union
    {Message("health", a, 0) : a \in Online \union {"batch"}} \union
    {Message("status", a, p) : a \in Batch, p \in KnownProtocols} \union
    {Message("metrics", "batch", 0)}

InBound(a) ==
    \E S \in Together :
        {a} \union stopped \union {request[q].action : q \in Arrived} \subseteq S

\* Request r comes next, and asks for m.
Arrives(r, m) ==
    /\ request[r] = None /\ \A q \in 1..(r - 1) : request[q] # None
    /\ request' = [request EXCEPT ![r] = m]
    /\ InBound(m.action)

\* A payload or schema that is not valid, or no protocol parameter.
Reject(r, m) ==
    /\ Arrives(r, m)
    /\ http' = [http EXCEPT ![r] = 400]
    /\ UNCHANGED <<actors, asks, history>>

\* A message to a stopped actor is lost.
Send(r, a) ==
    mailbox' = IF a \in stopped THEN mailbox
               ELSE [mailbox EXCEPT ![a] = Append(@, r)]

\* reload, batchExecute and pipeline: the caller gets a text or the protocol.
Tell(r, m) ==
    /\ Arrives(r, m) /\ Told(m)
    /\ http' = [http EXCEPT ![r] = 200]
    /\ Send(r, m.action)
    /\ UNCHANGED <<fsm, cache, working, restarting, stopped, asks, history>>

\* onlineExecute, check, status and metrics.
Ask(r, m) ==
    /\ Arrives(r, m) /\ ~Told(m)
    /\ Send(r, m.action)
    /\ UNCHANGED <<http, fsm, cache, working, restarting, stopped, asks, history>>

AskTimesOut(r) ==
    /\ request[r] # None /\ http[r] = None
    /\ Reply(r, "TimeoutException")
    /\ UNCHANGED <<request, actors, asks, history>>

-----------------------------------------------------------------------------
(* The actors that are asked                                                *)

\* Actor a takes a message of kind k, with number r, from its mailbox.
IsHead(a, r) == a \notin restarting /\ mailbox[a] # <<>> /\ r = Head(mailbox[a])

Take(a, r) ==
    /\ IsHead(a, r)
    /\ mailbox' = [mailbox EXCEPT ![a] = Tail(@)]

Takes(a, k, r) == Take(a, r) /\ request[r].kind = k

\* PredictorFSM, not Ready: all is refused except, if Unavailable, a reload.
\* The Failure of a reload goes to nobody.
Refuse(r) ==
    /\ Take("predictor", r)
    /\ fsm # "Ready"
    /\ IF request[r].kind = "reload"
       THEN /\ fsm = "Reloading"
            /\ ignored' = ignored \union {r} /\ UNCHANGED http
       ELSE /\ Reply(r, "MarvinEExecutorException")
            /\ UNCHANGED ignored
    /\ UNCHANGED <<request, fsm, cache, working, restarting, stopped, asks,
                   forgotten>>

AcceptReload(r) ==
    /\ Takes("predictor", "reload", r)
    /\ fsm \in {"Unavailable", "Ready"}
    /\ fsm' = "Reloading"
    /\ UNCHANGED <<request, http, cache, working, restarting, stopped, asks,
                   history>>

\* Reloaded, FailedToReload or StateTimeout.
ReloadEnds ==
    /\ fsm = "Reloading" /\ "predictor" \notin stopped
    /\ fsm' \in {"Ready", "Unavailable"}
    /\ UNCHANGED <<request, http, mailbox, cache, working, restarting, stopped,
                   asks, history>>

Forward(r) ==
    /\ IsHead("predictor", r)
    /\ fsm = "Ready" /\ request[r].kind # "reload"
    /\ mailbox' = [mailbox EXCEPT !["predictor"] = Tail(@),
                                  !["predictorActor"] = Append(@, r)]
    /\ UNCHANGED <<request, http, fsm, cache, working, restarting, stopped, asks,
                   history>>

\* OnlineAction and BatchAction ask their proxy.
AskProxy(a, r) ==
    /\ Take(a, r)
    /\ request[r].kind \in {"execute", "health"} /\ ~Told(request[r])
    /\ inner' = [inner EXCEPT ![r] = "open"]
    /\ toProxy' = [toProxy EXCEPT ![a] = Append(@, r)]
    /\ UNCHANGED <<request, http, fsm, cache, working, restarting, stopped, calls,
                   rpc, toSave, history>>

\* OnlineAction does not know the Reload of the state machine.
IgnoreReload(r) ==
    /\ Takes("feedback", "reload", r)
    /\ ignored' = ignored \union {r}
    /\ UNCHANGED <<request, http, fsm, cache, working, restarting, stopped, asks,
                   forgotten>>

\* Mutant of BatchExecute: the status is saved only when the job has ended.
BatchExecuteSavesLater(r) ==
    /\ Takes("batch", "execute", r)
    /\ Begins("batch", r)
    /\ toProxy' = [toProxy EXCEPT !["batch"] = Append(@, r)]
    /\ UNCHANGED <<request, http, fsm, cache, restarting, stopped, inner,
                   calls, rpc, toSave, history>>

BatchExecute(r) ==
    /\ Takes("batch", "execute", r)
    /\ Save("batch", r) /\ Begins("batch", r)
    /\ toProxy' = [toProxy EXCEPT !["batch"] = Append(@, r)]
    /\ UNCHANGED <<request, http, fsm, restarting, stopped, inner, calls,
                   rpc, toSave, history>>

\* The callbacks of the job save its status again when it is over.
BatchEnds(r) ==
    /\ r \in working["batch"]
    /\ Save("batch", r) /\ Ends("batch", r)
    /\ UNCHANGED <<request, http, fsm, mailbox, restarting, stopped, asks,
                   history>>

\* A protocol that is bad throws out of receive.
BatchReload(r) ==
    /\ Takes("batch", "reload", r)
    /\ restarting' \in {restarting, restarting \union {"batch"}}
    /\ UNCHANGED <<request, http, fsm, cache, working, stopped, asks, history>>

BatchMetrics(r) ==
    /\ Takes("batch", "metrics", r)
    /\ inner' = [inner EXCEPT ![r] = "open"]
    /\ toSave' = Append(toSave, r)
    /\ UNCHANGED <<request, http, fsm, cache, working, restarting, stopped,
                   toProxy, calls, rpc, history>>

\* BatchExecutionStatus and PipelineExecutionStatus.
ExecutionStatus(a, r) ==
    /\ Takes(a, "status", r)
    /\ a = "pipeline" => ~Blocked
    /\ Reply(r, IF request[r].protocol \in cache[a] THEN "answer"
                ELSE "MarvinEExecutorException")
    /\ UNCHANGED <<request, fsm, cache, working, restarting, stopped, asks,
                   history>>

\* receive blocks until PipelineEnds.
PipelineExecute(r) ==
    /\ Takes("pipeline", "execute", r) /\ ~Blocked
    /\ Save("pipeline", r) /\ Begins("pipeline", r)
    /\ UNCHANGED <<request, http, fsm, restarting, stopped, asks, history>>

PipelineEnds(r) ==
    /\ r \in working["pipeline"]
    /\ Save("pipeline", r) /\ Ends("pipeline", r)
    /\ restarting' \in {restarting, restarting \union {"pipeline"}}
    /\ UNCHANGED <<request, http, fsm, mailbox, stopped, asks, history>>

\* The mailboxes of the proxy and the saver of an actor that is gone.
DropChildren(a) ==
    /\ toProxy' = IF a \in Proxies THEN [toProxy EXCEPT ![a] = <<>>]
                  ELSE toProxy
    /\ toSave' = IF a = "batch" THEN <<>> ELSE toSave

\* Mutant of Restart: the actor is stopped and another one made in its place,
\* with a mailbox of its own.
RestartAnew(a) ==
    /\ a \in restarting /\ (a = "batch" => rpc = None)
    /\ restarting' = restarting \ {a}
    /\ cache' = [cache EXCEPT ![a] = {}] /\ working' = [working EXCEPT ![a] = {}]
    /\ forgotten' = forgotten \union cache[a]
    /\ mailbox' = [mailbox EXCEPT ![a] = <<>>]
    /\ DropChildren(a)
    /\ UNCHANGED <<request, http, fsm, stopped, inner, calls, rpc, ignored>>

\* The new instance has the mailbox, an empty cache and new children.  What the
\* callbacks of jobs under way do is lost on it.
Restart(a) ==
    /\ a \in restarting /\ (a = "batch" => rpc = None)
    /\ restarting' = restarting \ {a}
    /\ cache' = [cache EXCEPT ![a] = {}] /\ working' = [working EXCEPT ![a] = {}]
    /\ forgotten' = forgotten \union cache[a]
    /\ DropChildren(a)
    /\ UNCHANGED <<request, http, fsm, mailbox, stopped, inner, calls, rpc,
                   ignored>>

\* A failed copy of a reload restarts the predictor's OnlineAction.
OnlineRestart ==
    /\ toProxy["predictorActor"] # <<>>
    /\ DropChildren("predictorActor")
    /\ UNCHANGED <<request, http, actors, inner, calls, rpc, history>>

\* ExecutorManager.  The actor stops once receive has returned.  Stopping
\* "predictor" leaves the OnlineAction behind it alone.
StopActor(a) ==
    /\ a \notin stopped /\ Cardinality(stopped) < MaxStops /\ InBound(a)
    /\ a = "pipeline" => ~Blocked
    /\ stopped' = stopped \union {a}
    /\ restarting' = restarting \ {a}
    /\ mailbox' = [mailbox EXCEPT ![a] = <<>>]
    /\ DropChildren(a)
    /\ UNCHANGED <<request, http, fsm, cache, working, inner, calls, rpc, history>>

-----------------------------------------------------------------------------
(* The children and the engines                                             *)

\* The ask of a child ends, and its outcome goes to originalSender.
Pipe(r, outcome) ==
    IF inner[r] = "open"
    THEN /\ inner' = [inner EXCEPT ![r] = "over"] /\ Reply(r, outcome)
    ELSE UNCHANGED <<inner, http>>

InnerAskTimesOut(r) ==
    /\ inner[r] = "open"
    /\ Pipe(r, "TimeoutException")
    /\ UNCHANGED <<request, actors, toProxy, calls, rpc, toSave, history>>

Outcomes(r) == IF request[r].kind = "health" THEN {"OK", "NOK"} ELSE {"answer"}

\* OnlineActionProxy has an asynchronous stub.
Call(a) ==
    /\ toProxy[a] # <<>>
    /\ calls' = calls \union {Head(toProxy[a])}
    /\ toProxy' = [toProxy EXCEPT ![a] = Tail(@)]
    /\ UNCHANGED <<request, http, actors, inner, rpc, toSave, history>>

Answer(r) ==
    /\ r \in calls
    /\ calls' = calls \ {r}
    /\ \E o \in Outcomes(r) \union {"StatusRuntimeException"} : Pipe(r, o)
    /\ UNCHANGED <<request, actors, toProxy, rpc, toSave, history>>

\* BatchActionProxy has a blocking one.
BatchCall ==
    /\ rpc = None /\ toProxy["batch"] # <<>>
    /\ rpc' = Head(toProxy["batch"])
    /\ toProxy' = [toProxy EXCEPT !["batch"] = Tail(@)]
    /\ UNCHANGED <<request, http, actors, inner, calls, toSave, history>>

\* If the stub throws, the proxy is restarted and nobody is answered.
BatchReturn ==
    /\ rpc # None
    /\ rpc' = None
    /\ \/ \E o \in Outcomes(rpc) : Pipe(rpc, o)
       \/ UNCHANGED <<inner, http>>
    /\ UNCHANGED <<request, actors, toProxy, calls, toSave, history>>

\* Only the file system saver knows GetArtifact, and it may throw.
GetArtifact ==
    /\ toSave # <<>>
    /\ toSave' = Tail(toSave)
    /\ Pipe(Head(toSave), "answer") \/ UNCHANGED <<inner, http>>
    /\ UNCHANGED <<request, actors, toProxy, calls, rpc, history>>

-----------------------------------------------------------------------------
Serve(r) ==
    \/ \E m \in Messages : Reject(r, m) \/ Tell(r, m) \/ Ask(r, m)
    \/ AskTimesOut(r) \/ InnerAskTimesOut(r)
    \/ \E a \in Proxies : AskProxy(a, r)
    \/ Forward(r) \/ IgnoreReload(r)
    \/ BatchExecute(r) \/ BatchReload(r) \/ BatchMetrics(r)
    \/ \E a \in Batch : ExecutionStatus(a, r)
    \/ PipelineExecute(r)
    \/ BatchEnds(r) \/ PipelineEnds(r)
    \/ Answer(r)

Next ==
    \/ \E r \in Requests : Serve(r)
    \/ \E r \in Ids : Refuse(r) \/ AcceptReload(r)
    \/ ReloadEnds
    \/ \E a \in Batch : Restart(a)
    \/ OnlineRestart
    \/ \E a \in Online \union Batch : StopActor(a)
    \/ \E a \in Proxies \ {"batch"} : Call(a)
    \/ BatchCall \/ BatchReturn \/ GetArtifact

Spec == Init /\ [][Next]_vars

BatchTakes(r) ==
    \/ BatchExecute(r) \/ BatchReload(r) \/ BatchMetrics(r)
    \/ AskProxy("batch", r) \/ ExecutionStatus("batch", r)
PipelineTakes(r) == PipelineExecute(r) \/ ExecutionStatus("pipeline", r)

\* An actor that has messages takes them.  A pipeline ends, since Await has a
\* time limit; and so does a restart, if the engine's calls do.  Nothing else is
\* assumed of children and engines.
Fairness ==
    /\ WF_vars(\E r \in Requests : BatchTakes(r))
    /\ WF_vars(\E r \in Requests : PipelineTakes(r))
    /\ WF_vars(\E r \in Requests : PipelineEnds(r))
    /\ \A a \in Batch : WF_vars(Restart(a))

FairSpec == Spec /\ Fairness

-----------------------------------------------------------------------------
TypeOK ==
    /\ request \in [Ids -> HttpRequest \union {None}]
    /\ http \in [Requests -> HttpResponse \union {None}]
    /\ fsm \in {"Unavailable", "Reloading", "Ready"}
    /\ mailbox \in [Actors -> Seq(Ids)]
    /\ inner \in [Requests -> {"none", "open", "over"}]
    /\ toProxy \in [Proxies -> Seq(Requests)]
    /\ calls \subseteq Requests
    /\ rpc \in Requests \union {None}
    /\ toSave \in Seq(Requests)
    /\ cache \in [Batch -> SUBSET Requests]
    /\ working \in [Batch -> SUBSET Requests]
    /\ restarting \subseteq Batch
    /\ stopped \subseteq Online \union Batch
    /\ ignored \subseteq Ids /\ forgotten \subseteq Requests

\* The jobs of the action that r is about which were accepted before r.
Before(r) ==
    {q \in Accepted : q < r /\ request[q].action = request[r].action}

\* A job whose protocol a client got is never answered "not found", even if the
\* client asks at once, unless a restart deleted its status, or more jobs of the
\* action had come before the question than the cache has room for.
AcceptedIsFound ==
    \A r \in Arrived :
        LET j == request[r].protocol IN
        /\ request[r].kind = "status" /\ j # 0
        /\ request[r].action = request[j].action
        /\ http[r] = 503
        => \/ j \in forgotten
           \/ Cardinality(Before(r)) > CacheSize

\* A job that was accepted is begun, though its actor may be blocked by others
\* or be restarted with the job in its mailbox, as long as the engine's calls
\* end and nobody stops the actor.
AcceptedBegins ==
    []<>(rpc = None) =>
        \A r \in Requests :
            <>(r \in Accepted) =>
                <>(\E a \in Batch :
                      \/ r \in cache[a]
                      \/ a \in stopped /\ request[r] = Message("execute", a, 0))

\* GenericAPITest, "/feedback/reload endpoint should call OnlineReload": the
\* feedback action does what it is told.  See the run that expects a violation.
FeedbackHeedsReload == \A r \in ignored : request[r].action # "feedback"
=============================================================================
