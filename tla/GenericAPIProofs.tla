---------------------------- MODULE GenericAPIProofs ----------------------------
(***************************************************************************)
(* Theorems about GenericAPI, for every number of requests and of stopped  *)
(* actors, and every mixture of the actions that are requested.            *)
(***************************************************************************)
EXTENDS GenericAPI, MailboxLemmas, FiniteSetTheorems

-----------------------------------------------------------------------------
(* The inductive invariant                                                  *)

\* Requests arrive in the order of their numbers.
Numbered ==
    /\ request[0] = Message("reload", "predictor", 0)
    /\ \A q, r \in Requests : q < r /\ request[r] # None => request[q] # None

\* What is answered, or asked of a child, has arrived, and who is told something
\* has been answered.
Served == \A r \in Requests :
    /\ http[r] # None \/ inner[r] = "open" => request[r] # None
    /\ inner[r] = "open" => request[r].kind # "status"
    /\ request[r] # None /\ Told(request[r]) => http[r] # None

\* A client that asks for a job by its protocol was given the protocol before.
Named == \A r \in Arrived :
    request[r].kind = "status" /\ request[r].protocol # 0 =>
        request[r].protocol < r /\ request[r].protocol \in Accepted

\* Messages wait in the order in which they were sent, where they were sent to.
Earlier == {q \in Ids \X Ids : q[1] < q[2]}

Queued == \A a \in Actors :
    /\ \A r \in In(mailbox[a]) :
          request[r] # None /\ (a # "predictorActor" => request[r].action = a)
    /\ a \in Batch => Chain(mailbox[a], Earlier)
    /\ a \in stopped => mailbox[a] = <<>>

\* The jobs of action a that were accepted, and are not in its mailbox any more.
Handled(a) == {q \in Accepted : request[q].action = a /\ \A r \in In(mailbox[a]) : q < r}

\* The cache holds jobs that the actor has handled, and only jobs that were
\* accepted wait to be.
Cached == \A a \in Batch :
    /\ cache[a] \union working[a] \subseteq Handled(a)
    /\ \A r \in In(mailbox[a]) : request[r].kind = "execute" => http[r] = 200

\* A job that was accepted waits in the mailbox, or its status is known, unless
\* a restart has deleted it, the actor is gone or has handled more jobs than the
\* cache has room for.
Kept == \A j \in Accepted :
    LET a == request[j].action IN
    \/ j \in In(mailbox[a]) \union cache[a] \union forgotten
    \/ a \in stopped
    \/ Cardinality(Handled(a)) > CacheSize

IInv == /\ TypeOK /\ Numbered /\ Served /\ Named /\ Queued /\ Cached /\ Kept
        /\ AcceptedIsFound

-----------------------------------------------------------------------------
USE DEF actors, asks, history

LEMMA Numbers ==
    /\ Requests \subseteq Ids /\ Ids \subseteq Nat /\ 0 \in Ids /\ 0 \notin Requests
    /\ \A r \in Ids : r # 0 => r \in Requests
    /\ None \notin Ids /\ None \notin HttpRequest /\ None \notin HttpResponse
<1> QED BY BoundAssumption, NoneAssumption DEF Requests, Ids, HttpResponse

\* More requests are at least as many.
LEMMA MoreRequests ==
    ASSUME NEW S \in SUBSET Requests, NEW T \in SUBSET S, Cardinality(T) > CacheSize
    PROVE  Cardinality(S) > CacheSize
<1>1. IsFiniteSet(Requests)
  BY BoundAssumption, FS_Interval DEF Requests
<1>2. IsFiniteSet(S)
  BY <1>1, FS_Subset
<1>3. IsFiniteSet(T) /\ Cardinality(T) <= Cardinality(S)
  BY <1>2, FS_Subset
<1>4. Cardinality(T) \in Nat /\ Cardinality(S) \in Nat
  BY <1>2, <1>3, FS_CardinalityType
<1> QED BY <1>3, <1>4, BoundAssumption

LEMMA InitInv == Init => IInv
<1> SUFFICES ASSUME Init PROVE IInv
  OBVIOUS
<1>1. <<>> \in Seq(Ids) /\ <<>> \in Seq(Requests) /\ <<0>> \in Seq(Ids)
      /\ In(<<>>) = {} /\ In(<<0>>) = {0}
  <2>1. <<0>> = Append(<<>>, 0)
    OBVIOUS
  <2>2. <<>> \in Seq(Ids) /\ <<>> \in Seq(Requests) /\ In(<<>>) = {}
    BY InType
  <2>3. Append(<<>>, 0) \in Seq(Ids) /\ In(Append(<<>>, 0)) = In(<<>>) \union {0}
    BY <2>2, Numbers, InAppend
  <2> QED BY <2>1, <2>2, <2>3
<1>2. Message("reload", "predictor", 0) \in HttpRequest
  BY Numbers DEF Message, HttpRequest, Online
<1>3. /\ request[0] = Message("reload", "predictor", 0)
      /\ \A r \in Requests : request[r] = None /\ http[r] = None /\ inner[r] = "none"
  BY Numbers DEF Init
<1>4. TypeOK
  <2>1. request \in [Ids -> HttpRequest \union {None}]
    BY <1>2 DEF Init
  <2>2. mailbox \in [Actors -> Seq(Ids)]
    BY <1>1 DEF Init
  <2>3. /\ http \in [Requests -> HttpResponse \union {None}]
        /\ inner \in [Requests -> {"none", "open", "over"}]
        /\ toProxy \in [Proxies -> Seq(Requests)] /\ toSave \in Seq(Requests)
        /\ cache \in [Batch -> SUBSET Requests] /\ working \in [Batch -> SUBSET Requests]
    BY <1>1 DEF Init
  <2> QED BY <2>1, <2>2, <2>3 DEF Init, TypeOK
<1>5. Arrived = {}
  BY <1>3 DEF Arrived
<1>6. Numbered /\ Served /\ Named
  BY <1>3, <1>5 DEF Numbered, Served, Named
<1>7. Queued
  <2>1. ASSUME NEW a \in Actors
        PROVE  mailbox[a] = <<>> \/ (a = "predictor" /\ mailbox[a] = <<0>>)
    BY DEF Init
  <2>2. /\ request[0] # None /\ request[0].action = "predictor" /\ stopped = {}
        /\ "predictor" \notin Batch
    BY <1>2, <1>3, Numbers DEF Init, Batch, Message
  <2>3. Chain(<<>>, Earlier)
    BY DEF Chain
  <2> QED BY <1>1, <2>1, <2>2, <2>3 DEF Queued
<1>8. Cached /\ Kept
  <2>1. \A a \in Batch : cache[a] = {} /\ working[a] = {} /\ mailbox[a] = <<>>
    BY DEF Init, Actors, Batch
  <2> QED BY <1>1, <1>5, <2>1 DEF Cached, Kept, Accepted, Jobs
<1>9. AcceptedIsFound
  BY <1>5 DEF AcceptedIsFound
<1> QED BY <1>4, <1>6, <1>7, <1>8, <1>9 DEF IInv

-----------------------------------------------------------------------------
(* The kinds of steps                                                       *)

NewRequest(r, m) == Reject(r, m) \/ Tell(r, m) \/ Ask(r, m)

\* Actor a handles the message r.
Handles(a, r) ==
    \/ a = "predictor" /\ (Refuse(r) \/ AcceptReload(r) \/ Forward(r))
    \/ a \in Proxies /\ AskProxy(a, r)
    \/ a = "feedback" /\ IgnoreReload(r)
    \/ a = "batch" /\ (BatchExecute(r) \/ BatchReload(r) \/ BatchMetrics(r))
    \/ a \in Batch /\ ExecutionStatus(a, r)
    \/ a = "pipeline" /\ PipelineExecute(r)

ChildStep ==
    \/ \E r \in Requests : InnerAskTimesOut(r) \/ Answer(r)
    \/ \E a \in Proxies \ {"batch"} : Call(a)
    \/ BatchCall \/ BatchReturn \/ GetArtifact

\* A job is over.
EndStep == \E r \in Requests : BatchEnds(r) \/ PipelineEnds(r)

LifeStep ==
    \/ ReloadEnds \/ OnlineRestart
    \/ \E a \in Batch : Restart(a)
    \/ \E a \in Online \union Batch : StopActor(a)

LEMMA Steps ==
    ASSUME [Next]_vars
    PROVE  \/ \E r \in Requests : \E m \in Messages : NewRequest(r, m)
           \/ \E r \in Requests : AskTimesOut(r)
           \/ \E a \in Actors : \E r \in Ids : Handles(a, r)
           \/ ChildStep \/ EndStep \/ LifeStep
           \/ UNCHANGED vars
<1>1. /\ "predictor" \in Actors /\ "feedback" \in Actors /\ "batch" \in Actors
      /\ "pipeline" \in Actors /\ \A a \in Proxies \union Batch : a \in Actors
  BY DEF Actors, Proxies, Batch, Online
<1>2. CASE \E r \in Requests : Serve(r)
  BY <1>1, <1>2, Numbers DEF Serve, NewRequest, Handles, ChildStep, EndStep
<1>3. CASE \E r \in Ids : Refuse(r) \/ AcceptReload(r)
  BY <1>1, <1>3 DEF Handles
<1> QED BY <1>2, <1>3 DEF Next, ChildStep, LifeStep

\* What the mailbox of each actor is after one of them has taken a message.
LEMMA TakeMail ==
    ASSUME TypeOK, NEW a \in Actors, NEW r, Take(a, r)
    PROVE  /\ mailbox' \in [Actors -> Seq(Ids)] /\ r \in Ids
           /\ mailbox[a] \in Seq(Ids) /\ mailbox[a] # <<>> /\ r = Head(mailbox[a])
           /\ mailbox'[a] = Tail(mailbox[a])
           /\ \A b \in Actors : b # a => mailbox'[b] = mailbox[b]
<1>1. /\ mailbox[a] \in Seq(Ids) /\ mailbox[a] # <<>> /\ r = Head(mailbox[a])
      /\ mailbox' = [mailbox EXCEPT ![a] = Tail(@)]
  BY DEF Take, IsHead, TypeOK
<1>2. r \in Ids /\ Tail(mailbox[a]) \in Seq(Ids)
  BY <1>1, InTail
<1> QED BY <1>1, <1>2 DEF TypeOK

LEMMA ForwardMail ==
    ASSUME TypeOK, NEW r, Forward(r)
    PROVE  /\ mailbox' \in [Actors -> Seq(Ids)] /\ r \in Ids
           /\ mailbox["predictor"] \in Seq(Ids) /\ mailbox["predictor"] # <<>>
           /\ r = Head(mailbox["predictor"])
           /\ mailbox'["predictor"] = Tail(mailbox["predictor"])
           /\ mailbox["predictorActor"] \in Seq(Ids)
           /\ mailbox'["predictorActor"] = Append(mailbox["predictorActor"], r)
           /\ \A b \in Actors \ {"predictor", "predictorActor"} : mailbox'[b] = mailbox[b]
           /\ "predictor" \in Actors /\ "predictorActor" \in Actors
<1>1. "predictor" \in Actors /\ "predictorActor" \in Actors
  BY DEF Actors, Online
<1>2. /\ mailbox["predictor"] \in Seq(Ids) /\ mailbox["predictorActor"] \in Seq(Ids)
      /\ mailbox["predictor"] # <<>> /\ r = Head(mailbox["predictor"])
      /\ mailbox' = [mailbox EXCEPT !["predictor"] = Tail(@),
                                    !["predictorActor"] = Append(@, r)]
  BY <1>1 DEF Forward, IsHead, TypeOK
<1>3. r \in Ids /\ Tail(mailbox["predictor"]) \in Seq(Ids)
  BY <1>2, InTail
<1>4. Append(mailbox["predictorActor"], r) \in Seq(Ids)
  BY <1>2, <1>3, InAppend
<1> QED BY <1>1, <1>2, <1>3, <1>4 DEF TypeOK

\* The actor that handles a message has taken it, or forwarded it.
LEMMA HandleMail ==
    ASSUME TypeOK, NEW a \in Actors, NEW r \in Ids, Handles(a, r)
    PROVE  /\ mailbox' \in [Actors -> Seq(Ids)] /\ mailbox[a] # <<>>
           /\ mailbox[a] \in Seq(Ids)
           /\ r = Head(mailbox[a]) /\ r \in In(mailbox[a])
           /\ mailbox'[a] = Tail(mailbox[a])
           /\ \A b \in Actors : b # a =>
                 \/ mailbox'[b] = mailbox[b]
                 \/ /\ b = "predictorActor" /\ mailbox[b] \in Seq(Ids)
                    /\ mailbox'[b] = Append(mailbox[b], r)
<1>1. CASE Take(a, r)
  BY <1>1, TakeMail, InTail
<1>2. CASE a = "predictor" /\ Forward(r)
  BY <1>2, ForwardMail, InTail
<1>3. Take(a, r) \/ (a = "predictor" /\ Forward(r))
  BY DEF Handles, Refuse, AcceptReload, AskProxy, IgnoreReload, BatchExecute, BatchReload,
         BatchMetrics, ExecutionStatus, PipelineExecute, Takes
<1> QED BY <1>1, <1>2, <1>3

\* A request that arrives.
LEMMA ArrivalOf ==
    ASSUME TypeOK, Numbered, Served, NEW r \in Requests, NEW m \in Messages,
           NewRequest(r, m)
    PROVE  /\ m \in HttpRequest /\ m # None
           /\ m.kind = "status" /\ m.protocol # 0 =>
                 m.protocol < r /\ m.protocol \in Accepted
           /\ request[r] = None /\ request' \in [Ids -> HttpRequest \union {None}]
           /\ request'[r] = m /\ \A q \in Ids : q # r => request'[q] = request[q]
           /\ \A q \in Requests : q < r => request[q] # None
           /\ \A q \in Ids : request[q] # None => q < r
           /\ http[r] = None
           /\ UNCHANGED <<fsm, cache, working, restarting, stopped, asks, history>>
<1>1. /\ request[r] = None /\ (\A q \in 1..(r - 1) : request[q] # None)
      /\ request' = [request EXCEPT ![r] = m]
      /\ UNCHANGED <<fsm, cache, working, restarting, stopped, asks, history>>
  BY DEF NewRequest, Reject, Tell, Ask, Arrives
<1>2. \A q \in Ids : request[q] # None => q < r
  BY <1>1, Numbers DEF Numbered
<1>3. \A q \in Requests : q < r => request[q] # None
  BY <1>1 DEF Requests
<1>4. ASSUME NEW p \in KnownProtocols
      PROVE  p \in Ids /\ (p # 0 => p < r /\ p \in Accepted)
  BY <1>2, <1>4, Numbers DEF KnownProtocols, Accepted, Jobs, Arrived
<1>5. m \in HttpRequest
  BY <1>4, Numbers DEF Messages, Message, HttpRequest, Online, Batch
<1>6. m.kind = "status" /\ m.protocol # 0 => m.protocol < r /\ m.protocol \in Accepted
  BY <1>4 DEF Messages, Message
<1>7. http[r] = None
  BY <1>1 DEF Served
<1>8. /\ request' \in [Ids -> HttpRequest \union {None}]
      /\ request'[r] = m /\ \A q \in Ids : q # r => request'[q] = request[q]
  BY <1>1, <1>5, Numbers DEF TypeOK
<1> QED BY <1>1, <1>2, <1>3, <1>5, <1>6, <1>7, <1>8, Numbers

\* Where the message of a request goes, and what the client is told at once.
LEMMA ArrivalAt ==
    ASSUME TypeOK, Numbered, Served, NEW r \in Requests, NEW m \in Messages,
           NewRequest(r, m)
    PROVE  /\ mailbox' \in [Actors -> Seq(Ids)]
           /\ m.action \in Actors /\ mailbox[m.action] \in Seq(Ids)
           /\ \A a \in Actors : a # m.action => mailbox'[a] = mailbox[a]
           /\ \/ mailbox'[m.action] = mailbox[m.action]
              \/ /\ m.action \notin stopped
                 /\ mailbox'[m.action] = Append(mailbox[m.action], r)
           /\ http' \in [Requests -> HttpResponse \union {None}]
           /\ \A q \in Requests : q # r => http'[q] = http[q]
           /\ \/ http'[r] = 400 /\ mailbox'[m.action] = mailbox[m.action]
              \/ /\ http'[r] = 200 /\ Told(m)
                 /\ m.action \in stopped
                       \/ mailbox'[m.action] = Append(mailbox[m.action], r)
              \/ http'[r] = None /\ ~Told(m)
<1>1. m \in HttpRequest /\ http[r] = None
  BY ArrivalOf
<1>2. m.action \in Actors
  BY <1>1 DEF HttpRequest, Actors
<1>3. mailbox[m.action] \in Seq(Ids) /\ r \in Ids
  BY <1>2, Numbers DEF TypeOK
<1>4. Append(mailbox[m.action], r) \in Seq(Ids)
  BY <1>3, InAppend
<1>5. 400 \in HttpResponse /\ 200 \in HttpResponse
  BY DEF HttpResponse
<1>6. CASE Reject(r, m)
  BY <1>2, <1>3, <1>5, <1>6 DEF Reject, TypeOK
<1>7. ASSUME Send(r, m.action)
      PROVE  /\ mailbox' \in [Actors -> Seq(Ids)]
             /\ \A a \in Actors : a # m.action => mailbox'[a] = mailbox[a]
             /\ m.action \in stopped => mailbox'[m.action] = mailbox[m.action]
             /\ m.action \notin stopped =>
                   mailbox'[m.action] = Append(mailbox[m.action], r)
  BY <1>2, <1>4, <1>7 DEF Send, TypeOK
<1>8. CASE Tell(r, m)
  BY <1>2, <1>3, <1>5, <1>7, <1>8 DEF Tell, TypeOK
<1>9. CASE Ask(r, m)
  BY <1>1, <1>2, <1>3, <1>7, <1>9 DEF Ask, TypeOK
<1> QED BY <1>6, <1>8, <1>9 DEF NewRequest

-----------------------------------------------------------------------------
(* Responses                                                                *)

Outcome == {"answer", "OK", "NOK", "MarvinEExecutorException",
            "TimeoutException", "StatusRuntimeException"}

\* Request r asks for the status of a job that ran where it asks.
AsksFor(r, j) ==
    /\ request[r].kind = "status" /\ j = request[r].protocol /\ j # 0
    /\ request[r].action = request[j].action

\* Why the job j that r asks for may be answered "not found".
Excused(r, j) == j \in forgotten \/ Cardinality(Before(r)) > CacheSize

\* A request that had no response gets one, and it is right.
Answered(r) ==
    /\ http[r] = None /\ request[r] # None /\ http'[r] \in HttpResponse
    /\ http'[r] = 503 => \A j \in Ids : AsksFor(r, j) => Excused(r, j)

HttpStep ==
    /\ http' \in [Requests -> HttpResponse \union {None}]
    /\ \A r \in Requests : http'[r] = http[r] \/ Answered(r)

LEMMA HttpStays ==
    ASSUME TypeOK, http' = http
    PROVE  HttpStep
<1> QED BY DEF HttpStep, TypeOK

LEMMA Codes ==
    /\ Code["answer"] = 200 /\ Code["OK"] = 200 /\ Code["NOK"] = 503
    /\ Code["MarvinEExecutorException"] = 503
    /\ Code["TimeoutException"] = 500 /\ Code["StatusRuntimeException"] = 500
<1> QED BY DEF Code

LEMMA ResponseOf ==
    ASSUME NEW o \in Outcome
    PROVE  /\ Respond(o) \in HttpResponse
           /\ Respond(o) = 503 => o \in {"NOK", "MarvinEExecutorException"}
<1> QED BY Codes DEF Outcome, Respond, HttpResponse

LEMMA ReplyStep ==
    ASSUME TypeOK, NEW r \in Requests, request[r] # None, NEW o \in Outcome, Reply(r, o),
           o \in {"NOK", "MarvinEExecutorException"} =>
               \A j \in Ids : AsksFor(r, j) => Excused(r, j)
    PROVE  HttpStep
<1>1. CASE http[r] # None
  BY <1>1, HttpStays DEF Reply
<1>2. CASE http[r] = None
  <2>1. http' = [http EXCEPT ![r] = Respond(o)]
    BY <1>2 DEF Reply
  <2>2. Respond(o) \in HttpResponse
    BY ResponseOf
  <2>3. /\ http' \in [Requests -> HttpResponse \union {None}]
        /\ http'[r] = Respond(o) /\ \A q \in Requests : q # r => http'[q] = http[q]
    BY <2>1, <2>2 DEF TypeOK
  <2>4. Answered(r)
    BY <1>2, <2>2, <2>3, ResponseOf DEF Answered
  <2> QED BY <2>3, <2>4 DEF HttpStep
<1> QED BY <1>1, <1>2

\* What is piped from a child does not tell of jobs.
InnerStep ==
    /\ inner' \in [Requests -> {"none", "open", "over"}]
    /\ \A r \in Requests : inner'[r] = "open" => inner[r] = "open"

LEMMA InnerStays ==
    ASSUME TypeOK, inner' = inner
    PROVE  InnerStep
<1> QED BY DEF InnerStep, TypeOK

LEMMA PipeStep ==
    ASSUME TypeOK, Served, NEW r \in Requests, NEW o \in Outcome, Pipe(r, o)
    PROVE  HttpStep /\ InnerStep
<1>1. CASE inner[r] # "open"
  BY <1>1, HttpStays, InnerStays DEF Pipe
<1>2. CASE inner[r] = "open"
  <2>1. /\ inner' = [inner EXCEPT ![r] = "over"] /\ Reply(r, o)
    BY <1>2 DEF Pipe
  <2>2. request[r] # None /\ request[r].kind # "status"
    BY <1>2 DEF Served
  <2>3. \A j \in Ids : ~AsksFor(r, j)
    BY <2>2 DEF AsksFor
  <2>5. HttpStep
    BY <2>1, <2>2, <2>3, ReplyStep
  <2>6. InnerStep
    BY <2>1 DEF InnerStep, TypeOK
  <2> QED BY <2>5, <2>6
<1> QED BY <1>1, <1>2

LEMMA OutcomesOf == ASSUME NEW r PROVE Outcomes(r) \subseteq Outcome
<1> QED BY DEF Outcomes, Outcome

LEMMA ChildAnswers ==
    ASSUME TypeOK, Served, ChildStep
    PROVE  /\ HttpStep /\ InnerStep /\ UNCHANGED <<request, actors, history>>
           /\ toProxy' \in [Proxies -> Seq(Requests)] /\ calls' \subseteq Requests
           /\ rpc' \in Requests \union {None} /\ toSave' \in Seq(Requests)
<1>1. /\ toProxy \in [Proxies -> Seq(Requests)] /\ toSave \in Seq(Requests)
      /\ calls \subseteq Requests /\ rpc \in Requests \union {None}
  BY DEF TypeOK
<1>2. ASSUME NEW a \in Proxies, toProxy[a] # <<>>
      PROVE  Head(toProxy[a]) \in Requests /\ Tail(toProxy[a]) \in Seq(Requests)
  BY <1>1, <1>2, InTail
<1>3. ASSUME NEW r \in Requests, InnerAskTimesOut(r)
      PROVE  /\ HttpStep /\ InnerStep /\ UNCHANGED <<request, actors, history>>
             /\ UNCHANGED <<toProxy, calls, rpc, toSave>>
  BY <1>3, PipeStep DEF InnerAskTimesOut, Outcome
<1>4. ASSUME NEW r \in Requests, Answer(r)
      PROVE  /\ HttpStep /\ InnerStep /\ UNCHANGED <<request, actors, history>>
             /\ UNCHANGED <<toProxy, rpc, toSave>> /\ calls' \subseteq Requests
  <2>1. PICK o \in Outcomes(r) \union {"StatusRuntimeException"} : Pipe(r, o)
    BY <1>4 DEF Answer
  <2>2. o \in Outcome
    BY OutcomesOf DEF Outcome
  <2> QED BY <1>1, <1>4, <2>1, <2>2, PipeStep DEF Answer
<1>5. ASSUME NEW a \in Proxies, Call(a)
      PROVE  /\ HttpStep /\ InnerStep /\ UNCHANGED <<request, actors, history, rpc, toSave>>
             /\ toProxy' \in [Proxies -> Seq(Requests)] /\ calls' \subseteq Requests
  BY <1>1, <1>2, <1>5, HttpStays, InnerStays DEF Call
<1>6. CASE BatchCall
  <2>1. "batch" \in Proxies
    BY DEF Proxies
  <2> QED BY <1>1, <1>2, <1>6, <2>1, HttpStays, InnerStays DEF BatchCall
<1>7. CASE BatchReturn
  <2>1. rpc \in Requests /\ rpc' = None
    BY <1>1, <1>7 DEF BatchReturn
  <2>2. CASE UNCHANGED <<inner, http>>
    BY <1>1, <1>7, <2>1, <2>2, HttpStays, InnerStays DEF BatchReturn
  <2>3. ASSUME NEW o \in Outcomes(rpc), Pipe(rpc, o) PROVE HttpStep /\ InnerStep
    BY <2>1, <2>3, OutcomesOf, PipeStep
  <2> QED BY <1>1, <1>7, <2>1, <2>2, <2>3 DEF BatchReturn
<1>8. CASE GetArtifact
  <2>1. Head(toSave) \in Requests /\ Tail(toSave) \in Seq(Requests)
    BY <1>1, <1>8, InTail DEF GetArtifact
  <2>2. CASE UNCHANGED <<inner, http>>
    BY <1>1, <1>8, <2>1, <2>2, HttpStays, InnerStays DEF GetArtifact
  <2>3. CASE Pipe(Head(toSave), "answer")
    <3>1. HttpStep /\ InnerStep
      BY <2>1, <2>3, PipeStep DEF Outcome
    <3> QED BY <1>1, <1>8, <2>1, <3>1 DEF GetArtifact
  <2> QED BY <1>8, <2>2, <2>3 DEF GetArtifact
<1> QED BY <1>1, <1>3, <1>4, <1>5, <1>6, <1>7, <1>8 DEF ChildStep

\* What is known of the message that an actor handles.
LEMMA HandledOf ==
    ASSUME TypeOK, Numbered, Named, Queued, NEW a \in Actors, NEW r \in Ids, Handles(a, r)
    PROVE  /\ request[r] \in HttpRequest /\ request[r] # None
           /\ request[r].kind \in {"execute", "reload", "health", "status", "metrics"}
           /\ a # "predictorActor" => request[r].action = a
           /\ request[r].kind # "reload" => r \in Requests
           /\ a = "predictor" => \A j \in Ids : ~AsksFor(r, j)
<1>1. request[r] # None /\ (a # "predictorActor" => request[r].action = a)
  BY HandleMail DEF Queued
<1>2. request[r] \in HttpRequest
  BY <1>1 DEF TypeOK
<1>3. request[r].kind # "reload" => r \in Requests
  BY Numbers DEF Numbered, Message
<1>4. ASSUME NEW j \in Ids, AsksFor(r, j), a = "predictor" PROVE FALSE
  <2>1. r \in Arrived
    BY <1>1, <1>3, <1>4 DEF AsksFor, Arrived
  <2>2. j \in Jobs
    BY <1>4, <2>1 DEF AsksFor, Named, Accepted
  <2> QED BY <1>1, <1>4, <2>2 DEF Jobs, Told, AsksFor, Batch
<1> QED BY <1>1, <1>2, <1>3, <1>4 DEF HttpRequest

\* The status of a job that the API has accepted is known when it is asked for.
LEMMA StatusIsKnown ==
    ASSUME IInv, NEW a \in Batch, NEW r \in Ids, Handles(a, r),
           NEW j \in Ids, AsksFor(r, j), j \notin cache[a]
    PROVE  Excused(r, j)
<1>1. TypeOK /\ Numbered /\ Named /\ Queued /\ Kept
  BY DEF IInv
<1>2. a \in Actors /\ a # "predictorActor"
  BY DEF Actors, Batch
<1>3. r \in Arrived /\ request[r].action = a
  BY <1>1, <1>2, HandledOf DEF AsksFor, Arrived
<1>4. j < r /\ j \in Accepted /\ request[j].action = a
  BY <1>1, <1>3 DEF AsksFor, Named
<1>5. j \in Requests
  BY <1>4 DEF Accepted, Jobs, Arrived
<1>6. /\ mailbox[a] # <<>> /\ mailbox[a] \in Seq(Ids) /\ r = Head(mailbox[a])
      /\ Chain(mailbox[a], Earlier)
  BY <1>1, <1>2, HandleMail DEF Queued
<1>7. a \notin stopped
  BY <1>1, <1>2, <1>6 DEF Queued
<1>8. j \notin In(mailbox[a]) /\ r \in In(mailbox[a])
  <2>1. ASSUME j \in In(Tail(mailbox[a])) PROVE <<r, j>> \in Earlier
    BY <1>6, <2>1, ChainTail
  <2>2. In(mailbox[a]) = {r} \union In(Tail(mailbox[a]))
    BY <1>6, InTail
  <2>3. r \in Nat /\ j \in Nat
    BY Numbers
  <2> QED BY <1>4, <2>1, <2>2, <2>3 DEF Earlier
<1>9. j \in forgotten \/ Cardinality(Handled(a)) > CacheSize
  BY <1>1, <1>4, <1>7, <1>8 DEF Kept
<1>10. Handled(a) \subseteq Before(r) /\ Before(r) \subseteq Requests
  BY <1>3, <1>8 DEF Handled, Before, Accepted, Jobs, Arrived
<1> QED BY <1>9, <1>10, MoreRequests DEF Excused

LEMMA HandleAnswers ==
    ASSUME IInv, NEW a \in Actors, NEW r \in Ids, Handles(a, r)
    PROVE  HttpStep
<1>1. TypeOK /\ Numbered /\ Named /\ Queued
  BY DEF IInv
<1>2. /\ request[r] # None
      /\ request[r].kind # "reload" => r \in Requests
      /\ a = "predictor" => \A j \in Ids : ~AsksFor(r, j)
  BY <1>1, HandledOf
<1>3. CASE Refuse(r) /\ a = "predictor"
  <2>1. CASE http' = http
    BY <1>1, <2>1, HttpStays
  <2>2. CASE request[r].kind # "reload" /\ Reply(r, "MarvinEExecutorException")
    BY <1>1, <1>2, <1>3, <2>2, ReplyStep DEF Outcome
  <2> QED BY <1>3, <2>1, <2>2 DEF Refuse
<1>4. CASE ExecutionStatus(a, r) /\ a \in Batch
  <2> DEFINE p == request[r].protocol
             o == IF p \in cache[a] THEN "answer" ELSE "MarvinEExecutorException"
  <2>1. request[r].kind = "status" /\ Reply(r, o)
    BY <1>4 DEF ExecutionStatus, Takes
  <2>2. r \in Requests
    BY <1>2, <2>1
  <2>3. p \notin cache[a] => \A j \in Ids : AsksFor(r, j) => Excused(r, j)
    BY <1>4, StatusIsKnown DEF AsksFor
  <2>4. o \in Outcome /\ o # "NOK" /\ (o = "MarvinEExecutorException" => p \notin cache[a])
    BY DEF Outcome
  <2> HIDE DEF o, p
  <2> QED BY <1>1, <1>2, <2>1, <2>2, <2>3, <2>4, ReplyStep
<1>5. CASE http' = http
  BY <1>1, <1>5, HttpStays
<1> QED BY <1>3, <1>4, <1>5
    DEF Handles, AcceptReload, Forward, AskProxy, IgnoreReload, BatchExecute,
        BatchReload, BatchMetrics, PipelineExecute

\* Saving the status of a job leaves that one, and evicts others only if there is
\* no room.
LEMMA SaveFacts ==
    ASSUME TypeOK, NEW a \in Batch, NEW r \in Requests, Save(a, r)
    PROVE  /\ cache' \in [Batch -> SUBSET Requests]
           /\ r \in cache'[a] /\ cache'[a] \subseteq cache[a] \union {r}
           /\ \A b \in Batch : b # a => cache'[b] = cache[b]
           /\ \A k \in cache[a] : \/ k \in cache'[a]
                                  \/ Cardinality(cache[a] \union {r}) > CacheSize
<1>1. PICK gone \in {{}} \union {{k} : k \in cache[a] \ {r}} :
         /\ gone # {} => Cardinality(cache[a] \union {r}) > CacheSize
         /\ cache' = [cache EXCEPT ![a] = (@ \union {r}) \ gone]
  BY DEF Save
<1>2. cache \in [Batch -> SUBSET Requests]
  BY DEF TypeOK
<1>3. cache'[a] = (cache[a] \union {r}) \ gone /\ r \notin gone
      /\ \A b \in Batch : b # a => cache'[b] = cache[b]
  BY <1>1, <1>2
<1>4. cache' \in [Batch -> SUBSET Requests]
  <2>1. (cache[a] \union {r}) \ gone \in SUBSET Requests
    BY <1>2
  <2> HIDE DEF Batch
  <2> QED BY <1>1, <1>2, <2>1
<1> QED BY <1>1, <1>3, <1>4

\* What becomes of the jobs of action b, if those in new are begun or over.
Adds(b, new) ==
    /\ cache'[b] \union working'[b] \subseteq cache[b] \union working[b] \union new
    /\ \A k \in cache[b] \union new : \/ k \in cache'[b] \union forgotten'
                                     \/ Cardinality(cache[b] \union new) > CacheSize

LEMMA SaveAdds ==
    ASSUME TypeOK, NEW a \in Batch, NEW r \in Requests, Save(a, r), Begins(a, r) \/ Ends(a, r)
    PROVE  /\ cache' \in [Batch -> SUBSET Requests] /\ working' \in [Batch -> SUBSET Requests]
           /\ Adds(a, {r}) /\ \A b \in Batch : b # a => Adds(b, {})
<1>1. working \in [Batch -> SUBSET Requests]
  BY DEF TypeOK
<1>2. /\ working' \in [Batch -> SUBSET Requests]
      /\ working'[a] \subseteq working[a] \union {r}
      /\ \A b \in Batch : b # a => working'[b] = working[b]
  BY <1>1 DEF Begins, Ends
<1> QED BY <1>2, SaveFacts DEF Adds

LEMMA NothingAdded ==
    ASSUME NEW b, cache'[b] = cache[b], working'[b] = working[b]
    PROVE  Adds(b, {})
<1> QED BY DEF Adds

\* What else a handler changes.
LEMMA HandleStep ==
    ASSUME TypeOK, Numbered, Named, Queued, NEW a \in Actors, NEW r \in Ids, Handles(a, r)
    PROVE  /\ UNCHANGED <<request, calls, rpc, stopped, forgotten>>
           /\ inner' \in [Requests -> {"none", "open", "over"}]
           /\ \A q \in Requests : inner'[q] = "open" =>
                 inner[q] = "open" \/ (q = r /\ request[r].kind # "status")
           /\ cache' \in [Batch -> SUBSET Requests] /\ working' \in [Batch -> SUBSET Requests]
           /\ \A b \in Batch :
                 Adds(b, IF b = a /\ request[r].kind = "execute" THEN {r} ELSE {})
           /\ toProxy' \in [Proxies -> Seq(Requests)] /\ toSave' \in Seq(Requests)
           /\ fsm' \in {"Unavailable", "Reloading", "Ready"}
           /\ restarting' \subseteq Batch /\ ignored' \subseteq Ids
<1> DEFINE Rest == /\ UNCHANGED <<request, calls, rpc, stopped, forgotten>>
                   /\ fsm' \in {"Unavailable", "Reloading", "Ready"}
                   /\ restarting' \subseteq Batch /\ ignored' \subseteq Ids
           Inner == /\ inner' \in [Requests -> {"none", "open", "over"}]
                    /\ \A q \in Requests : inner'[q] = "open" =>
                          inner[q] = "open" \/ (q = r /\ request[r].kind # "status")
           Caches ==
               /\ cache' \in [Batch -> SUBSET Requests] /\ working' \in [Batch -> SUBSET Requests]
               /\ \A b \in Batch :
                     Adds(b, IF b = a /\ request[r].kind = "execute" THEN {r} ELSE {})
           Proxied == toProxy' \in [Proxies -> Seq(Requests)]
           Saves == toSave' \in Seq(Requests)
<1>1. /\ request[r].kind # "reload" => r \in Requests
      /\ a # "predictorActor" => request[r].action = a
  BY HandledOf
<1>2. inner' = inner => Inner
  BY DEF TypeOK
<1>3. UNCHANGED <<cache, working>> /\ (request[r].kind # "execute" \/ a \notin Batch) => Caches
  BY NothingAdded DEF TypeOK
<1>4. ASSUME r \in Requests, NEW b \in Proxies,
             toProxy' = [toProxy EXCEPT ![b] = Append(@, r)]
      PROVE  Proxied
  <2>1. Append(toProxy[b], r) \in Seq(Requests)
    BY <1>4, InAppend DEF TypeOK
  <2> QED BY <1>4, <2>1 DEF TypeOK
<1>5. (toProxy' = toProxy => Proxied) /\ (toSave' = toSave => Saves)
  BY DEF TypeOK
<1>6. ASSUME r \in Requests, request[r].kind # "status",
             inner' = [inner EXCEPT ![r] = "open"]
      PROVE  Inner
  BY <1>6 DEF TypeOK
<1>7. ASSUME r \in Requests, a \in Batch, request[r].kind = "execute", Save(a, r), Begins(a, r)
      PROVE  Caches
  BY <1>7, SaveAdds
<1>8. "batch" \in Batch /\ "pipeline" \in Batch /\ "batch" \in Proxies
      /\ "predictor" \notin Batch /\ "feedback" \notin Batch
  BY DEF Batch, Proxies
<1>9. CASE a = "predictor" /\ (Refuse(r) \/ AcceptReload(r) \/ Forward(r))
  <2>1. Rest
    BY <1>9 DEF Refuse, AcceptReload, Forward, TypeOK
  <2> QED BY <1>2, <1>3, <1>5, <1>8, <1>9, <2>1 DEF Refuse, AcceptReload, Forward
<1>10. CASE a \in Proxies /\ AskProxy(a, r)
  <2>1. Rest /\ UNCHANGED <<cache, working>> /\ toSave' = toSave
    BY <1>10 DEF AskProxy, TypeOK
  <2>2. request[r].kind \in {"execute", "health"} /\ ~Told(request[r]) /\ r \in Requests
    BY <1>1, <1>10 DEF AskProxy
  <2>3. request[r].kind # "execute" \/ a \notin Batch
    BY <1>1, <2>2 DEF Told, Batch
  <2> QED BY <1>3, <1>4, <1>5, <1>6, <1>10, <2>1, <2>2, <2>3 DEF AskProxy
<1>11. CASE a = "feedback" /\ IgnoreReload(r)
  <2>1. Rest
    BY <1>11 DEF IgnoreReload, TypeOK
  <2> QED BY <1>2, <1>3, <1>5, <1>8, <1>11, <2>1 DEF IgnoreReload
<1>12. CASE a = "batch" /\ BatchExecute(r)
  <2>1. Rest /\ r \in Requests /\ request[r].kind = "execute"
    BY <1>1, <1>12 DEF BatchExecute, Takes, TypeOK
  <2> QED BY <1>2, <1>4, <1>5, <1>7, <1>8, <1>12, <2>1 DEF BatchExecute
<1>13. CASE a = "batch" /\ BatchReload(r)
  <2>1. Rest /\ request[r].kind = "reload"
    BY <1>8, <1>13 DEF BatchReload, Takes, TypeOK
  <2> QED BY <1>2, <1>3, <1>5, <1>13, <2>1 DEF BatchReload
<1>14. CASE a = "batch" /\ BatchMetrics(r)
  <2>1. Rest /\ request[r].kind = "metrics" /\ r \in Requests
    BY <1>1, <1>14 DEF BatchMetrics, Takes, TypeOK
  <2>2. Saves
    BY <1>14, <2>1, InAppend DEF BatchMetrics, TypeOK
  <2> QED BY <1>3, <1>5, <1>6, <1>14, <2>1, <2>2 DEF BatchMetrics
<1>15. CASE a \in Batch /\ ExecutionStatus(a, r)
  <2>1. Rest /\ request[r].kind = "status"
    BY <1>15 DEF ExecutionStatus, Takes, TypeOK
  <2> QED BY <1>2, <1>3, <1>5, <1>15, <2>1 DEF ExecutionStatus
<1>16. CASE a = "pipeline" /\ PipelineExecute(r)
  <2>1. Rest /\ r \in Requests /\ request[r].kind = "execute"
    BY <1>1, <1>16 DEF PipelineExecute, Takes, TypeOK
  <2> QED BY <1>2, <1>5, <1>7, <1>8, <1>16, <2>1 DEF PipelineExecute
<1> QED BY <1>9, <1>10, <1>11, <1>12, <1>13, <1>14, <1>15, <1>16 DEF Handles

-----------------------------------------------------------------------------
(* Restarts and stops                                                       *)

LEMMA DropTypes ==
    ASSUME TypeOK, NEW a, DropChildren(a)
    PROVE  toProxy' \in [Proxies -> Seq(Requests)] /\ toSave' \in Seq(Requests)
<1>1. <<>> \in Seq(Requests)
  BY InType
<1> QED BY <1>1 DEF DropChildren, TypeOK

LEMMA LifeFacts ==
    ASSUME TypeOK, LifeStep
    PROVE  /\ UNCHANGED <<request, http, inner, calls, rpc>>
           /\ toProxy' \in [Proxies -> Seq(Requests)] /\ toSave' \in Seq(Requests)
           /\ fsm' \in {"Unavailable", "Reloading", "Ready"}
           /\ restarting' \subseteq Batch /\ ignored' \subseteq Ids
           /\ cache' \in [Batch -> SUBSET Requests] /\ working' \in [Batch -> SUBSET Requests]
           /\ forgotten' \subseteq Requests /\ forgotten \subseteq forgotten'
           /\ \A b \in Batch : Adds(b, {})
           /\ mailbox' \in [Actors -> Seq(Ids)]
           /\ stopped' \subseteq Online \union Batch /\ stopped \subseteq stopped'
           /\ \A a \in Actors : \/ mailbox'[a] = mailbox[a] /\ (a \in stopped' => a \in stopped)
                                \/ mailbox'[a] = <<>> /\ a \in stopped'
<1>1. /\ toProxy \in [Proxies -> Seq(Requests)] /\ toSave \in Seq(Requests)
      /\ cache \in [Batch -> SUBSET Requests] /\ forgotten \subseteq Requests
      /\ mailbox \in [Actors -> Seq(Ids)] /\ stopped \subseteq Online \union Batch
      /\ fsm \in {"Unavailable", "Reloading", "Ready"}
      /\ working \in [Batch -> SUBSET Requests]
      /\ restarting \subseteq Batch /\ ignored \subseteq Ids
  BY DEF TypeOK
<1>2. CASE ReloadEnds
  BY <1>1, <1>2, NothingAdded DEF ReloadEnds
<1>4. CASE OnlineRestart
  BY <1>1, <1>4, DropTypes, NothingAdded DEF OnlineRestart
<1>5. ASSUME NEW b \in Batch, Restart(b)
      PROVE  /\ cache' \in [Batch -> SUBSET Requests] /\ working' \in [Batch -> SUBSET Requests]
             /\ forgotten' \subseteq Requests /\ forgotten \subseteq forgotten'
             /\ \A c \in Batch : Adds(c, {})
  BY <1>1, <1>5 DEF Restart, Adds
<1>6. ASSUME NEW b \in Batch, Restart(b)
      PROVE  /\ UNCHANGED <<request, http, inner, calls, rpc, fsm, ignored, mailbox,
                            stopped>>
             /\ toProxy' \in [Proxies -> Seq(Requests)] /\ toSave' \in Seq(Requests)
             /\ restarting' \subseteq Batch
  BY <1>1, <1>6, DropTypes DEF Restart
<1>7. ASSUME NEW b \in Online \union Batch, StopActor(b)
      PROVE  /\ UNCHANGED <<request, http, inner, calls, rpc, fsm, working, cache, ignored,
                            forgotten>>
             /\ toProxy' \in [Proxies -> Seq(Requests)] /\ toSave' \in Seq(Requests)
             /\ restarting' \subseteq Batch
             /\ stopped' = stopped \union {b} /\ mailbox' = [mailbox EXCEPT ![b] = <<>>]
  BY <1>1, <1>7, DropTypes DEF StopActor
<1>8. ASSUME NEW b \in Online \union Batch, StopActor(b)
      PROVE  /\ mailbox' \in [Actors -> Seq(Ids)]
             /\ stopped' \subseteq Online \union Batch /\ stopped \subseteq stopped'
             /\ \A a \in Actors : \/ mailbox'[a] = mailbox[a] /\ (a \in stopped' => a \in stopped)
                                  \/ mailbox'[a] = <<>> /\ a \in stopped'
  <2>1. b \in Actors /\ <<>> \in Seq(Ids)
    BY InType DEF Actors
  <2>2. stopped' = stopped \union {b} /\ mailbox' = [mailbox EXCEPT ![b] = <<>>]
    BY <1>7, <1>8
  <2> QED BY <1>1, <2>1, <2>2
<1>9. CASE \E b \in Batch : Restart(b)
  BY <1>1, <1>5, <1>6, <1>9
<1>10. CASE \E b \in Online \union Batch : StopActor(b)
  BY <1>1, <1>7, <1>8, <1>10, NothingAdded
<1> QED BY <1>2, <1>4, <1>9, <1>10 DEF LifeStep

\* The end of a job changes the cache, and may be a failure of the pipeline.
LEMMA EndFacts ==
    ASSUME TypeOK, EndStep
    PROVE  /\ UNCHANGED <<request, http, fsm, mailbox, stopped, asks, history>>
           /\ restarting' \subseteq Batch
           /\ cache' \in [Batch -> SUBSET Requests] /\ working' \in [Batch -> SUBSET Requests]
           /\ \E a \in Batch : \E r \in working[a] :
                 \A b \in Batch : Adds(b, IF b = a THEN {r} ELSE {})
<1>1. "batch" \in Batch /\ "pipeline" \in Batch
  BY DEF Batch
<1>2. PICK a \in Batch, r \in Requests :
         /\ r \in working[a] /\ Save(a, r) /\ Ends(a, r)
         /\ restarting' \in {restarting, restarting \union {"pipeline"}}
         /\ UNCHANGED <<request, http, fsm, mailbox, stopped, asks, history>>
  BY <1>1 DEF EndStep, BatchEnds, PipelineEnds
<1>3. restarting' \subseteq Batch
  BY <1>1, <1>2 DEF TypeOK
<1>4. /\ cache' \in [Batch -> SUBSET Requests] /\ working' \in [Batch -> SUBSET Requests]
      /\ Adds(a, {r}) /\ \A b \in Batch : b # a => Adds(b, {})
  BY <1>2, SaveAdds
<1>5. \A b \in Batch : Adds(b, IF b = a THEN {r} ELSE {})
  BY <1>4
<1> QED BY <1>2, <1>3, <1>4, <1>5

LEMMA TimeoutStep ==
    ASSUME TypeOK, NEW r \in Requests, AskTimesOut(r)
    PROVE  HttpStep /\ UNCHANGED <<request, actors, asks, history>>
<1>1. /\ request[r] # None /\ Reply(r, "TimeoutException")
      /\ UNCHANGED <<request, actors, asks, history>>
  BY DEF AskTimesOut
<1> QED BY <1>1, ReplyStep DEF Outcome

-----------------------------------------------------------------------------
(* The invariant is kept                                                    *)

LEMMA StepTypes == IInv /\ [Next]_vars => TypeOK'
<1> SUFFICES ASSUME IInv, [Next]_vars PROVE TypeOK'
  OBVIOUS
<1>1. TypeOK /\ Numbered /\ Named /\ Queued /\ Served
  BY DEF IInv
<1>2. ASSUME NEW r \in Requests, NEW m \in Messages, NewRequest(r, m) PROVE TypeOK'
  BY <1>1, <1>2, ArrivalOf, ArrivalAt DEF TypeOK
<1>3. ASSUME NEW r \in Requests, AskTimesOut(r) PROVE TypeOK'
  BY <1>1, <1>3, TimeoutStep DEF TypeOK, HttpStep
<1>4. ASSUME NEW a \in Actors, NEW r \in Ids, Handles(a, r) PROVE TypeOK'
  <2>1. http' \in [Requests -> HttpResponse \union {None}]
    BY <1>4, HandleAnswers DEF HttpStep
  <2>2. mailbox' \in [Actors -> Seq(Ids)]
    BY <1>1, <1>4, HandleMail
  <2>3. /\ UNCHANGED <<request, calls, rpc, stopped, forgotten>>
        /\ inner' \in [Requests -> {"none", "open", "over"}]
        /\ cache' \in [Batch -> SUBSET Requests] /\ working' \in [Batch -> SUBSET Requests]
        /\ toProxy' \in [Proxies -> Seq(Requests)] /\ toSave' \in Seq(Requests)
        /\ fsm' \in {"Unavailable", "Reloading", "Ready"}
        /\ restarting' \subseteq Batch /\ ignored' \subseteq Ids
    BY <1>1, <1>4, HandleStep
  <2> QED BY <1>1, <2>1, <2>2, <2>3 DEF TypeOK
<1>5. CASE ChildStep
  BY <1>1, <1>5, ChildAnswers DEF TypeOK, HttpStep, InnerStep
<1>6. CASE LifeStep
  BY <1>1, <1>6, LifeFacts DEF TypeOK
<1>7. CASE EndStep
  BY <1>1, <1>7, EndFacts DEF TypeOK
<1>8. CASE UNCHANGED vars
  BY <1>1, <1>8 DEF vars, TypeOK
<1> QED BY <1>2, <1>3, <1>4, <1>5, <1>6, <1>7, <1>8, Steps

\* What every step that brings no new request does to requests and responses.
LEMMA QuietStep ==
    ASSUME IInv, [Next]_vars
    PROVE  \/ \E r \in Requests : \E m \in Messages : NewRequest(r, m)
           \/ /\ HttpStep /\ request' = request /\ stopped \subseteq stopped'
              /\ forgotten \subseteq forgotten'
              /\ \A q \in Requests : inner'[q] = "open" =>
                    inner[q] = "open" \/ (request[q] # None /\ request[q].kind # "status")
<1>1. TypeOK /\ Numbered /\ Named /\ Queued /\ Served
  BY DEF IInv
<1>2. ASSUME NEW a \in Actors, NEW r \in Ids, Handles(a, r)
      PROVE  /\ HttpStep /\ request' = request /\ stopped \subseteq stopped'
             /\ forgotten \subseteq forgotten'
             /\ \A q \in Requests : inner'[q] = "open" =>
                   inner[q] = "open" \/ (request[q] # None /\ request[q].kind # "status")
  <2>1. HttpStep
    BY <1>2, HandleAnswers
  <2>2. /\ UNCHANGED <<request, stopped, forgotten>>
        /\ \A q \in Requests : inner'[q] = "open" =>
              inner[q] = "open" \/ (q = r /\ request[r].kind # "status")
    BY <1>1, <1>2, HandleStep
  <2>3. request[r] # None
    BY <1>1, <1>2, HandledOf
  <2> QED BY <2>1, <2>2, <2>3
<1>3. CASE ChildStep
  BY <1>1, <1>3, ChildAnswers DEF InnerStep
<1>4. CASE LifeStep
  BY <1>1, <1>4, LifeFacts, HttpStays
<1>5. CASE UNCHANGED vars
  BY <1>1, <1>5, HttpStays DEF vars
<1>6. CASE EndStep
  BY <1>1, <1>6, EndFacts, HttpStays
<1> QED BY <1>1, <1>2, <1>3, <1>4, <1>5, <1>6, TimeoutStep, Steps

\* Whether a job was accepted is settled when it arrives.
LEMMA AcceptedStays ==
    ASSUME Numbered, Served, HttpStep, request' = request, NEW j
    PROVE  j \in Accepted' <=> j \in Accepted
<1>1. Jobs' = Jobs
  BY DEF Jobs, Arrived, Told
<1>2. ASSUME j \in Jobs PROVE http'[j] = http[j]
  BY <1>2 DEF Jobs, Arrived, Served, HttpStep, Answered
<1> QED BY <1>1, <1>2 DEF Accepted

LEMMA AcceptedBefore ==
    ASSUME TypeOK, Numbered, Served, NEW r \in Requests, NEW m \in Messages,
           NewRequest(r, m), NEW j, j # r
    PROVE  j \in Accepted' <=> j \in Accepted
<1>1. ASSUME j \in Requests
      PROVE  request'[j] = request[j] /\ http'[j] = http[j]
  BY <1>1, ArrivalOf, ArrivalAt, Numbers
<1> QED BY <1>1 DEF Accepted, Jobs, Arrived, Told

LEMMA StepNumbered == IInv /\ [Next]_vars => Numbered'
<1> SUFFICES ASSUME IInv, [Next]_vars PROVE Numbered'
  OBVIOUS
<1>1. TypeOK /\ Numbered /\ Served
  BY DEF IInv
<1>2. ASSUME NEW r \in Requests, NEW m \in Messages, NewRequest(r, m) PROVE Numbered'
  <2>1. /\ request'[r] = m /\ m # None /\ \A q \in Ids : q # r => request'[q] = request[q]
        /\ \A q \in Requests : q < r => request[q] # None
        /\ \A q \in Ids : request[q] # None => q < r
    BY <1>1, <1>2, ArrivalOf
  <2>2. ASSUME NEW p \in Requests, NEW q \in Requests, p < q, request'[q] # None
        PROVE  request'[p] # None
    <3>1. CASE q = r
      BY <2>1, <2>2, <3>1, Numbers
    <3>2. CASE q # r
      BY <1>1, <2>1, <2>2, <3>2, Numbers DEF Numbered
    <3> QED BY <3>1, <3>2
  <2> QED BY <1>1, <2>1, <2>2, Numbers DEF Numbered
<1>3. CASE request' = request
  BY <1>1, <1>3 DEF Numbered
<1> QED BY <1>2, <1>3, QuietStep

LEMMA StepServed == IInv /\ [Next]_vars => Served'
<1> SUFFICES ASSUME IInv, [Next]_vars PROVE Served'
  OBVIOUS
<1>1. TypeOK /\ Numbered /\ Served
  BY DEF IInv
<1>2. ASSUME NEW r \in Requests, NEW m \in Messages, NewRequest(r, m) PROVE Served'
  <2>1. /\ request[r] = None /\ request'[r] = m /\ m # None /\ inner' = inner
        /\ \A q \in Requests : q # r => request'[q] = request[q] /\ http'[q] = http[q]
    BY <1>1, <1>2, ArrivalOf, ArrivalAt, Numbers
  <2>2. Told(m) => http'[r] # None
    <3>1. 400 # None /\ 200 # None
      BY Numbers DEF HttpResponse
    <3> QED BY <1>1, <1>2, <3>1, ArrivalAt
  <2>3. inner[r] # "open"
    BY <1>1, <2>1 DEF Served
  <2>4. ASSUME NEW q \in Requests
        PROVE  /\ http'[q] # None \/ inner'[q] = "open" => request'[q] # None
               /\ inner'[q] = "open" => request'[q].kind # "status"
               /\ request'[q] # None /\ Told(request'[q]) => http'[q] # None
    <3>1. CASE q = r
      BY <2>1, <2>2, <2>3, <3>1
    <3>2. CASE q # r
      BY <1>1, <2>1, <3>2 DEF Served
    <3> QED BY <3>1, <3>2
  <2> QED BY <2>4 DEF Served, Told
<1>3. CASE /\ HttpStep /\ request' = request
           /\ \A q \in Requests : inner'[q] = "open" =>
                 inner[q] = "open" \/ (request[q] # None /\ request[q].kind # "status")
  <2>1. ASSUME NEW q \in Requests
        PROVE  /\ http'[q] # None => request[q] # None
               /\ http[q] # None => http'[q] # None
    BY <1>1, <1>3 DEF Served, HttpStep, Answered
  <2> QED BY <1>1, <1>3, <2>1 DEF Served, Told
<1> QED BY <1>2, <1>3, QuietStep

LEMMA StepNamed == IInv /\ [Next]_vars => Named'
<1> SUFFICES ASSUME IInv, [Next]_vars PROVE Named'
  OBVIOUS
<1>1. TypeOK /\ Numbered /\ Served /\ Named
  BY DEF IInv
<1>2. ASSUME NEW r \in Requests, NEW m \in Messages, NewRequest(r, m),
             NEW q \in Requests, request'[q] # None,
             request'[q].kind = "status", request'[q].protocol # 0
      PROVE  LET p == request'[q].protocol IN
             p < q /\ p \in Accepted'
  <2>1. PICK p : p = request'[q].protocol
    OBVIOUS
  <2>2. p < q /\ p \in Accepted /\ p # r
    <3>1. /\ request'[r] = m /\ request[r] = None
          /\ m.kind = "status" /\ m.protocol # 0 => m.protocol < r /\ m.protocol \in Accepted
          /\ q # r => request'[q] = request[q]
      BY <1>1, <1>2, ArrivalOf, Numbers
    <3>2. p \in Accepted => p # r
      BY <3>1 DEF Accepted, Jobs, Arrived
    <3>3. CASE q = r
      BY <1>2, <2>1, <3>1, <3>2, <3>3
    <3>4. CASE q # r
      BY <1>1, <1>2, <2>1, <3>1, <3>2, <3>4 DEF Named, Arrived
    <3> QED BY <3>3, <3>4
  <2>3. p \in Accepted'
    BY <1>1, <1>2, <2>2, AcceptedBefore
  <2> QED BY <2>1, <2>2, <2>3
<1>3. ASSUME HttpStep, request' = request,
             NEW q \in Requests, request'[q] # None,
             request'[q].kind = "status", request'[q].protocol # 0
      PROVE  LET p == request'[q].protocol IN
             p < q /\ p \in Accepted'
  <2>1. PICK p : p = request[q].protocol
    OBVIOUS
  <2>2. p < q /\ p \in Accepted
    BY <1>1, <1>3, <2>1 DEF Named, Arrived
  <2>3. p \in Accepted'
    BY <1>1, <1>3, <2>2, AcceptedStays
  <2> QED BY <1>3, <2>1, <2>2, <2>3
<1> QED BY <1>2, <1>3, QuietStep DEF Named, Arrived

\* What Queued says of the mailbox q of actor a, if these are all requests.
InPlace(a, q, asked) ==
    /\ \A r \in In(q) :
          asked[r] # None /\ (a # "predictorActor" => asked[r].action = a)
    /\ a \in Batch => Chain(q, Earlier)

LEMMA QueuedIs ==
    /\ Queued <=> \A a \in Actors : /\ InPlace(a, mailbox[a], request)
                                    /\ a \in stopped => mailbox[a] = <<>>
    /\ Queued' <=> \A a \in Actors : /\ InPlace(a, mailbox'[a], request')
                                     /\ a \in stopped' => mailbox'[a] = <<>>
<1> QED BY DEF Queued, InPlace, In, Chain

LEMMA StepQueued == IInv /\ [Next]_vars => Queued'
<1> SUFFICES ASSUME IInv, [Next]_vars PROVE Queued'
  OBVIOUS
<1>1. TypeOK /\ Numbered /\ Served /\ Named /\ Queued
  BY DEF IInv
<1>2. \A a \in Actors : /\ InPlace(a, mailbox[a], request) /\ mailbox[a] \in Seq(Ids)
                        /\ a \in stopped => mailbox[a] = <<>>
  BY <1>1, QueuedIs DEF TypeOK
<1>3. ASSUME NEW r \in Requests, NEW m \in Messages, NewRequest(r, m), NEW a \in Actors
      PROVE  InPlace(a, mailbox'[a], request') /\ (a \in stopped' => mailbox'[a] = <<>>)
  <2>1. /\ request'[r] = m /\ m # None /\ stopped' = stopped
        /\ \A q \in Ids : q # r => request'[q] = request[q]
        /\ \A q \in Ids : request[q] # None => q < r
    BY <1>1, <1>3, ArrivalOf
  <2>2. r \in Ids /\ r \in Nat /\ Ids \subseteq Nat /\ In(mailbox[a]) \subseteq Ids
    BY <1>2, Numbers, InType
  <2>3. \A q \in In(mailbox[a]) : q < r /\ request'[q] = request[q]
    <3>1. ASSUME NEW q \in In(mailbox[a]) PROVE q \in Ids /\ request[q] # None
      BY <1>2, <2>2 DEF InPlace
    <3>2. \A q \in In(mailbox[a]) : q < r
      BY <2>1, <3>1
    <3>3. \A q \in Ids : q < r => q # r
      BY <2>2
    <3> QED BY <2>1, <3>1, <3>2, <3>3
  <2>4. InPlace(a, mailbox[a], request')
    BY <1>2, <2>3 DEF InPlace
  <2>5. CASE mailbox'[a] = mailbox[a]
    BY <1>2, <2>1, <2>4, <2>5
  <2>6. CASE mailbox'[a] # mailbox[a]
    <3>1. a = m.action /\ a \notin stopped /\ mailbox'[a] = Append(mailbox[a], r)
      BY <1>1, <1>3, <2>6, ArrivalAt
    <3>2. In(mailbox'[a]) = In(mailbox[a]) \union {r}
      BY <1>2, <2>2, <3>1, InAppend
    <3>3. \A q \in In(mailbox[a]) : <<q, r>> \in Earlier
      BY <2>2, <2>3 DEF Earlier
    <3>4. a \in Batch => Chain(mailbox'[a], Earlier)
      BY <1>2, <2>2, <3>1, <3>3, ChainAppend DEF InPlace
    <3> QED BY <2>1, <2>4, <3>1, <3>2, <3>4 DEF InPlace
  <2> QED BY <2>5, <2>6
<1>4. ASSUME NEW b \in Actors, NEW r \in Ids, Handles(b, r), NEW a \in Actors
      PROVE  InPlace(a, mailbox'[a], request') /\ (a \in stopped' => mailbox'[a] = <<>>)
  <2>1. request' = request /\ stopped' = stopped /\ request[r] # None
    BY <1>1, <1>4, HandleStep, HandledOf
  <2>2. CASE a = b
    <3>1. mailbox[a] # <<>> /\ mailbox'[a] = Tail(mailbox[a])
      BY <1>1, <1>4, <2>2, HandleMail
    <3>2. In(mailbox'[a]) \subseteq In(mailbox[a])
      BY <1>2, <3>1, InTail
    <3>3. a \in Batch => Chain(mailbox'[a], Earlier)
      BY <1>2, <3>1, ChainTail DEF InPlace
    <3> QED BY <1>2, <2>1, <3>1, <3>2, <3>3 DEF InPlace
  <2>3. CASE a # b /\ mailbox'[a] = mailbox[a]
    BY <1>2, <2>1, <2>3
  <2>4. CASE a = "predictorActor" /\ mailbox'[a] = Append(mailbox[a], r)
    <3>1. In(mailbox'[a]) = In(mailbox[a]) \union {r}
      BY <1>2, <2>4, InAppend
    <3>2. a \notin stopped /\ a \notin Batch
      BY <1>1, <2>4 DEF TypeOK, Online, Batch
    <3> QED BY <1>2, <2>1, <2>4, <3>1, <3>2 DEF InPlace
  <2> QED BY <1>1, <1>4, <2>2, <2>3, <2>4, HandleMail
<1>5. CASE LifeStep
  <2>1. \A a \in Actors : InPlace(a, <<>>, request)
    <3>1. In(<<>>) = {} /\ Chain(<<>>, Earlier)
      BY InType DEF Chain
    <3> QED BY <3>1 DEF InPlace
  <2> QED BY <1>1, <1>2, <1>5, <2>1, LifeFacts, QueuedIs
<1>6. CASE UNCHANGED <<request, mailbox, stopped>>
  BY <1>2, <1>6, QueuedIs
<1> QED
  BY <1>1, <1>3, <1>4, <1>5, <1>6, Steps, TimeoutStep, ChildAnswers, EndFacts, QueuedIs DEF vars

-----------------------------------------------------------------------------
(* Jobs in the mailbox, under way and in the cache                          *)

\* What is accepted stays so, and what comes to the mailbox of an action comes
\* after it.
LEMMA MailOf ==
    ASSUME IInv, [Next]_vars, NEW a \in Batch
    PROVE  /\ \A q \in Accepted : q \in Accepted' /\ request'[q] = request[q]
           /\ \A r \in In(mailbox'[a]) :
                 r \in In(mailbox[a]) \/ \A q \in Accepted : q < r
<1>1. TypeOK /\ Numbered /\ Served /\ Named /\ Queued
  BY DEF IInv
<1>2. a \in Actors /\ a # "predictorActor"
  BY DEF Actors, Batch
<1>3. mailbox[a] \in Seq(Ids)
  BY <1>1, <1>2 DEF TypeOK
<1>4. ASSUME NEW r \in Requests, NEW m \in Messages, NewRequest(r, m)
      PROVE  /\ \A q \in Accepted : q \in Accepted' /\ request'[q] = request[q]
             /\ \A x \in In(mailbox'[a]) :
                   x \in In(mailbox[a]) \/ \A q \in Accepted : q < x
  <2>1. \A q \in Accepted : q < r /\ q \in Ids
    BY <1>1, <1>4, ArrivalOf, Numbers DEF Accepted, Jobs, Arrived
  <2>2. \A q \in Ids : q < r => q # r
    BY Numbers
  <2>3. \A q \in Accepted : q # r /\ request'[q] = request[q]
    BY <1>1, <1>4, <2>1, <2>2, ArrivalOf
  <2>4. \A q \in Accepted : q \in Accepted'
    BY <1>1, <1>4, <2>3, AcceptedBefore
  <2>5. mailbox'[a] = mailbox[a] \/ mailbox'[a] = Append(mailbox[a], r)
    BY <1>1, <1>2, <1>4, ArrivalAt
  <2>6. In(Append(mailbox[a], r)) = In(mailbox[a]) \union {r}
    BY <1>3, Numbers, InAppend
  <2>7. \A x \in In(mailbox'[a]) : x \in In(mailbox[a]) \/ x = r
    BY <2>5, <2>6
  <2> QED BY <2>1, <2>3, <2>4, <2>7
<1>5. CASE HttpStep /\ request' = request
  <2>1. \A q \in Accepted : q \in Accepted'
    BY <1>1, <1>5, AcceptedStays
  <2>2. ASSUME NEW b \in Actors, NEW r \in Ids, Handles(b, r)
        PROVE  In(mailbox'[a]) \subseteq In(mailbox[a])
    <3>1. CASE b = a
      BY <1>1, <1>3, <2>2, <3>1, HandleMail, InTail
    <3>2. CASE b # a
      BY <1>1, <1>2, <2>2, <3>2, HandleMail
    <3> QED BY <3>1, <3>2
  <2>3. CASE LifeStep
    BY <1>1, <1>2, <1>5, <2>1, <2>3, LifeFacts, InType
  <2>4. CASE UNCHANGED mailbox
    BY <1>5, <2>1, <2>4
  <2>5. CASE \E r \in Requests : \E m \in Messages : NewRequest(r, m)
    BY <1>4, <2>5
  <2> QED BY <1>1, <1>5, <2>1, <2>2, <2>3, <2>4, <2>5, Steps, TimeoutStep, ChildAnswers,
             EndFacts DEF vars
<1> QED BY <1>4, <1>5, QuietStep

LEMMA HandledIs ==
    ASSUME NEW a
    PROVE  Handled(a)' = {q \in Accepted' : /\ request'[q].action = a
                                            /\ \A r \in In(mailbox'[a]) : q < r}
<1> QED BY DEF Handled, In

LEMMA HandledGrows ==
    ASSUME IInv, [Next]_vars, NEW a \in Batch
    PROVE  Handled(a) \subseteq Handled(a)' /\ Handled(a)' \subseteq Requests
<1>1. Handled(a) \subseteq Handled(a)'
  BY MailOf, HandledIs DEF Handled
<1>2. Handled(a)' \subseteq Requests
  BY HandledIs DEF Accepted, Jobs, Arrived
<1> QED BY <1>1, <1>2

\* The jobs that a step begins or ends have been taken from the mailbox, and it
\* takes no others from it, unless the actor stops.
LEMMA JobsAdded ==
    ASSUME IInv, [Next]_vars, NEW a \in Batch
    PROVE  \E new \in SUBSET Handled(a)' :
              /\ Adds(a, new)
              /\ \A j \in Accepted \intersect In(mailbox[a]) :
                    j \in In(mailbox'[a]) \union new \/ a \in stopped'
<1>1. TypeOK /\ Numbered /\ Served /\ Named /\ Queued /\ Cached
  BY DEF IInv
<1>2. a \in Actors /\ a # "predictorActor"
  BY DEF Actors, Batch
<1>3. mailbox[a] \in Seq(Ids)
  BY <1>1, <1>2 DEF TypeOK
<1>4. ASSUME Adds(a, {}), In(mailbox[a]) \subseteq In(mailbox'[a]) \/ a \in stopped'
      PROVE  \E new \in SUBSET Handled(a)' :
                /\ Adds(a, new)
                /\ \A j \in Accepted \intersect In(mailbox[a]) :
                      j \in In(mailbox'[a]) \union new \/ a \in stopped'
  <2>1. {} \in SUBSET Handled(a)'
    OBVIOUS
  <2> QED BY <1>4, <2>1
<1>5. ASSUME NEW r \in Requests, NEW m \in Messages, NewRequest(r, m)
      PROVE  Adds(a, {}) /\ In(mailbox[a]) \subseteq In(mailbox'[a])
  <2>1. cache'[a] = cache[a] /\ working'[a] = working[a]
    BY <1>1, <1>5, ArrivalOf
  <2>2. mailbox'[a] = mailbox[a] \/ mailbox'[a] = Append(mailbox[a], r)
    BY <1>1, <1>2, <1>5, ArrivalAt
  <2>3. In(Append(mailbox[a], r)) = In(mailbox[a]) \union {r}
    BY <1>3, Numbers, InAppend
  <2> QED BY <2>1, <2>2, <2>3, NothingAdded
<1>6. ASSUME NEW b \in Actors, NEW r \in Ids, Handles(b, r)
      PROVE  \E new \in SUBSET Handled(a)' :
                /\ Adds(a, new)
                /\ \A j \in Accepted \intersect In(mailbox[a]) :
                      j \in In(mailbox'[a]) \union new \/ a \in stopped'
  <2>1. Adds(a, IF a = b /\ request[r].kind = "execute" THEN {r} ELSE {})
    BY <1>1, <1>6, HandleStep
  <2>2. CASE a # b
    <3>1. mailbox'[a] = mailbox[a]
      BY <1>1, <1>2, <1>6, <2>2, HandleMail
    <3> QED BY <1>4, <2>1, <2>2, <3>1
  <2>3. CASE a = b
    <3>1. /\ mailbox[a] # <<>> /\ r = Head(mailbox[a]) /\ mailbox'[a] = Tail(mailbox[a])
          /\ r \in In(mailbox[a])
      BY <1>1, <1>6, <2>3, HandleMail
    <3>2. In(mailbox[a]) = {r} \union In(mailbox'[a])
      BY <1>3, <3>1, InTail
    <3>3. request[r] # None /\ request[r].action = a
      BY <1>1, <1>2, <3>1 DEF Queued
    <3>4. CASE request[r].kind # "execute"
      <4>1. r \notin Accepted
        BY <3>4 DEF Accepted, Jobs
      <4>2. {} \in SUBSET Handled(a)'
        OBVIOUS
      <4> QED BY <2>1, <3>2, <3>4, <4>1, <4>2
    <3>5. CASE request[r].kind = "execute"
      <4>1. r \in Requests /\ http[r] = 200
        BY <1>1, <1>2, <1>6, <2>3, <3>1, <3>5, HandledOf DEF Cached
      <4>2. r \in Accepted
        BY <3>3, <3>5, <4>1 DEF Accepted, Jobs, Arrived, Told
      <4>3. Chain(mailbox[a], Earlier)
        BY <1>1, <1>2 DEF Queued
      <4>4. \A x \in In(mailbox'[a]) : <<r, x>> \in Earlier
        BY <1>3, <3>1, <4>3, ChainTail
      <4>5. \A x \in In(mailbox'[a]) : r < x
        BY <4>4 DEF Earlier
      <4>6. r \in Accepted' /\ request'[r].action = a
        BY <3>3, <4>2, MailOf
      <4>7. {r} \in SUBSET Handled(a)'
        BY <4>5, <4>6, HandledIs
      <4>8. Adds(a, {r})
        BY <2>1, <2>3, <3>5
      <4> QED BY <3>2, <4>7, <4>8
    <3> QED BY <3>4, <3>5
  <2> QED BY <2>2, <2>3
<1>7. CASE EndStep
  <2>1. PICK b \in Batch : \E r \in working[b] :
           \A c \in Batch : Adds(c, IF c = b THEN {r} ELSE {})
    BY <1>1, <1>7, EndFacts
  <2>2. PICK r \in working[b] : \A c \in Batch : Adds(c, IF c = b THEN {r} ELSE {})
    BY <2>1
  <2>3. mailbox'[a] = mailbox[a]
    BY <1>1, <1>7, EndFacts
  <2>4. CASE a # b
    BY <1>4, <2>2, <2>3, <2>4
  <2>5. CASE a = b
    <3>1. {r} \in SUBSET Handled(a)'
      BY <1>1, <2>5, HandledGrows DEF Cached
    <3>2. Adds(a, {r})
      BY <2>2, <2>5
    <3> QED BY <2>3, <3>1, <3>2
  <2> QED BY <2>4, <2>5
<1>8. CASE LifeStep
  BY <1>1, <1>2, <1>4, <1>8, LifeFacts
<1>9. CASE UNCHANGED actors
  BY <1>4, <1>9, NothingAdded
<1> QED BY <1>1, <1>4, <1>5, <1>6, <1>7, <1>8, <1>9, Steps, TimeoutStep, ChildAnswers
        DEF vars

LEMMA StepCached == IInv /\ [Next]_vars => Cached'
<1> SUFFICES ASSUME IInv, [Next]_vars PROVE Cached'
  OBVIOUS
<1>1. TypeOK /\ Numbered /\ Served /\ Named /\ Queued /\ Cached
  BY DEF IInv
<1>2. ASSUME NEW a \in Batch
      PROVE  cache'[a] \union working'[a] \subseteq Handled(a)'
  <2>1. PICK new \in SUBSET Handled(a)' : Adds(a, new)
    BY JobsAdded
  <2>2. cache[a] \union working[a] \subseteq Handled(a)'
    BY <1>1, HandledGrows DEF Cached
  <2> QED BY <2>1, <2>2 DEF Adds
<1>3. ASSUME NEW a \in Batch, NEW q \in In(mailbox'[a]), request'[q].kind = "execute"
      PROVE  http'[q] = 200
  <2>1. a \in Actors /\ a # "predictorActor" /\ 200 # None
    BY Numbers DEF Actors, Batch, HttpResponse
  <2>2. mailbox[a] \in Seq(Ids) /\ In(mailbox[a]) \subseteq Ids
    BY <1>1, <2>1, InType DEF TypeOK
  <2>3. \A x \in In(mailbox[a]) : request[x] # None /\ request[x].action = a
    BY <1>1, <2>1 DEF Queued
  <2>4. ASSUME NEW r \in Requests, NEW m \in Messages, NewRequest(r, m)
        PROVE  http'[q] = 200
    <3>1. /\ \A x \in Ids : x # r => request'[x] = request[x]
          /\ request[r] = None /\ request'[r] = m
          /\ \A x \in Requests : x # r => http'[x] = http[x]
      BY <1>1, <2>4, ArrivalOf, ArrivalAt
    <3>2. In(Append(mailbox[a], r)) = In(mailbox[a]) \union {r}
      BY <2>2, Numbers, InAppend
    <3>3. CASE q \in In(mailbox[a])
      <4>1. q # r /\ q \in Ids
        BY <2>2, <2>3, <3>1, <3>3
      <4>2. request[q].kind = "execute"
        BY <1>3, <3>1, <4>1
      <4>3. q \in Requests
        BY <1>1, <4>1, <4>2, Numbers DEF Numbered, Message
      <4> QED BY <1>1, <3>1, <3>3, <4>1, <4>2, <4>3 DEF Cached
    <3>4. CASE q \notin In(mailbox[a])
      <4>1. a = m.action /\ mailbox'[a] = Append(mailbox[a], r)
        BY <1>1, <1>3, <2>1, <2>4, <3>4, ArrivalAt
      <4>2. q = r /\ mailbox'[a] # mailbox[a]
        BY <1>3, <3>2, <3>4, <4>1
      <4>3. Told(m)
        BY <1>3, <3>1, <4>1, <4>2 DEF Told
      <4> QED BY <1>1, <2>4, <4>1, <4>2, <4>3, ArrivalAt
    <3> QED BY <3>3, <3>4
  <2>5. CASE HttpStep /\ request' = request /\ q \in In(mailbox[a])
    <3>1. q \in Requests
      BY <1>1, <1>3, <2>2, <2>5, Numbers DEF Numbered, Message
    <3>2. http[q] = 200
      BY <1>1, <1>3, <2>5 DEF Cached
    <3> QED BY <2>1, <2>5, <3>1, <3>2 DEF HttpStep, Answered
  <2>6. CASE \E r \in Requests : \E m \in Messages : NewRequest(r, m)
    BY <2>4, <2>6
  <2>7. ASSUME HttpStep, request' = request PROVE http'[q] = 200
    <3>1. ASSUME NEW b \in Actors, NEW r \in Ids, Handles(b, r)
          PROVE  q \in In(mailbox[a])
      <4>1. CASE b = a
        BY <1>1, <1>3, <2>2, <3>1, <4>1, HandleMail, InTail
      <4>2. CASE b # a
        BY <1>1, <1>3, <2>1, <3>1, <4>2, HandleMail
      <4> QED BY <4>1, <4>2
    <3>2. CASE LifeStep
      BY <1>1, <1>3, <2>1, <2>5, <2>7, <3>2, LifeFacts, InType
    <3>3. CASE UNCHANGED mailbox
      BY <1>3, <2>5, <2>7, <3>3
    <3> QED BY <1>1, <2>5, <2>6, <2>7, <3>1, <3>2, <3>3, Steps, TimeoutStep, ChildAnswers,
               EndFacts DEF vars
  <2> QED BY <2>4, <2>7, QuietStep
<1>4. Cached' <=> \A a \in Batch :
         /\ cache'[a] \union working'[a] \subseteq Handled(a)'
         /\ \A r \in In(mailbox'[a]) : request'[r].kind = "execute" => http'[r] = 200
  BY DEF Cached, In
<1> QED BY <1>2, <1>3, <1>4

LEMMA StepKept == IInv /\ [Next]_vars => Kept'
<1> SUFFICES ASSUME IInv, [Next]_vars, NEW j \in Accepted', NEW a, a = request'[j].action
             PROVE  \/ j \in In(mailbox'[a]) \union cache'[a] \union forgotten'
                    \/ a \in stopped'
                    \/ Cardinality(Handled(a)') > CacheSize
  BY DEF Kept, In
<1>1. TypeOK /\ Numbered /\ Served /\ Named /\ Queued /\ Cached /\ Kept
  BY DEF IInv
<1>2. a \in Batch /\ j \in Requests
  BY DEF Accepted, Jobs, Told, Arrived
<1>3. a \in Actors
  BY <1>2 DEF Actors
<1>4. mailbox[a] \in Seq(Ids)
  BY <1>1, <1>3 DEF TypeOK
<1>5. ASSUME j \in Accepted, forgotten \subseteq forgotten', stopped \subseteq stopped'
      PROVE  \/ j \in In(mailbox'[a]) \union cache'[a] \union forgotten'
             \/ a \in stopped'
             \/ Cardinality(Handled(a)') > CacheSize
  <2>1. a = request[j].action
    BY <1>2, <1>5, MailOf
  <2>2. \/ j \in In(mailbox[a]) \union cache[a] \union forgotten
        \/ a \in stopped
        \/ Cardinality(Handled(a)) > CacheSize
    BY <1>1, <1>5, <2>1 DEF Kept
  <2>3. PICK new \in SUBSET Handled(a)' :
           /\ Adds(a, new)
           /\ \A k \in Accepted \intersect In(mailbox[a]) :
                 k \in In(mailbox'[a]) \union new \/ a \in stopped'
    BY <1>2, JobsAdded
  <2>4. /\ Handled(a) \subseteq Handled(a)' /\ Handled(a)' \subseteq Requests
        /\ cache[a] \union new \subseteq Handled(a)'
    BY <1>1, <1>2, HandledGrows DEF Cached
  <2>5. ASSUME j \in cache[a] \union new
        PROVE  \/ j \in cache'[a] \union forgotten'
               \/ Cardinality(Handled(a)') > CacheSize
    BY <2>3, <2>4, <2>5, MoreRequests DEF Adds
  <2>6. Cardinality(Handled(a)) > CacheSize => Cardinality(Handled(a)') > CacheSize
    BY <2>4, MoreRequests
  <2> QED BY <1>5, <2>2, <2>3, <2>5, <2>6
<1>6. ASSUME NEW r \in Requests, NEW m \in Messages, NewRequest(r, m)
      PROVE  \/ j \in In(mailbox'[a]) \union cache'[a] \union forgotten'
             \/ a \in stopped'
             \/ Cardinality(Handled(a)') > CacheSize
  <2>1. forgotten' = forgotten /\ stopped' = stopped /\ request'[r] = m
    BY <1>1, <1>6, ArrivalOf
  <2>2. CASE j = r
    <3>1. http'[r] = 200 /\ a = m.action
      BY <2>1, <2>2 DEF Accepted
    <3>2. http'[r] # 400 /\ http'[r] # None
      BY <3>1, Numbers DEF HttpResponse
    <3>3. a \in stopped \/ mailbox'[a] = Append(mailbox[a], r)
      BY <1>1, <1>6, <3>1, <3>2, ArrivalAt
    <3>4. r \in In(Append(mailbox[a], r))
      BY <1>4, Numbers, InAppend
    <3> QED BY <2>1, <2>2, <3>3, <3>4
  <2>3. CASE j # r
    <3>1. j \in Accepted
      BY <1>1, <1>6, <2>3, AcceptedBefore
    <3> QED BY <1>5, <2>1, <3>1
  <2> QED BY <2>2, <2>3
<1>7. CASE /\ HttpStep /\ request' = request
           /\ stopped \subseteq stopped' /\ forgotten \subseteq forgotten'
  <2>1. j \in Accepted
    BY <1>1, <1>7, AcceptedStays
  <2> QED BY <1>5, <1>7, <2>1
<1> QED BY <1>6, <1>7, QuietStep

-----------------------------------------------------------------------------
(* Answers about jobs                                                       *)

\* AcceptedIsFound in the terms of the lemmas.
LEMMA AnswersAre ==
    ASSUME TypeOK
    PROVE  AcceptedIsFound <=>
              \A r \in Requests : request[r] # None /\ http[r] = 503 =>
                  \A j \in Ids : AsksFor(r, j) => Excused(r, j)
<1>1. \A r \in Requests : request[r] # None => request[r].protocol \in Ids
  BY Numbers DEF TypeOK, HttpRequest
<1> QED BY <1>1 DEF AcceptedIsFound, AsksFor, Excused, Arrived

\* Which jobs came before a request is settled when it arrives.
LEMMA BeforeStays ==
    ASSUME IInv, [Next]_vars, NEW r \in Requests, request[r] # None
    PROVE  request'[r] = request[r] /\ Before(r) \subseteq Before(r)'
           /\ Before(r)' \subseteq Requests
<1>1. TypeOK /\ Numbered /\ Served
  BY DEF IInv
<1>2. request'[r] = request[r]
  BY <1>1, ArrivalOf, QuietStep, Numbers
<1>3. \A q \in Accepted : q \in Accepted' /\ request'[q] = request[q]
  <2>1. "batch" \in Batch
    BY DEF Batch
  <2> QED BY <2>1, MailOf
<1>4. Before(r)' \subseteq Requests
  BY DEF Before, Accepted, Jobs, Arrived
<1> QED BY <1>2, <1>3, <1>4 DEF Before

LEMMA ExcusedStays ==
    ASSUME IInv, [Next]_vars, NEW r \in Requests, request[r] # None, NEW j,
           Excused(r, j), forgotten \subseteq forgotten'
    PROVE  Excused(r, j)'
<1>1. /\ Before(r) \subseteq Before(r)' /\ Before(r)' \subseteq Requests
  BY BeforeStays
<1>2. Cardinality(Before(r)) > CacheSize => Cardinality(Before(r)') > CacheSize
  BY <1>1, MoreRequests
<1> QED BY <1>2 DEF Excused

LEMMA StepAnswers == IInv /\ [Next]_vars => AcceptedIsFound'
<1> SUFFICES ASSUME IInv, [Next]_vars PROVE AcceptedIsFound'
  OBVIOUS
<1>1. TypeOK /\ TypeOK' /\ Numbered /\ Served /\ Named /\ AcceptedIsFound
  BY StepTypes DEF IInv
<1>2. ASSUME NEW q \in Requests, request[q] # None, http[q] = 503,
             NEW j \in Ids, AsksFor(q, j)
      PROVE  Excused(q, j)
  BY <1>1, <1>2, AnswersAre
<1>3. ASSUME NEW q \in Requests, request[q] # None, NEW j \in Ids, AsksFor(q, j)'
      PROVE  AsksFor(q, j)
  <2>1. request'[q] = request[q]
    BY <1>3, BeforeStays
  <2>2. request[q].kind = "status" /\ j = request[q].protocol /\ j # 0
    BY <1>3, <2>1 DEF AsksFor
  <2>3. j \in Accepted
    BY <1>1, <1>3, <2>2 DEF Named, Arrived
  <2>4. request'[j] = request[j]
    <3>1. "batch" \in Batch
      BY DEF Batch
    <3> QED BY <2>3, <3>1, MailOf
  <2> QED BY <1>3, <2>1, <2>4 DEF AsksFor
<1>4. ASSUME NEW r \in Requests, NEW m \in Messages, NewRequest(r, m),
             NEW q \in Requests, request'[q] # None, http'[q] = 503,
             NEW j \in Ids, AsksFor(q, j)'
      PROVE  Excused(q, j)'
  <2>1. /\ request'[r] = m /\ forgotten' = forgotten
        /\ \A p \in Ids : p # r => request'[p] = request[p]
        /\ \A p \in Requests : p # r => http'[p] = http[p]
    BY <1>1, <1>4, ArrivalOf, ArrivalAt
  <2>2. http'[r] # 503
    <3>1. 503 # None
      BY Numbers DEF HttpResponse
    <3> QED BY <1>1, <1>4, <3>1, ArrivalAt
  <2>3. q # r /\ request[q] # None /\ http[q] = 503
    BY <1>4, <2>1, <2>2, Numbers
  <2>4. Excused(q, j)
    BY <1>2, <1>3, <1>4, <2>3
  <2> QED BY <2>1, <2>3, <2>4, ExcusedStays
<1>5. ASSUME HttpStep, request' = request, forgotten \subseteq forgotten',
             NEW q \in Requests, request'[q] # None, http'[q] = 503,
             NEW j \in Ids, AsksFor(q, j)'
      PROVE  Excused(q, j)'
  <2>1. request[q] # None /\ AsksFor(q, j)
    BY <1>3, <1>5
  <2>2. Excused(q, j)
    BY <1>2, <1>5, <2>1 DEF HttpStep, Answered
  <2> QED BY <1>5, <2>1, <2>2, ExcusedStays
<1>6. ASSUME NEW q \in Requests, request'[q] # None, http'[q] = 503,
             NEW j \in Ids, AsksFor(q, j)'
      PROVE  Excused(q, j)'
  BY <1>4, <1>5, <1>6, QuietStep
<1>7. \A r \in Requests : request'[r] # None => request'[r].protocol \in Ids
  BY <1>1, Numbers DEF TypeOK, HttpRequest
<1> QED BY <1>6, <1>7 DEF AcceptedIsFound, AsksFor, Excused, Arrived

-----------------------------------------------------------------------------
(* The theorems                                                             *)

LEMMA Invariance == Spec => []IInv
<1>1. IInv /\ [Next]_vars => IInv'
  BY StepTypes, StepNumbered, StepServed, StepNamed, StepQueued, StepCached, StepKept,
     StepAnswers
  DEF IInv
<1> QED BY <1>1, InitInv, PTL DEF Spec

\* Requests, responses, mailboxes and asks have their types; no outcome has a
\* status code that the handlers do not give.
THEOREM Types == Spec => []TypeOK
<1>1. IInv => TypeOK
  BY DEF IInv
<1> QED BY <1>1, Invariance, PTL

\* A job that was accepted is never answered "not found", unless a restart has
\* deleted its status or the client asks behind more jobs than the cache has room
\* for: the status request is behind the job in the same mailbox, and the actor
\* notes the job before it looks at what comes next.
THEOREM AcceptedJobsAreFound == Spec => []AcceptedIsFound
<1>1. IInv => AcceptedIsFound
  BY DEF IInv
<1> QED BY <1>1, Invariance, PTL
=============================================================================
