------------------------------ MODULE Serving ------------------------------
(***************************************************************************)
(* The FastAPI application of src/mac_llm_ops_lab/app.py: lifespan, the    *)
(* request middleware, the route handlers and the server-sent-event        *)
(* generator, for any number of requests in flight on one event loop.      *)
(*                                                                         *)
(* A step runs from one `await` or `yield` to the next.  Two tasks carry a *)
(* streaming request, the middleware (`pc`) and the event generator        *)
(* (`gen`), and the client can leave in between.  The backend is external: *)
(* a call to it answers or raises at any later step.                       *)
(***************************************************************************)
EXTENDS Metrics, Sequences, FiniteSets

CONSTANTS
  Requests,       \* requests the clients ever send
  Kinds,          \* what they send, a subset of AllKinds
  Allowlist,      \* settings.model_allowlist; empty: every model is allowed
  BackendModels,  \* ids backend.list_models() returns
  NoModel,        \* request.state.model_id is unset
  MaxChunks,      \* bound on the content chunks of a stream
  TokenCounts     \* word counts a generated text may have

\* "undecodable" is a chat body that is no text, "invalid" one that fails
\* validation, "chat" and "stream" are valid bodies with stream = false and
\* stream = true; "wrong_method" is any method a route does not have.
ChatKinds == {"chat", "stream"}
AllKinds == Routes \cup {"undecodable", "invalid", "stream", "wrong_method"}

\* The routes a request of some kind may match.
RoutesOf(kind) ==
  IF kind = "wrong_method" THEN Routes \ {"unrouted"}
  ELSE {IF kind \in Routes THEN kind ELSE "chat"}

\* Finitely many requests, and the models they can name.
ASSUME RequestsAssumption == IsFiniteSet(Requests)
ASSUME KindsAssumption == Kinds \subseteq AllKinds
ASSUME ModelsAssumption ==
  /\ IsFiniteSet(Models)
  /\ NoModel \notin Models
  /\ Allowlist \subseteq Models
  /\ BackendModels \subseteq Models
ASSUME BoundsAssumption == MaxChunks \in Nat /\ TokenCounts \subseteq Nat

VARIABLES
  lifespan,  \* the application: "created", "serving", "draining", ...
  upstream,  \* TRUE while the model server behind the backend can answer
  req,       \* req[r]: kind, model and route of request r
  pc,        \* pc[r]: where the middleware and the handler of r are
  reply,     \* reply[r]: status of r's response and request.state.error_code
  gen,       \* gen[r]: where r's _stream_events generator is suspended
  sent,      \* sent[r]: the events that generator has yielded
  client,    \* client[r]: "connected", "stalled", "left", or "dropped" by
             \* the server
  called,    \* models that were passed to backend.generate / backend.stream
  listed,    \* models that /v1/models ever showed
  metrics    \* app.state.metrics

vars == <<lifespan, upstream, req, pc, reply, gen, sent, client, called,
          listed, metrics>>
streamVars == <<gen, sent, client>>
modelVars == <<called, listed>>

Payloads ==
  {p \in [kind : AllKinds, model : Models \cup {NoModel}, route : Routes] :
     (p.kind \in ChatKinds <=> p.model # NoModel) /\ p.route \in RoutesOf(p.kind)}
NoPayload == [kind |-> "live", model |-> NoModel, route |-> "live"]
Replies == [status : Statuses, code : ErrorCodes \cup {""}]
OK == [status |-> 200, code |-> ""]
Events == {"role", "content", "stop", "error", "done"}
Generators == {"none", "created", "role", "waiting", "content", "stop",
               "error", "done", "ended"}
Places == {"new", "routing", "awaiting", "answering", "recorded", "unhandled"}

\* _request_route(): the router notes the route even if the method is wrong.
Route(r) == req[r].route

Content(r) == Cardinality({i \in DOMAIN sent[r] : sent[r][i] = "content"})

Init ==
  /\ lifespan = "created"
  /\ upstream \in BOOLEAN
  /\ req = [r \in Requests |-> NoPayload]
  /\ pc = [r \in Requests |-> "new"]
  /\ reply = [r \in Requests |-> OK]
  /\ gen = [r \in Requests |-> "none"]
  /\ sent = [r \in Requests |-> <<>>]
  /\ client = [r \in Requests |-> "connected"]
  /\ called = {}
  /\ listed = {}
  /\ metrics = InMemoryMetrics

-----------------------------------------------------------------------------
(* Lifespan.                                                               *)

requestVars == <<upstream, req, pc, reply, gen, sent, client, called, listed,
                 metrics>>

\* `await backend.load()` returns and the application starts serving.
Load == lifespan = "created" /\ lifespan' = "serving" /\ UNCHANGED requestVars

\* It raises: the lifespan never yields, and close() is not called.
LoadFails ==
  lifespan = "created" /\ lifespan' = "failed" /\ UNCHANGED requestVars

\* SIGTERM: the server stops accepting requests and waits for its tasks.
BeginDrain ==
  lifespan = "serving" /\ lifespan' = "draining" /\ UNCHANGED requestVars

\* A generator its task no longer iterates is not waited for: the event loop
\* closes it on its own.
TaskActive(r) ==
  \/ pc[r] \in {"routing", "awaiting", "answering"}
  \/ gen[r] \notin {"none", "ended"} /\ client[r] # "dropped"

\* Mutant: a request that ended in an exception counts as outstanding.
CloseBackendAllRecorded ==
  /\ lifespan = "draining"
  /\ \A r \in Requests : ~TaskActive(r) /\ pc[r] # "unhandled"
  /\ lifespan' = "closed"
  /\ UNCHANGED requestVars

\* The `finally` of the lifespan: `await backend.close()`.  That the lifespan is
\* resumed when no task is active, and no earlier, is the ASGI server's doing;
\* cli.py sets it no limit for the shutdown.
CloseBackend ==
  /\ lifespan = "draining"
  /\ \A r \in Requests : ~TaskActive(r)
  /\ lifespan' = "closed"
  /\ UNCHANGED requestVars

\* The model server goes away or comes back.
UpstreamFlips ==
  /\ lifespan \in {"serving", "draining"}
  /\ upstream' = ~upstream
  /\ UNCHANGED <<lifespan, req, pc, reply, gen, sent, client, called, listed,
                 metrics>>
-----------------------------------------------------------------------------
(* Handlers.                                                               *)

\* r enters the middleware.
Arrive(r, kind, model) ==
  /\ lifespan = "serving"
  /\ pc[r] = "new"
  /\ (kind \in ChatKinds) <=> (model # NoModel)
  /\ \E route \in RoutesOf(kind) :
       req' = [req EXCEPT ![r] = [kind |-> kind, model |-> model, route |-> route]]
  /\ pc' = [pc EXCEPT ![r] = "routing"]
  /\ UNCHANGED <<lifespan, upstream, reply, streamVars, modelVars, metrics>>

Goto(r, from, to) == pc[r] = from /\ pc' = [pc EXCEPT ![r] = to]

\* The handler, or the exception handler that catches what it raised, has
\* built the response; call_next has not returned it yet.
Answer(r, from, status, code) ==
  /\ Goto(r, from, "answering")
  /\ reply' = [reply EXCEPT ![r] = [status |-> status, code |-> code]]
  /\ UNCHANGED <<lifespan, upstream, req>>

\* live() and metrics_snapshot() do not await.
AnswerLocally(r) ==
  /\ req[r].kind \in {"live", "snapshot"}
  /\ Answer(r, "routing", 200, "")
  /\ UNCHANGED <<streamVars, modelVars, metrics>>

\* No route of app.py: the router redirects or finds nothing, or a page of
\* FastAPI's own answers.  What the router raises is not the HTTPException
\* class that http_exception_handler is registered for: no error code is set.
AnswerUnrouted(r) ==
  /\ req[r].kind = "unrouted"
  /\ \E status \in {200, 307, 404, 405} : Answer(r, "routing", status, "")
  /\ UNCHANGED <<streamVars, modelVars, metrics>>

\* The router's own 405 on a route it has matched: no error code either.
AnswerWrongMethod(r) ==
  /\ req[r].kind = "wrong_method"
  /\ Answer(r, "routing", 405, "")
  /\ UNCHANGED <<streamVars, modelVars, metrics>>

\* FastAPI raises HTTPException(400) for a body it cannot decode, with a text
\* for its detail: http_exception_handler finds no code in it.
RejectUndecodable(r) ==
  /\ req[r].kind = "undecodable"
  /\ Answer(r, "routing", 400, "http_error")
  /\ UNCHANGED <<streamVars, modelVars, metrics>>

\* validation_exception_handler.
RejectInvalid(r) ==
  /\ req[r].kind = "invalid"
  /\ Answer(r, "routing", 422, "request_validation_failed")
  /\ UNCHANGED <<streamVars, modelVars, metrics>>

\* ready() and models() await the backend.
AskBackend(r) ==
  /\ req[r].kind \in {"ready", "models"}
  /\ Goto(r, "routing", "awaiting")
  /\ UNCHANGED <<lifespan, upstream, req, reply, streamVars, modelVars, metrics>>

BackendIsReady(r) ==
  /\ req[r].kind = "ready"
  /\ upstream
  /\ Answer(r, "awaiting", 200, "")
  /\ UNCHANGED <<streamVars, modelVars, metrics>>

\* Mutant: ready() builds the 503 itself, past _error_response.
BackendNotReadyUncoded(r) ==
  /\ req[r].kind = "ready"
  /\ Answer(r, "awaiting", 503, "")
  /\ UNCHANGED <<streamVars, modelVars, metrics>>

\* ready() is also false for an answer it cannot use.
BackendNotReady(r) ==
  /\ req[r].kind = "ready"
  /\ Answer(r, "awaiting", 503, "backend_not_ready")
  /\ UNCHANGED <<streamVars, modelVars, metrics>>

_filter_allowed_models(models) ==
  IF Allowlist = {} THEN models ELSE models \cap Allowlist

\* The backend may also list nothing, when it cannot use what it was answered.
ListModelsReturns(r, models) ==
  /\ req[r].kind = "models"
  /\ upstream
  /\ Answer(r, "awaiting", 200, "")
  /\ listed' = listed \cup _filter_allowed_models(models)
  /\ UNCHANGED <<called, streamVars, metrics>>

\* models() does not catch what list_models() raises: call_next raises, and
\* the middleware re-raises without recording anything.
ListModelsRaises(r) ==
  /\ req[r].kind = "models"
  /\ Goto(r, "awaiting", "unhandled")
  /\ UNCHANGED <<lifespan, upstream, req, reply, streamVars, modelVars, metrics>>

_ensure_model_allowed(model) == Allowlist = {} \/ model \in Allowlist

\* Mutant: a model that may not be used is forbidden.
RefuseModelAs403(r) ==
  /\ req[r].kind \in ChatKinds
  /\ ~_ensure_model_allowed(req[r].model)
  /\ Answer(r, "routing", 403, "model_not_allowed")
  /\ UNCHANGED <<streamVars, modelVars, metrics>>

RefuseModel(r) ==
  /\ req[r].kind \in ChatKinds
  /\ ~_ensure_model_allowed(req[r].model)
  /\ Answer(r, "routing", 404, "model_not_allowed")
  /\ UNCHANGED <<streamVars, modelVars, metrics>>

\* chat_completions with stream = false awaits backend.generate ...
Generate(r) ==
  /\ req[r].kind = "chat"
  /\ _ensure_model_allowed(req[r].model)
  /\ Goto(r, "routing", "awaiting")
  /\ called' = called \cup {req[r].model}
  /\ UNCHANGED <<lifespan, upstream, req, reply, streamVars, listed, metrics>>

\* ... which returns a text of `count` words ...
GenerateReturns(r, count) ==
  /\ req[r].kind = "chat"
  /\ upstream
  /\ Answer(r, "awaiting", 200, "")
  /\ metrics' = record_generated_text(metrics, req[r].model, count)
  /\ UNCHANGED <<streamVars, modelVars>>

\* Mutant: the except clause forgets the counter.
GenerateRaisesUncounted(r) ==
  /\ req[r].kind = "chat"
  /\ Answer(r, "awaiting", 502, "backend_generation_failed")
  /\ UNCHANGED <<streamVars, modelVars, metrics>>

\* Mutant: a call to a model server that is down never times out.
GenerateRaisesWhenUp(r) ==
  /\ req[r].kind = "chat"
  /\ upstream
  /\ Answer(r, "awaiting", 502, "backend_generation_failed")
  /\ metrics' = record_backend_generation_error(metrics, req[r].model)
  /\ UNCHANGED <<streamVars, modelVars>>

\* ... or raises.
GenerateRaises(r) ==
  /\ req[r].kind = "chat"
  /\ Answer(r, "awaiting", 502, "backend_generation_failed")
  /\ metrics' = record_backend_generation_error(metrics, req[r].model)
  /\ UNCHANGED <<streamVars, modelVars>>

\* Mutant: the allowlist is checked after the streaming branch.
OpenStreamUnchecked(r) ==
  /\ req[r].kind = "stream"
  /\ Answer(r, "routing", 200, "")
  /\ gen' = [gen EXCEPT ![r] = "created"]
  /\ UNCHANGED <<sent, client, modelVars, metrics>>

\* With stream = true it returns a StreamingResponse at once: status 200 is
\* settled before the backend is called.
OpenStream(r) ==
  /\ req[r].kind = "stream"
  /\ _ensure_model_allowed(req[r].model)
  /\ Answer(r, "routing", 200, "")
  /\ gen' = [gen EXCEPT ![r] = "created"]
  /\ UNCHANGED <<sent, client, modelVars, metrics>>

\* call_next returns the response and the middleware records it.
RecordResponse(r) ==
  /\ Goto(r, "answering", "recorded")
  /\ LET recorded == record_request(metrics, Route(r), reply[r].status)
     IN  metrics' = IF reply[r].code = "" THEN recorded
                    ELSE record_http_error(recorded, Route(r),
                                           reply[r].status, reply[r].code)
  /\ UNCHANGED <<lifespan, upstream, req, reply, streamVars, modelVars>>
-----------------------------------------------------------------------------
(* The _stream_events generator.                                           *)

\* It is resumed by the response task, in the state `from`.  At a yield the task
\* is in send() first, which waits, without a timeout, as long as the client
\* reads nothing; in the backend it waits for the next chunk only.
Resumed(r, from) ==
  /\ gen[r] \in from
  /\ client[r] # "dropped"
  /\ client[r] = "stalled" => gen[r] = "waiting"

streamFrame == <<lifespan, upstream, req, pc, reply, client, listed>>

Yield(r, event) ==
  /\ gen' = [gen EXCEPT ![r] = event]
  /\ sent' = [sent EXCEPT ![r] = Append(@, event)]
  /\ UNCHANGED streamFrame

YieldRole(r) ==
  /\ Resumed(r, {"created"})
  /\ Yield(r, "role")
  /\ UNCHANGED <<called, metrics>>

\* `async for chunk in backend.stream(...)` awaits the next chunk.
AwaitChunk(r) ==
  /\ Resumed(r, {"role", "content"})
  /\ gen' = [gen EXCEPT ![r] = "waiting"]
  /\ called' = called \cup {req[r].model}
  /\ UNCHANGED <<streamFrame, sent, metrics>>

YieldContent(r) ==
  /\ Resumed(r, {"waiting"})
  /\ upstream
  /\ Content(r) < MaxChunks
  /\ Yield(r, "content")
  /\ UNCHANGED <<called, metrics>>

\* Mutant: the stop event follows the try statement instead of its else.
YieldStopAfterError(r) ==
  /\ Resumed(r, {"waiting", "error"})
  /\ Yield(r, "stop")
  /\ UNCHANGED <<called, metrics>>

\* The backend's iterator ends.  The adapter cannot tell a complete answer
\* from a connection the model server closed early.
YieldStop(r) ==
  /\ Resumed(r, {"waiting"})
  /\ Yield(r, "stop")
  /\ UNCHANGED <<called, metrics>>

\* It raises: the first response bytes are out, so the error is an event.
YieldError(r) ==
  /\ Resumed(r, {"waiting"})
  /\ Yield(r, "error")
  /\ metrics' = record_stream_error(metrics, req[r].model)
  /\ UNCHANGED called

YieldDone(r) ==
  /\ Resumed(r, {"stop", "error"})
  /\ Yield(r, "done")
  /\ UNCHANGED <<called, metrics>>

Exhaust(r) ==
  /\ Resumed(r, {"done"})
  /\ gen' = [gen EXCEPT ![r] = "ended"]
  /\ UNCHANGED <<streamFrame, sent, called, metrics>>
-----------------------------------------------------------------------------
(* The client of a stream reads no more for a while, goes on, or leaves.    *)

ClientMoves(r, from, to) ==
  /\ gen[r] \notin {"none", "ended"}
  /\ client[r] \in from
  /\ client' = [client EXCEPT ![r] = to]
  /\ UNCHANGED <<lifespan, upstream, req, pc, reply, gen, sent, modelVars,
                 metrics>>

\* The buffers of its connection are full: send() waits for it.
ClientStalls(r) == ClientMoves(r, {"connected"}, "stalled")
ClientReadsOn(r) == ClientMoves(r, {"stalled"}, "connected")
ClientLeaves(r) == ClientMoves(r, {"connected", "stalled"}, "left")

ClientStep(r) == ClientStalls(r) \/ ClientReadsOn(r) \/ ClientLeaves(r)

\* The response task is cancelled while the generator awaits a chunk:
\* CancelledError is raised inside its try block.
CancelAwait(r) ==
  /\ client[r] = "left"
  /\ gen[r] = "waiting"
  /\ client' = [client EXCEPT ![r] = "dropped"]
  /\ gen' = [gen EXCEPT ![r] = "ended"]
  /\ metrics' = record_stream_cancellation(metrics, req[r].model)
  /\ UNCHANGED <<lifespan, upstream, req, pc, reply, sent, modelVars>>

\* It is cancelled while the generator is suspended at a yield, or was never
\* started: the generator is left behind.
DropGenerator(r) ==
  /\ client[r] = "left"
  /\ gen[r] \notin {"none", "waiting", "ended"}
  /\ client' = [client EXCEPT ![r] = "dropped"]
  /\ \/ UNCHANGED pc
     \/ gen[r] = "created" /\ Goto(r, "answering", "unhandled")
        \* the response had not started: call_next raises
  /\ UNCHANGED <<lifespan, upstream, req, reply, gen, sent, modelVars, metrics>>

\* Mutant: the cancellation is counted in a finally clause.
FinaliseGeneratorAlwaysCounts(r) ==
  /\ client[r] = "dropped"
  /\ gen[r] \notin {"none", "ended"}
  /\ gen' = [gen EXCEPT ![r] = "ended"]
  /\ metrics' = record_stream_cancellation(metrics, req[r].model)
  /\ UNCHANGED <<lifespan, upstream, req, pc, reply, sent, client, modelVars>>

\* Mutant: a generator past its try statement is never closed.
FinaliseGeneratorInTry(r) ==
  /\ client[r] = "dropped"
  /\ gen[r] \in {"role", "content"}
  /\ gen' = [gen EXCEPT ![r] = "ended"]
  /\ metrics' = record_stream_cancellation(metrics, req[r].model)
  /\ UNCHANGED <<lifespan, upstream, req, pc, reply, sent, client, modelVars>>

\* The event loop closes it later: GeneratorExit is raised at the yield it
\* is suspended at, inside the try block or after it.
FinaliseGenerator(r) ==
  /\ client[r] = "dropped"
  /\ gen[r] \notin {"none", "ended"}
  /\ gen' = [gen EXCEPT ![r] = "ended"]
  /\ metrics' = IF gen[r] \in {"role", "content"}
                THEN record_stream_cancellation(metrics, req[r].model)
                ELSE metrics
  /\ UNCHANGED <<lifespan, upstream, req, pc, reply, sent, client, modelVars>>
-----------------------------------------------------------------------------
HandlerStep(r) ==
  \/ AnswerLocally(r)
  \/ AnswerUnrouted(r)
  \/ AnswerWrongMethod(r)
  \/ RejectUndecodable(r)
  \/ RejectInvalid(r)
  \/ AskBackend(r)
  \/ RefuseModel(r)
  \/ Generate(r)
  \/ OpenStream(r)
  \/ RecordResponse(r)

BackendReply(r) ==
  \/ BackendIsReady(r)
  \/ BackendNotReady(r)
  \/ \E models \in {{}, BackendModels} : ListModelsReturns(r, models)
  \/ ListModelsRaises(r)
  \/ \E count \in TokenCounts : GenerateReturns(r, count)
  \/ GenerateRaises(r)

StreamStep(r) ==
  \/ YieldRole(r)
  \/ AwaitChunk(r)
  \/ YieldContent(r)
  \/ YieldStop(r)
  \/ YieldError(r)
  \/ YieldDone(r)
  \/ Exhaust(r)

Teardown(r) == CancelAwait(r) \/ DropGenerator(r) \/ FinaliseGenerator(r)

RequestStep(r) ==
  \/ \E kind \in Kinds, model \in Models \cup {NoModel} : Arrive(r, kind, model)
  \/ HandlerStep(r)
  \/ BackendReply(r)
  \/ StreamStep(r)
  \/ ClientStep(r)
  \/ Teardown(r)

ServerStep == Load \/ LoadFails \/ BeginDrain \/ CloseBackend \/ UpstreamFlips

\* The process may end: every task is over and every generator closed.
Stopped ==
  /\ lifespan \in {"closed", "failed"}
  /\ \A r \in Requests : gen[r] \in {"none", "ended"}
  /\ UNCHANGED vars

Next == ServerStep \/ (\E r \in Requests : RequestStep(r)) \/ Stopped

Spec == Init /\ [][Next]_vars

\* The event loop runs every task that is ready, a backend call answers or times
\* out, and a shutdown that has begun is carried on.  No client need ever read
\* on or leave; but whenever a stalled one reads on, the send() that waited for
\* it returns, even if it stalls again at once: hence the strong fairness.
Fairness ==
  /\ WF_vars(Load \/ LoadFails)
  /\ WF_vars(CloseBackend)
  /\ \A r \in Requests :
       /\ WF_vars(HandlerStep(r))
       /\ WF_vars(BackendReply(r))
       /\ SF_vars(StreamStep(r))
       /\ WF_vars(Teardown(r))

FairSpec == Spec /\ Fairness
=============================================================================
