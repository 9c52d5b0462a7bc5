------------------------- MODULE ServingProperties -------------------------
(***************************************************************************)
(* What the serving application is meant to guarantee, stated over the     *)
(* state of Serving.                                                       *)
(***************************************************************************)
EXTENDS Serving, Functions

\* Type correctness of every variable of the serving application.
TypeOK ==
  /\ lifespan \in {"created", "serving", "draining", "closed", "failed"}
  /\ upstream \in BOOLEAN
  /\ req \in [Requests -> Payloads]
  /\ pc \in [Requests -> Places]
  /\ reply \in [Requests -> Replies]
  /\ gen \in [Requests -> Generators]
  /\ sent \in [Requests -> Seq(Events)]
  /\ client \in [Requests -> {"connected", "stalled", "left", "dropped"}]
  /\ called \subseteq Models
  /\ listed \subseteq Models
  /\ metrics \in MetricsType

Has(r, event) == \E i \in DOMAIN sent[r] : sent[r][i] = event

\* How the stream of r ended, read off the events alone.
Outcome(r) ==
  IF sent[r] = <<>> THEN "unopened"
  ELSE IF Has(r, "error") THEN "failed"
  ELSE IF Has(r, "stop") THEN "completed"
  ELSE IF gen[r] = "ended" THEN "cancelled" ELSE "open"

Owner(r) == IF sent[r] = <<>> THEN NoModel ELSE req[r].model

Ledger == INSTANCE StreamLedger WITH
  Streams <- Requests,
  owner <- [r \in Requests |-> Owner(r)],
  outcome <- [r \in Requests |-> Outcome(r)],
  errors <- metrics.stream_errors_total,
  cancellations <- metrics.stream_cancellations_total

\* The serving application implements the stream ledger: a stream that sent
\* its first event ends exactly once, and stream_errors_total and
\* stream_cancellations_total move in the step in which it fails or is
\* cancelled (the except clauses of _stream_events), whatever the client and
\* the event loop do.
StreamLedgerSpec == Ledger!Spec

\* stream_errors_total counts exactly the streams that sent an error event
\* and stream_cancellations_total exactly those cut off before a finish
\* event, however clients leave and generators are closed.
StreamsAccounted == Ledger!Accounted

FollowsItsPrior(event, prior) ==
  \/ event = "role" /\ prior = "start"
  \/ event \in {"content", "stop", "error"} /\ prior \in {"role", "content"}
  \/ event = "done" /\ prior \in {"stop", "error"}

\* What a client of _stream_events can have received is a prefix of
\* role, content*, (stop | error), done: never two finish reasons, never
\* content after a failure, never [DONE] without a finish reason.
TranscriptWellFormed ==
  \A r \in Requests : \A i \in DOMAIN sent[r] :
    FollowsItsPrior(sent[r][i], IF i = 1 THEN "start" ELSE sent[r][i - 1])

Last(r) == sent[r][Len(sent[r])]
Finished(r) == Has(r, "stop") \/ Has(r, "error")

AtLastEvent(r) ==
  /\ gen[r] # "none" =>
       req[r].kind = "stream" /\ pc[r] \notin {"new", "routing"}
  /\ gen[r] \in {"none", "created"} => sent[r] = <<>>
  /\ gen[r] \in {"role", "content", "waiting"} => ~Finished(r)
  /\ gen[r] \in Events => sent[r] # <<>> /\ Last(r) = gen[r]
  /\ gen[r] = "waiting" => sent[r] # <<>> /\ Last(r) \in {"role", "content"}
  /\ gen[r] = "done" => Finished(r)
  /\ gen[r] = "waiting" => client[r] # "dropped"
  /\ ~(Has(r, "stop") /\ Has(r, "error"))

\* A request of another kind has no generator, and the events a generator has
\* yielded determine where it is suspended: at the yield of its last event or
\* in the backend, and with a finish event behind it exactly when it is past
\* the `async for` loop of _stream_events.  A generator left to the event loop
\* is never inside the backend.
GeneratorAtLastEvent == \A r \in Requests : AtLastEvent(r)

\* backend_generation_errors_total, kept by the handler, and the 502 entries
\* of http_errors_total, kept by the middleware, differ by exactly the
\* failures whose response the middleware has not seen yet.
GenerationErrorsReachHttp ==
  SumFunctionOnSet(metrics.backend_generation_errors_total, Models)
  = metrics.http_errors_total[<<"chat", 502, "backend_generation_failed">>]
    + Cardinality({r \in Requests : pc[r] = "answering" /\ reply[r].status = 502})

\* Every recorded error response is broken down by code, but for those of the
\* router: http_errors_total sums to the error entries of requests_total for
\* each route and status, and a path outside the routes, or a method that a
\* route does not have, adds to requests_total only (app.py:137-149, and the
\* exception handlers of app.py:172-195, which the router's 404 and 405 miss).
HttpErrorsExplained ==
  \A route \in Routes, status \in Statuses \ {200} :
    SumFunctionOnSet(metrics.http_errors_total,
                     {<<route, status, code>> : code \in ErrorCodes})
    = IF route = "unrouted" \/ status = 405 THEN 0
      ELSE metrics.requests_total[<<route, status>>]

\* _ensure_model_allowed and _filter_allowed_models agree: a model outside
\* the allowlist never reaches the backend by either completion path, and a
\* model /v1/models showed is never answered with model_not_allowed.
AllowlistHolds ==
  /\ Allowlist # {} => called \subseteq Allowlist
  /\ \A r \in Requests :
       reply[r].code = "model_not_allowed" => req[r].model \notin called \cup listed

\* Every request the middleware accepted is answered, or its failure leaves
\* the middleware as an exception.
RequestsEnd ==
  \A r \in Requests :
    pc[r] = "routing" ~> pc[r] \in {"recorded", "unhandled"}

\* The client of r is not stalled for ever: it reads on now and then, or leaves.
ReadsOn(r) == []<>(client[r] # "stalled")

\* Every event generator ends, also one whose client left, unless its client
\* keeps the connection and stops reading for ever: send() has no timeout.
StreamsEnd ==
  \A r \in Requests : ReadsOn(r) => (gen[r] = "created" ~> gen[r] = "ended")

\* A shutdown that has begun closes the backend: no request, stream or
\* abandoned generator holds it up for ever, only a client that stops reading
\* and keeps its connection (cli.py sets no limit for the shutdown).
DrainCompletes ==
  (\A r \in Requests : ReadsOn(r)) => (lifespan = "draining" ~> lifespan = "closed")
=============================================================================
