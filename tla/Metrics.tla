------------------------------ MODULE Metrics ------------------------------
(***************************************************************************)
(* InMemoryMetrics (src/mac_llm_ops_lab/metrics.py): the counters one      *)
(* application instance keeps.  The object is a record of total functions; *)
(* a key the Python dictionaries do not hold yet is a key that maps to 0   *)
(* (`self.x.get(key, 0) + 1`).  Latencies are left out: nothing reads them *)
(* back.                                                                   *)
(***************************************************************************)
EXTENDS Naturals

CONSTANT Models  \* ids a request may name

\* Route templates the middleware can see; "unrouted" stands for every URL
\* path but those of the five routes of app.py.
Routes == {"live", "ready", "models", "snapshot", "chat", "unrouted"}

Statuses == {200, 307, 400, 404, 405, 422, 502, 503}

\* The codes error responses carry.
ErrorCodes == {"request_validation_failed", "model_not_allowed",
               "backend_not_ready", "backend_generation_failed", "http_error"}

RequestKeys == Routes \X Statuses
ErrorKeys == Routes \X Statuses \X ErrorCodes

MetricsType ==
  [requests_total : [RequestKeys -> Nat],
   http_errors_total : [ErrorKeys -> Nat],
   tokens_generated_total : [Models -> Nat],
   backend_generation_errors_total : [Models -> Nat],
   stream_errors_total : [Models -> Nat],
   stream_cancellations_total : [Models -> Nat]]

InMemoryMetrics ==
  [requests_total |-> [k \in RequestKeys |-> 0],
   http_errors_total |-> [k \in ErrorKeys |-> 0],
   tokens_generated_total |-> [m \in Models |-> 0],
   backend_generation_errors_total |-> [m \in Models |-> 0],
   stream_errors_total |-> [m \in Models |-> 0],
   stream_cancellations_total |-> [m \in Models |-> 0]]

record_request(M, route, status) ==
  [M EXCEPT !.requests_total[<<route, status>>] = @ + 1]

record_http_error(M, route, status, code) ==
  [M EXCEPT !.http_errors_total[<<route, status, code>>] = @ + 1]

\* Mutant: the counter is set instead of increased.
record_last_text(M, model, count) ==
  [M EXCEPT !.tokens_generated_total[model] = count]

\* `count` is the number of whitespace-separated words of the text.
record_generated_text(M, model, count) ==
  [M EXCEPT !.tokens_generated_total[model] = @ + count]

record_backend_generation_error(M, model) ==
  [M EXCEPT !.backend_generation_errors_total[model] = @ + 1]

record_stream_error(M, model) ==
  [M EXCEPT !.stream_errors_total[model] = @ + 1]

record_stream_cancellation(M, model) ==
  [M EXCEPT !.stream_cancellations_total[model] = @ + 1]
=============================================================================
