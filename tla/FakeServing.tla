----------------------------- MODULE FakeServing -----------------------------
(***************************************************************************)
(* The application as cli.py builds it by default: create_app() over one   *)
(* FakeBatchedBackend.  Every step of Serving that calls the backend is    *)
(* joined with what the call does; a stream of this backend is one chunk.  *)
(*                                                                         *)
(* The backend never suspends, so a request is never really interleaved    *)
(* with its own call.  The model allows more, which is sound for the       *)
(* safety properties here.                                                 *)
(***************************************************************************)
EXTENDS ServingProperties, BatchedBackend

VARIABLE prompt  \* prompt[r]: the last user message of request r

\* build_backend() takes the first allowed model, and every answer it gives is
\* a text the application can be given.
ASSUME FakeBackendAssumption ==
  /\ BackendModels = {ModelId}
  /\ BatchModels = Models
  /\ Allowlist # {} => ModelId \in Allowlist
  /\ \A p \in Prompts : ReplyWords + Words[p] \in TokenCounts

fakeVars == <<vars, batchVars, prompt>>

FakeInit ==
  /\ Init
  /\ upstream
  /\ BatchInit
  /\ prompt \in [Requests -> Prompts]

\* Mutant: a request whose client left is cancelled in its batch.
BatchOfLeaver(r) ==
  <<[model |-> req[r].model, prompt |-> prompt[r],
     cancelled |-> client[r] = "left"]>>

Batch(r) == Single(prompt[r], req[r].model)

Reply(r) == ReplyWords + Words[prompt[r]]

FakeGenerate(r) ==
  \/ GenerateReturns(r, Reply(r)) /\ generate_many(Batch(r))
  \/ GenerateRaises(r) /\ generate_many_raises(Batch(r))

\* stream() yields the text of one generate() call.
FakeStream(r) ==
  \/ YieldContent(r) /\ Content(r) = 0 /\ generate_many(Batch(r))
  \/ YieldError(r) /\ Content(r) = 0 /\ generate_many_raises(Batch(r))
  \/ YieldStop(r) /\ Content(r) = 1 /\ UNCHANGED batchVars

\* Steps that leave the backend's state alone.
Unbatched(r) ==
  /\ \/ \E kind \in Kinds, model \in Models \cup {NoModel} :
          Arrive(r, kind, model)
     \/ HandlerStep(r)
     \/ ready /\ BackendIsReady(r)
     \/ ListModelsReturns(r, BackendModels)
     \/ YieldRole(r)
     \/ AwaitChunk(r)
     \/ YieldDone(r)
     \/ Exhaust(r)
     \/ ClientStep(r)
     \/ Teardown(r)
  /\ UNCHANGED batchVars

FakeNext ==
  /\ \/ Load /\ load
     \/ BeginDrain /\ UNCHANGED batchVars
     \/ CloseBackend /\ close
     \/ Stopped /\ UNCHANGED batchVars
     \/ \E r \in Requests : FakeGenerate(r) \/ FakeStream(r) \/ Unbatched(r)
  /\ UNCHANGED prompt

FakeSpec == FakeInit /\ [][FakeNext]_fakeVars
-----------------------------------------------------------------------------
Completed(r) ==
  req[r].kind = "chat" /\ pc[r] \in {"answering", "recorded"}
  /\ reply[r].status = 200

Streamed(r) == Has(r, "content")

\* The batch counters agree with the HTTP side: requests_total of the snapshot's
\* backend_batch_metrics is the number of completions answered with 200 and of
\* streams that sent their text, also of those whose client left afterwards.
BatchCountsAnswers ==
  batch_metrics.requests_total
  = Cardinality({r \in Requests : Completed(r) \/ Streamed(r)})

\* The two token counters of one snapshot differ by what was streamed:
\* decode_tokens_total has every answer, tokens_generated_total only those that
\* chat_completions() returned itself.
TokensDifferByStreams ==
  batch_metrics.decode_tokens_total
  = SumFunctionOnSet(metrics.tokens_generated_total, Models)
    + SumFunctionOnSet([r \in Requests |-> Reply(r)], {r \in Requests : Streamed(r)})

\* A completion or stream fails exactly because it names a model other than the
\* backend's, which the allowlist may let through; a model that /v1/models
\* showed never fails, whatever the order of requests and shutdown.
OnlyForeignModelsFail ==
  \A r \in Requests :
    /\ reply[r].status = 502 \/ Has(r, "error") =>
         req[r].model \notin listed \cup {ModelId}
    /\ Completed(r) \/ Streamed(r) => req[r].model = ModelId
=============================================================================
