--------------------------- MODULE BatchedBackend ---------------------------
(***************************************************************************)
(* FakeBatchedBackend (src/mac_llm_ops_lab/batching.py): the in-process    *)
(* backend of the default configuration.  generate_many() serves a whole   *)
(* batch without awaiting, so it is one step; hits and misses are taken    *)
(* against the prompt cache as it was before the batch.                    *)
(***************************************************************************)
EXTENDS Naturals, Sequences, FiniteSets, FiniteSetsExt, Functions

CONSTANTS
  BatchModels,   \* models a request may name
  ModelId,       \* self.model_id
  Prompts,
  Words,         \* Words[p]: number of words of prompt p
  ReplyWords     \* words that "<model> response to " puts before the prompt

ASSUME BatchAssumption ==
  /\ ModelId \in BatchModels
  /\ IsFiniteSet(Prompts)
  /\ Words \in [Prompts -> Nat]
  /\ ReplyWords \in Nat

VARIABLES
  loaded,
  closed,
  cache,         \* self._cache
  batch_metrics, \* self._metrics
  served         \* served[p]: how often p was answered (history)

batchVars == <<loaded, closed, cache, batch_metrics, served>>

GenerationRequest ==
  [model : BatchModels, prompt : Prompts, cancelled : BOOLEAN]

_BatchMetrics ==
  [batches_total |-> 0,
   requests_total |-> 0,
   max_active_batch_size |-> 0,
   queue_wait_ms_total |-> 0,
   prefill_tokens_total |-> 0,
   decode_tokens_total |-> 0,
   cache_hits_total |-> 0,
   cache_misses_total |-> 0,
   cache_saved_tokens_total |-> 0,
   cancelled_requests_total |-> 0,
   batch_observations |-> <<>>]

BatchInit ==
  /\ loaded = FALSE
  /\ closed = FALSE
  /\ cache = {}
  /\ batch_metrics = _BatchMetrics
  /\ served = [p \in Prompts |-> 0]

load ==
  /\ loaded' = TRUE
  /\ closed' = FALSE
  /\ UNCHANGED <<cache, batch_metrics, served>>

close == closed' = TRUE /\ UNCHANGED <<loaded, cache, batch_metrics, served>>

ready == loaded /\ ~closed

\* Positions of the requests of a batch that are not cancelled, of those whose
\* prompt the cache holds, and of the others.
Active(batch) == {i \in DOMAIN batch : ~batch[i].cancelled}

\* Mutant: the prompts are added to the cache before they are looked up.
CachedAfterwards(batch) == Active(batch)

Cached(batch) == {i \in Active(batch) : batch[i].prompt \in cache}

\* Mutant: every active request is prefilled.
MissedAlways(batch) == Active(batch)

Missed(batch) == Active(batch) \ Cached(batch)

Cancelled(batch) == Len(batch) - Cardinality(Active(batch))

WordsOf(batch, positions) ==
  SumFunctionOnSet([i \in DOMAIN batch |-> Words[batch[i].prompt]], positions)

observation(batch) ==
  [active_batch_size |-> Cardinality(Active(batch)),
   cache_hits |-> Cardinality(Cached(batch)),
   cache_misses |-> Cardinality(Missed(batch)),
   prefill_tokens |-> WordsOf(batch, Missed(batch)),
   decode_tokens |-> WordsOf(batch, Active(batch))
                     + ReplyWords * Cardinality(Active(batch)),
   cache_saved_tokens |-> WordsOf(batch, Cached(batch)),
   cancelled_requests |-> Cancelled(batch)]

\* Mutant: cancelled requests are cached too.
AllPrompts(batch) == {batch[i].prompt : i \in DOMAIN batch}

AnsweredPrompts(batch) == {batch[i].prompt : i \in Active(batch)}

\* Mutant: the cancelled requests of a batch are counted as well.
recordedAll(batch) ==
  LET M == batch_metrics
      seen == observation(batch)
  IN  [batches_total |-> M.batches_total + 1,
       requests_total |-> M.requests_total + Len(batch),
       max_active_batch_size |->
         Max({M.max_active_batch_size, seen.active_batch_size}),
       queue_wait_ms_total |-> M.queue_wait_ms_total + seen.active_batch_size,
       prefill_tokens_total |-> M.prefill_tokens_total + seen.prefill_tokens,
       decode_tokens_total |-> M.decode_tokens_total + seen.decode_tokens,
       cache_hits_total |-> M.cache_hits_total + seen.cache_hits,
       cache_misses_total |-> M.cache_misses_total + seen.cache_misses,
       cache_saved_tokens_total |->
         M.cache_saved_tokens_total + seen.cache_saved_tokens,
       cancelled_requests_total |->
         M.cancelled_requests_total + seen.cancelled_requests,
       batch_observations |-> Append(M.batch_observations, seen)]

\* The counters are added to one by one, and the observation is a list entry of
\* its own.
recorded(batch) ==
  LET M == batch_metrics
      seen == observation(batch)
  IN  [batches_total |-> M.batches_total + 1,
       requests_total |-> M.requests_total + seen.active_batch_size,
       max_active_batch_size |->
         Max({M.max_active_batch_size, seen.active_batch_size}),
       queue_wait_ms_total |-> M.queue_wait_ms_total + seen.active_batch_size,
       prefill_tokens_total |-> M.prefill_tokens_total + seen.prefill_tokens,
       decode_tokens_total |-> M.decode_tokens_total + seen.decode_tokens,
       cache_hits_total |-> M.cache_hits_total + seen.cache_hits,
       cache_misses_total |-> M.cache_misses_total + seen.cache_misses,
       cache_saved_tokens_total |->
         M.cache_saved_tokens_total + seen.cache_saved_tokens,
       cancelled_requests_total |->
         M.cancelled_requests_total + seen.cancelled_requests,
       batch_observations |-> Append(M.batch_observations, seen)]

\* Mutant: the backend answers for any model.
accepts_any_model(batch) == ready

\* generate_many() raises when the backend is not ready, and when any request
\* names another model, cancelled requests included: nothing has changed then.
accepts(batch) ==
  /\ ready
  /\ \A i \in DOMAIN batch : batch[i].model = ModelId

generate_many(batch) ==
  /\ accepts(batch)
  /\ batch_metrics' = recorded(batch)
  /\ cache' = cache \cup AnsweredPrompts(batch)
  /\ served' = [p \in Prompts |->
       served[p] + Cardinality({i \in Active(batch) : batch[i].prompt = p})]
  /\ UNCHANGED <<loaded, closed>>

generate_many_raises(batch) == ~accepts(batch) /\ UNCHANGED batchVars

\* generate() and each step of stream() are a batch of one.
Single(prompt, model) ==
  <<[model |-> model, prompt |-> prompt, cancelled |-> FALSE]>>
=============================================================================
