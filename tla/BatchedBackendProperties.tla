---------------------- MODULE BatchedBackendProperties ----------------------
(***************************************************************************)
(* FakeBatchedBackend driven directly, with batches of any composition, as *)
(* tests/test_batching.py drives it, and what its counters promise.        *)
(***************************************************************************)
EXTENDS BatchedBackend

CONSTANTS
  MaxBatch,   \* bound on the length of a batch
  MaxBatches  \* bound on the number of batches

ASSUME BatchBounds == MaxBatch \in Nat /\ MaxBatches \in Nat

Batches == UNION {[1..n -> GenerationRequest] : n \in 0..MaxBatch}

Generates == \E batch \in Batches : generate_many(batch)
Raises == \E batch \in Batches : generate_many_raises(batch)

BatchNext ==
  \/ load
  \/ close
  \/ batch_metrics.batches_total < MaxBatches /\ Generates
  \/ Raises

BatchSpec == BatchInit /\ [][BatchNext]_batchVars

\* The counter that adds up a field of the observations.
CounterOf ==
  [active_batch_size |-> "requests_total",
   cache_hits |-> "cache_hits_total",
   cache_misses |-> "cache_misses_total",
   prefill_tokens |-> "prefill_tokens_total",
   decode_tokens |-> "decode_tokens_total",
   cache_saved_tokens |-> "cache_saved_tokens_total",
   cancelled_requests |-> "cancelled_requests_total"]

Fields == DOMAIN CounterOf

Total(f) == batch_metrics[CounterOf[f]]

ServedSum(weight) ==
  SumFunctionOnSet([p \in Prompts |-> served[p] * weight[p]], Prompts)

NonEmptyBatches ==
  Cardinality({i \in DOMAIN batch_metrics.batch_observations :
                 batch_metrics.batch_observations[i].active_batch_size > 0})

\* However requests are grouped into batches, every answered request is either
\* a hit or a miss, its prompt is either prefilled or saved, and its answer is
\* decoded: generate_many() takes all seven counters from one view of the cache.
\* Every cached prompt was missed once, and the misses beyond that are
\* repetitions inside one batch, of which a batch of n has at most n - 1.
WorkConserved ==
  /\ Total("active_batch_size") = ServedSum([p \in Prompts |-> 1])
  /\ Total("cache_hits") + Total("cache_misses") = Total("active_batch_size")
  /\ Total("prefill_tokens") + Total("cache_saved_tokens")
       = ServedSum(Words)
  /\ Total("decode_tokens") = ServedSum([p \in Prompts |-> ReplyWords + Words[p]])
  /\ Cardinality(cache) <= Total("cache_misses")
  /\ Total("cache_misses") <=
       Cardinality(cache) + Total("active_batch_size") - NonEmptyBatches

\* The cache holds exactly the prompts that were answered: a cancelled request,
\* or one in a batch that was refused, leaves no trace in it, and neither
\* close() nor load() forgets one.
CacheIsServedPrompts == cache = {p \in Prompts : served[p] > 0}

\* One snapshot does not contradict itself: the ten counters that
\* generate_many() adds to one by one are those of the list of observations
\* beside them, and a request has waited a millisecond.
ObservationsSumUp ==
  LET observations == batch_metrics.batch_observations
  IN  /\ batch_metrics.batches_total = Len(observations)
      /\ \A f \in Fields :
           Total(f) = SumFunctionOnSet([i \in DOMAIN observations |-> observations[i][f]],
                                       DOMAIN observations)
      /\ batch_metrics.queue_wait_ms_total = batch_metrics.requests_total
      /\ batch_metrics.max_active_batch_size
           = Max({0} \cup {observations[i].active_batch_size :
                            i \in DOMAIN observations})
=============================================================================
