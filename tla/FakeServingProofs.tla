------------------------- MODULE FakeServingProofs -------------------------
(***************************************************************************)
(* Proofs about BatchedBackend and FakeServing, for every finite set of    *)
(* prompts and requests, batches of every length and any number of them.   *)
(***************************************************************************)
EXTENDS FakeServing, BatchedBackendProperties, ServingProofs

-----------------------------------------------------------------------------
(* More about sums and cardinalities.                                      *)

\* Products of natural numbers, which the solver does not find alone.
LEMMA Distributes ==
  ASSUME NEW a \in Nat, NEW b \in Nat, NEW n \in Nat
  PROVE  /\ a * b \in Nat /\ n * b \in Nat
         /\ (a + n) * b = a * b + n * b
         /\ a * 0 = 0 /\ 0 * a = 0 /\ 1 * a = a /\ a * 1 = a
  OBVIOUS

\* Adding a constant to every term.
LEMMA SumOfShift ==
  ASSUME NEW f, NEW h, NEW S, IsFiniteSet(S), NEW c \in Nat,
         \A x \in S : f[x] \in Nat /\ h[x] = c + f[x]
  PROVE  SumFunctionOnSet(h, S) = c * Cardinality(S) + SumFunctionOnSet(f, S)
<1> DEFINE Good ==
      {T \in SUBSET S :
         SumFunctionOnSet(h, T) = c * Cardinality(T) + SumFunctionOnSet(f, T)}
<1>1. {} \in Good
  BY SumOfNone, FS_EmptySet, Distributes
<1>2. ASSUME NEW T \in SUBSET S, NEW x \in S, T \in Good, x \notin T
      PROVE  T \cup {x} \in Good
  <2>1. /\ IsFiniteSet(T) /\ Cardinality(T) \in Nat
        /\ Cardinality(T \cup {x}) = Cardinality(T) + 1
    BY <1>2, FS_Subset, FS_CardinalityType, FS_AddElement
  <2>2. SumFunctionOnSet(f, T \cup {x}) = SumFunctionOnSet(f, T) + f[x]
    BY <1>2, <2>1, SumAdds
  <2>3. SumFunctionOnSet(h, T \cup {x}) = SumFunctionOnSet(h, T) + h[x]
    BY <1>2, <2>1, SumAdds
  <2>4. SumFunctionOnSet(f, T) \in Nat
    BY <2>1, SumIsNatural
  <2>5. c * (Cardinality(T) + 1) = c * Cardinality(T) + c /\ c * Cardinality(T) \in Nat
    BY <2>1
  <2>6. QED  BY <1>2, <2>1, <2>2, <2>3, <2>4, <2>5
<1>3. Good \in SUBSET SUBSET S
  OBVIOUS
<1>4. S \in Good
  <2> HIDE DEF Good
  <2>1. QED  BY <1>1, <1>2, <1>3, ElementInduction
<1>5. QED  BY <1>4

\* A sum of ones counts.
LEMMA SumOfOnes ==
  ASSUME NEW f, NEW S, IsFiniteSet(S), \A x \in S : f[x] = 1
  PROVE  SumFunctionOnSet(f, S) = Cardinality(S)
<1> DEFINE zero == [x \in S |-> 0]
<1>1. \A x \in S : zero[x] \in Nat /\ f[x] = 1 + zero[x]
  OBVIOUS
<1>2. SumFunctionOnSet(zero, S) = 0
  BY SumOfZeros
<1>3. Cardinality(S) \in Nat
  BY FS_CardinalityType
<1> HIDE DEF zero
<1>4. SumFunctionOnSet(f, S) = 1 * Cardinality(S) + SumFunctionOnSet(zero, S)
  BY <1>1, SumOfShift
<1>5. QED  BY <1>2, <1>3, <1>4

\* Two disjoint sets of terms.
LEMMA SumOfUnion ==
  ASSUME NEW f, NEW S, NEW U, IsFiniteSet(S), IsFiniteSet(U), S \cap U = {},
         \A x \in S \cup U : f[x] \in Nat
  PROVE  SumFunctionOnSet(f, S \cup U) = SumFunctionOnSet(f, S) + SumFunctionOnSet(f, U)
<1> DEFINE Good ==
      {T \in SUBSET U :
         SumFunctionOnSet(f, S \cup T) = SumFunctionOnSet(f, S) + SumFunctionOnSet(f, T)}
<1>0. SumFunctionOnSet(f, S) \in Nat
  BY SumIsNatural
<1>1. {} \in Good
  BY <1>0, SumOfNone
<1>2. ASSUME NEW T \in SUBSET U, NEW x \in U, T \in Good, x \notin T
      PROVE  T \cup {x} \in Good
  <2>1. IsFiniteSet(T) /\ IsFiniteSet(S \cup T)
    BY FS_Subset, FS_Union
  <2>2. SumFunctionOnSet(f, T \cup {x}) = SumFunctionOnSet(f, T) + f[x]
    BY <1>2, <2>1, SumAdds
  <2>3. SumFunctionOnSet(f, (S \cup T) \cup {x}) = SumFunctionOnSet(f, S \cup T) + f[x]
    BY <1>2, <2>1, SumAdds
  <2>4. SumFunctionOnSet(f, T) \in Nat
    BY <2>1, SumIsNatural
  <2>5. (S \cup T) \cup {x} = S \cup (T \cup {x})
    OBVIOUS
  <2>6. QED  BY <1>0, <1>2, <2>2, <2>3, <2>4, <2>5
<1>3. Good \in SUBSET SUBSET U
  OBVIOUS
<1>4. U \in Good
  <2> HIDE DEF Good
  <2>1. QED  BY <1>1, <1>2, <1>3, ElementInduction
<1>5. QED  BY <1>4

\* The greatest element of a set of numbers is its Max.
LEMMA MaxIsGreatest ==
  ASSUME NEW S \in SUBSET Nat, NEW m \in S, \A x \in S : x <= m
  PROVE  Max(S) = m
<1>1. \A x \in S : m >= x
  OBVIOUS
<1>2. Max(S) \in S /\ \A x \in S : Max(S) >= x
  BY <1>1 DEF Max
<1>3. Max(S) >= m /\ m >= Max(S) /\ m \in Nat /\ Max(S) \in Nat
  BY <1>1, <1>2
<1>4. QED  BY <1>3
-----------------------------------------------------------------------------
(* The backend.                                                            *)

Observation ==
  [active_batch_size : Nat, cache_hits : Nat, cache_misses : Nat,
   prefill_tokens : Nat, decode_tokens : Nat, cache_saved_tokens : Nat,
   cancelled_requests : Nat]

BatchMetrics ==
  [batches_total : Nat, requests_total : Nat, max_active_batch_size : Nat,
   queue_wait_ms_total : Nat, prefill_tokens_total : Nat, decode_tokens_total : Nat,
   cache_hits_total : Nat, cache_misses_total : Nat, cache_saved_tokens_total : Nat,
   cancelled_requests_total : Nat, batch_observations : Seq(Observation)]

BatchTypeOK ==
  /\ loaded \in BOOLEAN
  /\ closed \in BOOLEAN
  /\ cache \in SUBSET Prompts
  /\ served \in [Prompts -> Nat]
  /\ batch_metrics \in BatchMetrics

\* The fields of an observation, of which CounterOf knows the counters.
LEMMA FieldsListed ==
  Fields = {"active_batch_size", "cache_hits", "cache_misses", "prefill_tokens",
            "decode_tokens", "cache_saved_tokens", "cancelled_requests"}
BY DEF Fields, CounterOf

\* The counters of the fields, before and after a step.
LEMMA TotalsListed ==
  /\ Total("active_batch_size") = batch_metrics.requests_total
  /\ Total("cache_hits") = batch_metrics.cache_hits_total
  /\ Total("cache_misses") = batch_metrics.cache_misses_total
  /\ Total("prefill_tokens") = batch_metrics.prefill_tokens_total
  /\ Total("decode_tokens") = batch_metrics.decode_tokens_total
  /\ Total("cache_saved_tokens") = batch_metrics.cache_saved_tokens_total
  /\ Total("cancelled_requests") = batch_metrics.cancelled_requests_total
  /\ Total("active_batch_size")' = batch_metrics'.requests_total
  /\ Total("cache_hits")' = batch_metrics'.cache_hits_total
  /\ Total("cache_misses")' = batch_metrics'.cache_misses_total
  /\ Total("prefill_tokens")' = batch_metrics'.prefill_tokens_total
  /\ Total("decode_tokens")' = batch_metrics'.decode_tokens_total
  /\ Total("cache_saved_tokens")' = batch_metrics'.cache_saved_tokens_total
  /\ Total("cancelled_requests")' = batch_metrics'.cancelled_requests_total
BY DEF Total, CounterOf

\* An observation counts in natural numbers.
LEMMA FieldsOfObservation ==
  ASSUME NEW o \in Observation
  PROVE  \A f \in Fields : o[f] \in Nat
BY FieldsListed DEF Observation

\* The active positions of a batch are its hits and its misses.
LEMMA BatchSplits ==
  ASSUME NEW batch \in Seq(GenerationRequest)
  PROVE  /\ IsFiniteSet(DOMAIN batch) /\ Cardinality(DOMAIN batch) = Len(batch)
         /\ Active(batch) \in SUBSET DOMAIN batch
         /\ Active(batch) = Cached(batch) \cup Missed(batch)
         /\ Cached(batch) \cap Missed(batch) = {}
         /\ IsFiniteSet(Active(batch)) /\ IsFiniteSet(Cached(batch))
         /\ IsFiniteSet(Missed(batch))
         /\ Cardinality(Active(batch)) \in Nat /\ Cardinality(Cached(batch)) \in Nat
         /\ Cardinality(Missed(batch)) \in Nat
         /\ Cardinality(Active(batch)) = Cardinality(Cached(batch)) + Cardinality(Missed(batch))
         /\ Cancelled(batch) \in Nat
         /\ \A i \in DOMAIN batch : batch[i].prompt \in Prompts
<1>1. DOMAIN batch = 1..Len(batch) /\ Len(batch) \in Nat
  OBVIOUS
<1>2. IsFiniteSet(DOMAIN batch) /\ Cardinality(DOMAIN batch) = Len(batch)
  <2>1. ASSUME NEW n \in Nat
        PROVE  IsFiniteSet(1..n) /\ Cardinality(1..n) = n
    <3>1. /\ IsFiniteSet(1..n)
          /\ Cardinality(1..n) = IF 1 > n THEN 0 ELSE n - 1 + 1
      BY FS_Interval
    <3>2. QED  BY <3>1
  <2>2. QED  BY <1>1, <2>1
<1>3. /\ Active(batch) \in SUBSET DOMAIN batch
      /\ Cached(batch) \in SUBSET DOMAIN batch /\ Missed(batch) \in SUBSET DOMAIN batch
      /\ Active(batch) = Cached(batch) \cup Missed(batch)
      /\ Cached(batch) \cap Missed(batch) = {}
  BY DEF Active, Cached, Missed
<1>4. /\ IsFiniteSet(Active(batch)) /\ IsFiniteSet(Cached(batch))
      /\ IsFiniteSet(Missed(batch))
      /\ Cardinality(Active(batch)) <= Cardinality(DOMAIN batch)
  BY <1>2, <1>3, FS_Subset
<1>5. /\ Cardinality(Active(batch)) \in Nat /\ Cardinality(Cached(batch)) \in Nat
      /\ Cardinality(Missed(batch)) \in Nat
  BY <1>4, FS_CardinalityType
<1>6. Cardinality(Active(batch)) = Cardinality(Cached(batch)) + Cardinality(Missed(batch))
  <2>1. Cardinality(Cached(batch) \cap Missed(batch)) = 0
    BY <1>3, FS_EmptySet
  <2>2. Cardinality(Cached(batch) \cup Missed(batch)) =
          Cardinality(Cached(batch)) + Cardinality(Missed(batch))
          - Cardinality(Cached(batch) \cap Missed(batch))
    BY <1>4, FS_Union
  <2>3. QED  BY <1>3, <1>5, <2>1, <2>2
<1>7. Cancelled(batch) \in Nat
  BY <1>1, <1>2, <1>4, <1>5 DEF Cancelled
<1>8. \A i \in DOMAIN batch : batch[i].prompt \in Prompts
  <2>1. ASSUME NEW i \in DOMAIN batch PROVE batch[i] \in GenerationRequest
    BY <1>1
  <2>2. QED  BY <2>1 DEF GenerationRequest
<1>9. QED  BY <1>2, <1>3, <1>4, <1>5, <1>6, <1>7, <1>8

\* The words of some requests of a batch.
LEMMA WordsAreNatural ==
  ASSUME NEW batch \in Seq(GenerationRequest), NEW T \in SUBSET DOMAIN batch
  PROVE  WordsOf(batch, T) \in Nat
<1> DEFINE f == [i \in DOMAIN batch |-> Words[batch[i].prompt]]
<1>1. IsFiniteSet(T)
  BY BatchSplits, FS_Subset
<1>2. \A i \in T : f[i] \in Nat
  BY BatchSplits, BatchAssumption
<1> HIDE DEF f
<1>3. SumFunctionOnSet(f, T) \in Nat
  BY <1>1, <1>2, SumIsNatural
<1>4. QED  BY <1>3 DEF WordsOf, f

\* The words of a batch are those that were cached and those that were not.
LEMMA WordsSplit ==
  ASSUME NEW batch \in Seq(GenerationRequest)
  PROVE  WordsOf(batch, Active(batch))
           = WordsOf(batch, Cached(batch)) + WordsOf(batch, Missed(batch))
<1> DEFINE f == [i \in DOMAIN batch |-> Words[batch[i].prompt]]
<1>1. \A i \in Cached(batch) \cup Missed(batch) : f[i] \in Nat
  BY BatchSplits, BatchAssumption
<1> HIDE DEF f
<1>2. SumFunctionOnSet(f, Cached(batch) \cup Missed(batch))
        = SumFunctionOnSet(f, Cached(batch)) + SumFunctionOnSet(f, Missed(batch))
  BY <1>1, BatchSplits, SumOfUnion
<1>3. QED  BY <1>2, BatchSplits DEF WordsOf, f

\* What generate_many() observes is an observation.
LEMMA ObservationType ==
  ASSUME NEW batch \in Seq(GenerationRequest)
  PROVE  observation(batch) \in Observation
<1>1. /\ WordsOf(batch, Active(batch)) \in Nat
      /\ WordsOf(batch, Cached(batch)) \in Nat /\ WordsOf(batch, Missed(batch)) \in Nat
  BY BatchSplits, WordsAreNatural
<1>2. ReplyWords * Cardinality(Active(batch)) \in Nat
  BY BatchSplits, BatchAssumption, Distributes
<1>3. QED  BY <1>1, <1>2, BatchSplits DEF observation, Observation

\* The largest of two is one of them.
LEMMA MaxOfTwo ==
  ASSUME NEW a \in Nat, NEW b \in Nat
  PROVE  Max({a, b}) = IF a >= b THEN a ELSE b
<1>1. {a, b} \in SUBSET Nat /\ (IF a >= b THEN a ELSE b) \in {a, b}
      /\ \A x \in {a, b} : x <= (IF a >= b THEN a ELSE b)
  OBVIOUS
<1>2. QED  BY <1>1, MaxIsGreatest

\* Ten numbers and a list of observations make up the metrics.
LEMMA BatchMetricsOf ==
  ASSUME NEW a \in Nat, NEW b \in Nat, NEW c \in Nat, NEW d \in Nat, NEW e \in Nat,
         NEW f \in Nat, NEW g \in Nat, NEW h \in Nat, NEW i \in Nat, NEW j \in Nat,
         NEW list \in Seq(Observation)
  PROVE  [batches_total |-> a, requests_total |-> b, max_active_batch_size |-> c,
          queue_wait_ms_total |-> d, prefill_tokens_total |-> e, decode_tokens_total |-> f,
          cache_hits_total |-> g, cache_misses_total |-> h, cache_saved_tokens_total |-> i,
          cancelled_requests_total |-> j, batch_observations |-> list] \in BatchMetrics
BY DEF BatchMetrics

\* What generate_many() makes of the totals and the observations.
LEMMA RecordedBatch ==
  ASSUME BatchTypeOK, NEW batch \in Seq(GenerationRequest), generate_many(batch)
  PROVE  /\ batch_metrics' \in BatchMetrics
         /\ observation(batch) \in Observation
         /\ batch_metrics'.batches_total = batch_metrics.batches_total + 1
         /\ batch_metrics'.max_active_batch_size =
              IF batch_metrics.max_active_batch_size >= Cardinality(Active(batch))
              THEN batch_metrics.max_active_batch_size ELSE Cardinality(Active(batch))
         /\ \A f \in Fields : Total(f)' = Total(f) + observation(batch)[f]
         /\ batch_metrics.queue_wait_ms_total = batch_metrics.requests_total
              => batch_metrics'.queue_wait_ms_total = batch_metrics'.requests_total
         /\ batch_metrics'.batch_observations =
              Append(batch_metrics.batch_observations, observation(batch))
<1> DEFINE M == batch_metrics
           o == observation(batch)
<1>1. o \in Observation /\ \A f \in Fields : o[f] \in Nat
  BY ObservationType, FieldsOfObservation
<1>2. o.active_batch_size = Cardinality(Active(batch))
  BY DEF observation
<1>3. M' = [batches_total |-> M.batches_total + 1,
            requests_total |-> M.requests_total + o.active_batch_size,
            max_active_batch_size |-> Max({M.max_active_batch_size, o.active_batch_size}),
            queue_wait_ms_total |-> M.queue_wait_ms_total + o.active_batch_size,
            prefill_tokens_total |-> M.prefill_tokens_total + o.prefill_tokens,
            decode_tokens_total |-> M.decode_tokens_total + o.decode_tokens,
            cache_hits_total |-> M.cache_hits_total + o.cache_hits,
            cache_misses_total |-> M.cache_misses_total + o.cache_misses,
            cache_saved_tokens_total |->
              M.cache_saved_tokens_total + o.cache_saved_tokens,
            cancelled_requests_total |->
              M.cancelled_requests_total + o.cancelled_requests,
            batch_observations |-> Append(M.batch_observations, o)]
  BY DEF generate_many, recorded
<1>4. M \in BatchMetrics
  BY DEF BatchTypeOK
<1>5. Cardinality(Active(batch)) \in Nat
  BY BatchSplits
<1>6. \A f \in Fields : Total(f)' = Total(f) + o[f]
  <2>1. /\ M'.requests_total = M.requests_total + o.active_batch_size
        /\ M'.cache_hits_total = M.cache_hits_total + o.cache_hits
        /\ M'.cache_misses_total = M.cache_misses_total + o.cache_misses
        /\ M'.prefill_tokens_total = M.prefill_tokens_total + o.prefill_tokens
        /\ M'.decode_tokens_total = M.decode_tokens_total + o.decode_tokens
        /\ M'.cache_saved_tokens_total = M.cache_saved_tokens_total + o.cache_saved_tokens
        /\ M'.cancelled_requests_total = M.cancelled_requests_total + o.cancelled_requests
    <3> HIDE DEF o, M
    <3>1. QED  BY <1>3
  <2> HIDE DEF o
  <2>2. QED  BY <2>1, TotalsListed, FieldsListed
<1> HIDE DEF o, M
<1>7. Max({M.max_active_batch_size, o.active_batch_size}) =
        IF M.max_active_batch_size >= o.active_batch_size
        THEN M.max_active_batch_size ELSE o.active_batch_size
  BY <1>2, <1>4, <1>5, MaxOfTwo DEF BatchMetrics
<1>8. Append(M.batch_observations, o) \in Seq(Observation)
  BY <1>1, <1>4 DEF BatchMetrics
<1>9. M' \in BatchMetrics
  <2>1. /\ M.batches_total \in Nat /\ M.requests_total \in Nat
        /\ M.max_active_batch_size \in Nat /\ M.queue_wait_ms_total \in Nat
        /\ M.prefill_tokens_total \in Nat /\ M.decode_tokens_total \in Nat
        /\ M.cache_hits_total \in Nat /\ M.cache_misses_total \in Nat
        /\ M.cache_saved_tokens_total \in Nat /\ M.cancelled_requests_total \in Nat
    BY <1>4 DEF BatchMetrics
  <2>2. /\ o.active_batch_size \in Nat /\ o.cache_hits \in Nat /\ o.cache_misses \in Nat
        /\ o.prefill_tokens \in Nat /\ o.decode_tokens \in Nat
        /\ o.cache_saved_tokens \in Nat /\ o.cancelled_requests \in Nat
    BY <1>1 DEF Observation
  <2>3. Max({M.max_active_batch_size, o.active_batch_size}) \in Nat
    BY <1>7, <2>1, <2>2
  <2>4. /\ M.batches_total + 1 \in Nat
        /\ M.requests_total + o.active_batch_size \in Nat
        /\ M.queue_wait_ms_total + o.active_batch_size \in Nat
        /\ M.prefill_tokens_total + o.prefill_tokens \in Nat
        /\ M.decode_tokens_total + o.decode_tokens \in Nat
        /\ M.cache_hits_total + o.cache_hits \in Nat
        /\ M.cache_misses_total + o.cache_misses \in Nat
        /\ M.cache_saved_tokens_total + o.cache_saved_tokens \in Nat
        /\ M.cancelled_requests_total + o.cancelled_requests \in Nat
    <3>1. \A a, b \in Nat : a + b \in Nat /\ a + 1 \in Nat
      OBVIOUS
    <3>2. QED  BY ONLY <2>1, <2>2, <3>1, Zenon
  <2>5. QED  BY <1>3, <1>8, <2>3, <2>4, BatchMetricsOf
<1>10. M.queue_wait_ms_total = M.requests_total
         => M'.queue_wait_ms_total = M'.requests_total
  BY <1>3
<1>11. /\ M'.batches_total = M.batches_total + 1
       /\ M'.max_active_batch_size =
            IF M.max_active_batch_size >= Cardinality(Active(batch))
            THEN M.max_active_batch_size ELSE Cardinality(Active(batch))
       /\ M'.batch_observations = Append(M.batch_observations, o)
  BY <1>2, <1>3, <1>7
<1>12. QED  BY <1>1, <1>6, <1>9, <1>10, <1>11 DEF M, o

\* The types hold at first ...
LEMMA BatchInitType == BatchInit => BatchTypeOK
<1>1. <<>> \in Seq(Observation)
  OBVIOUS
<1>2. _BatchMetrics \in BatchMetrics
  BY <1>1 DEF _BatchMetrics, BatchMetrics
<1>3. 0 \in Nat /\ {} \in SUBSET Prompts /\ FALSE \in BOOLEAN
      /\ [p \in Prompts |-> 0] \in [Prompts -> Nat]
  OBVIOUS
<1> HIDE DEF _BatchMetrics
<1>4. QED  BY <1>2, <1>3, Zenon DEF BatchInit, BatchTypeOK

\* ... and after every batch.
LEMMA GenerateManyType ==
  ASSUME BatchTypeOK, NEW batch \in Seq(GenerationRequest), generate_many(batch)
  PROVE  BatchTypeOK'
<1>1. AnsweredPrompts(batch) \subseteq Prompts
  BY BatchSplits DEF AnsweredPrompts
<1>2. ASSUME NEW p \in Prompts
      PROVE  Cardinality({i \in Active(batch) : batch[i].prompt = p}) \in Nat
  <2>1. {i \in Active(batch) : batch[i].prompt = p} \in SUBSET Active(batch)
    OBVIOUS
  <2>2. QED  BY <2>1, BatchSplits, FS_Subset, FS_CardinalityType
<1>3. served' \in [Prompts -> Nat]
  BY <1>2 DEF generate_many, BatchTypeOK
<1>4. cache' \in SUBSET Prompts /\ loaded' \in BOOLEAN /\ closed' \in BOOLEAN
  BY <1>1 DEF generate_many, BatchTypeOK
<1>5. QED  BY <1>3, <1>4, RecordedBatch DEF BatchTypeOK
-----------------------------------------------------------------------------
(* Work and answers.                                                       *)

Weighed(s, weight) == [p \in Prompts |-> s[p] * weight[p]]
Weights(batch, weight) == [i \in DOMAIN batch |-> weight[batch[i].prompt]]
Added(s, batch, T) ==
  [p \in Prompts |-> s[p] + Cardinality({i \in T : batch[i].prompt = p})]

\* Answering some positions of a batch adds their weight to the weighted sum.
LEMMA ServedGrows ==
  ASSUME NEW batch \in Seq(GenerationRequest), NEW U \in SUBSET DOMAIN batch,
         NEW weight \in [Prompts -> Nat], NEW s \in [Prompts -> Nat]
  PROVE  SumFunctionOnSet(Weighed(Added(s, batch, U), weight), Prompts)
         = SumFunctionOnSet(Weighed(s, weight), Prompts)
           + SumFunctionOnSet(Weights(batch, weight), U)
<1> DEFINE times(T, p) == Cardinality({i \in T : batch[i].prompt = p})
           before == [p \in Prompts |-> s[p] * weight[p]]
           after(T) == [p \in Prompts |-> (s[p] + times(T, p)) * weight[p]]
           each == [i \in DOMAIN batch |-> weight[batch[i].prompt]]
           Good == {T \in SUBSET U :
                      SumFunctionOnSet(after(T), Prompts)
                      = SumFunctionOnSet(before, Prompts) + SumFunctionOnSet(each, T)}
<1>1. IsFiniteSet(U) /\ IsFiniteSet(Prompts)
  BY BatchSplits, FS_Subset, BatchAssumption
<1>2. \A i \in DOMAIN batch : batch[i].prompt \in Prompts /\ each[i] \in Nat
  BY BatchSplits
<1>3. ASSUME NEW T \in SUBSET U, NEW p \in Prompts
      PROVE  /\ IsFiniteSet({i \in T : batch[i].prompt = p})
             /\ times(T, p) \in Nat
             /\ after(T)[p] \in Nat /\ before[p] \in Nat
             /\ after(T)[p] = before[p] + times(T, p) * weight[p]
  <2>1. IsFiniteSet({i \in T : batch[i].prompt = p})
    <3>1. {i \in T : batch[i].prompt = p} \in SUBSET U
      OBVIOUS
    <3>2. QED  BY <1>1, <3>1, FS_Subset
  <2>2. times(T, p) \in Nat
    BY <2>1, FS_CardinalityType
  <2>3. s[p] \in Nat /\ weight[p] \in Nat
    OBVIOUS
  <2> HIDE DEF times
  <2>4. /\ (s[p] + times(T, p)) * weight[p] = s[p] * weight[p] + times(T, p) * weight[p]
        /\ s[p] * weight[p] \in Nat /\ times(T, p) * weight[p] \in Nat
    BY <2>2, <2>3, Distributes
  <2>5. QED  BY <2>1, <2>2, <2>4
<1>4. \A p \in Prompts : before[p] \in Nat
  BY <1>3
<1>5. SumFunctionOnSet(before, Prompts) \in Nat
  <2> HIDE DEF before
  <2>1. QED  BY <1>1, <1>4, SumIsNatural
<1>6. {} \in Good
  <2>1. ASSUME NEW p \in Prompts PROVE times({}, p) = 0
    <3>1. {i \in {} : batch[i].prompt = p} = {}
      OBVIOUS
    <3>2. QED  BY <3>1, FS_EmptySet
  <2>2. \A p \in Prompts : s[p] + times({}, p) = s[p]
    BY <2>1
  <2>3. after({}) = before
    BY <2>2
  <2> HIDE DEF after, before, each
  <2>4. QED  BY <1>5, <2>3, SumOfNone
<1>7. ASSUME NEW T \in SUBSET U, NEW x \in U, T \in Good, x \notin T
      PROVE  T \cup {x} \in Good
  <2> DEFINE y == batch[x].prompt
             V == T \cup {x}
  <2>1. y \in Prompts /\ V \in SUBSET U
    BY <1>2
  <2>2. ASSUME NEW p \in Prompts \ {y} PROVE after(V)[p] = after(T)[p]
    <3>1. {i \in V : batch[i].prompt = p} = {i \in T : batch[i].prompt = p}
      BY <2>2
    <3>2. QED  BY <3>1
  <2>3. after(V)[y] = after(T)[y] + weight[y]
    <3>1. {i \in V : batch[i].prompt = y} = {i \in T : batch[i].prompt = y} \cup {x}
      OBVIOUS
    <3>2. IsFiniteSet({i \in T : batch[i].prompt = y})
      BY <1>3, <2>1
    <3>3. times(V, y) = times(T, y) + 1
      BY <1>7, <3>1, <3>2, FS_AddElement
    <3>4. /\ times(T, y) \in Nat /\ weight[y] \in Nat /\ before[y] \in Nat
          /\ after(T)[y] = before[y] + times(T, y) * weight[y]
          /\ after(V)[y] = before[y] + times(V, y) * weight[y]
      BY <1>3, <2>1
    <3> HIDE DEF times, after, before, y, V
    <3> DEFINE old == times(T, y) * weight[y]
    <3>5. (times(T, y) + 1) * weight[y] = old + weight[y] /\ old \in Nat
      BY <3>4, Distributes
    <3>6. times(V, y) * weight[y] = old + weight[y]
      BY ONLY <3>3, <3>5, Zenon
    <3>7. after(T)[y] = before[y] + old /\ after(V)[y] = before[y] + (old + weight[y])
      BY ONLY <3>4, <3>6, Zenon DEF old
    <3>8. before[y] \in Nat /\ weight[y] \in Nat /\ old \in Nat
      BY <3>4, <3>5
    <3> HIDE DEF old
    <3>9. QED  BY <3>7, <3>8
  <2>4. \A p \in Prompts : after(T)[p] \in Nat
    BY <1>3
  <2>5. weight[y] \in Nat
    BY <2>1
  <2>6. SumFunctionOnSet(after(V), Prompts) = SumFunctionOnSet(after(T), Prompts) + weight[y]
    <3> HIDE DEF after, y, V
    <3>1. QED  BY <1>1, <2>1, <2>2, <2>3, <2>4, <2>5, SumOfChange
  <2>7. IsFiniteSet(T) /\ each[x] = weight[y] /\ \A i \in T \cup {x} : each[i] \in Nat
    BY <1>1, <1>2, FS_Subset
  <2>8. /\ SumFunctionOnSet(each, V) = SumFunctionOnSet(each, T) + weight[y]
        /\ SumFunctionOnSet(each, T) \in Nat
    <3> HIDE DEF each, y, Good
    <3>1. QED  BY <1>7, <2>7, SumAdds, SumIsNatural
  <2>9. SumFunctionOnSet(after(T), Prompts)
          = SumFunctionOnSet(before, Prompts) + SumFunctionOnSet(each, T)
    BY <1>7
  <2> HIDE DEF after, before, each, y
  <2>10. QED  BY <1>5, <2>1, <2>5, <2>6, <2>8, <2>9
<1>8. Good \in SUBSET SUBSET U
  OBVIOUS
<1>9. U \in Good
  <2> HIDE DEF Good
  <2>1. QED  BY <1>1, <1>6, <1>7, <1>8, ElementInduction
<1>10. /\ Weighed(Added(s, batch, U), weight) = after(U) /\ Weighed(s, weight) = before
       /\ Weights(batch, weight) = each
  BY DEF Weighed, Added, Weights
<1>11. QED  BY <1>9, <1>10

\* A batch adds the weight of what it answers to a weighted sum of answers.
LEMMA ServedAdded ==
  ASSUME BatchTypeOK, NEW batch \in Seq(GenerationRequest), generate_many(batch),
         NEW weight \in [Prompts -> Nat]
  PROVE  ServedSum(weight)' =
           ServedSum(weight) + SumFunctionOnSet(Weights(batch, weight), Active(batch))
<1>1. served \in [Prompts -> Nat] /\ Active(batch) \in SUBSET DOMAIN batch
  BY BatchSplits DEF BatchTypeOK
<1>2. served' = Added(served, batch, Active(batch))
  BY DEF generate_many, Added
<1>3. /\ ServedSum(weight) = SumFunctionOnSet(Weighed(served, weight), Prompts)
      /\ ServedSum(weight)' = SumFunctionOnSet(Weighed(served', weight), Prompts)
  BY DEF ServedSum, Weighed
<1>4. QED  BY <1>1, <1>2, <1>3, ServedGrows

\* A weighted sum of answers is a natural number.
LEMMA ServedSumType ==
  ASSUME BatchTypeOK, NEW weight \in [Prompts -> Nat]
  PROVE  ServedSum(weight) \in Nat
<1> DEFINE f == [p \in Prompts |-> served[p] * weight[p]]
<1>1. ASSUME NEW p \in Prompts PROVE f[p] \in Nat
  BY Distributes DEF BatchTypeOK
<1> HIDE DEF f
<1>2. SumFunctionOnSet(f, Prompts) \in Nat
  BY <1>1, SumIsNatural, BatchAssumption
<1>3. QED  BY <1>2 DEF ServedSum, f
\* What a batch adds to the cache: at most its misses, of which repetitions are
\* left out, and one prompt at least if it has a miss.
LEMMA CacheGrows ==
  ASSUME BatchTypeOK, NEW batch \in Seq(GenerationRequest), generate_many(batch)
  PROVE  /\ Cardinality(cache) \in Nat
         /\ \E n \in Nat :
              /\ Cardinality(cache') = Cardinality(cache) + n
              /\ n <= Cardinality(Missed(batch))
              /\ Cardinality(Missed(batch)) <=
                   n + Cardinality(Active(batch)) - (IF Active(batch) = {} THEN 0 ELSE 1)
<1> DEFINE P == {batch[i].prompt : i \in Missed(batch)}
           n == Cardinality(P)
<1>1. IsFiniteSet(cache) /\ Cardinality(cache) \in Nat
  BY BatchAssumption, FS_Subset, FS_CardinalityType DEF BatchTypeOK
<1>2. cache' = cache \cup P /\ cache \cap P = {}
  BY BatchSplits DEF generate_many, AnsweredPrompts, Cached, Missed
<1>3. IsFiniteSet(P) /\ n <= Cardinality(Missed(batch))
  <2> DEFINE g == [i \in Missed(batch) |-> batch[i].prompt]
  <2>1. g \in Surjection(Missed(batch), P)
    BY DEF Surjection
  <2> HIDE DEF g
  <2>2. QED  BY <2>1, BatchSplits, FS_Surjection
<1>4. n \in Nat
  BY <1>3, FS_CardinalityType
<1>5. Cardinality(cache') = Cardinality(cache) + n
  <2>1. Cardinality(cache \cap P) = 0
    BY <1>2, FS_EmptySet
  <2>2. Cardinality(cache \cup P) = Cardinality(cache) + Cardinality(P)
                                      - Cardinality(cache \cap P)
    BY <1>1, <1>3, FS_Union
  <2> HIDE DEF P
  <2>3. QED  BY <1>1, <1>2, <1>4, <2>1, <2>2
<1>6. Cardinality(Missed(batch)) <=
        n + Cardinality(Active(batch)) - (IF Active(batch) = {} THEN 0 ELSE 1)
  <2>1. /\ Cardinality(Active(batch)) \in Nat /\ Cardinality(Missed(batch)) \in Nat
        /\ Cardinality(Cached(batch)) \in Nat
        /\ Cardinality(Active(batch)) = Cardinality(Cached(batch)) + Cardinality(Missed(batch))
    BY BatchSplits
  <2>2. CASE Missed(batch) = {}
    <3>1. Cardinality(Missed(batch)) = 0
      BY <2>2, FS_EmptySet
    <3>2. Active(batch) # {} => Cardinality(Active(batch)) # 0
      BY BatchSplits, FS_EmptySet
    <3> HIDE DEF n
    <3>3. QED  BY <1>4, <2>1, <3>1, <3>2
  <2>3. CASE Missed(batch) # {}
    <3>1. P # {} /\ n # 0
      <4>1. P # {}
        BY <2>3
      <4> HIDE DEF P
      <4>2. QED  BY <1>3, <4>1, FS_EmptySet
    <3>2. Cardinality(Missed(batch)) <= n + Cardinality(Active(batch)) - 1
      <4> HIDE DEF n
      <4>1. QED  BY <1>4, <2>1, <3>1
    <3>3. Active(batch) # {}
      BY <2>3 DEF Missed
    <3> HIDE DEF n
    <3>4. QED  BY <3>2, <3>3
  <2>4. QED  BY <2>2, <2>3
<1> HIDE DEF n
<1>7. QED  BY <1>1, <1>3, <1>4, <1>5, <1>6

\* A batch without an active request is the only one not counted.
LEMMA NonEmptyGrows ==
  ASSUME BatchTypeOK, NEW batch \in Seq(GenerationRequest), generate_many(batch)
  PROVE  /\ NonEmptyBatches \in Nat
         /\ NonEmptyBatches' = NonEmptyBatches + (IF Active(batch) = {} THEN 0 ELSE 1)
<1> DEFINE obs == batch_metrics.batch_observations
           o == observation(batch)
           N == {i \in DOMAIN obs : obs[i].active_batch_size > 0}
           k == Len(obs) + 1
<1>1. obs \in Seq(Observation) /\ obs' = Append(obs, o) /\ o \in Observation
  BY RecordedBatch DEF BatchTypeOK, BatchMetrics
<1>2. o.active_batch_size = Cardinality(Active(batch))
  BY DEF observation
<1>3. Cardinality(Active(batch)) > 0 <=> Active(batch) # {}
  BY BatchSplits, FS_EmptySet
<1> HIDE DEF obs, o
<1>4. /\ DOMAIN obs = 1..Len(obs) /\ DOMAIN obs' = DOMAIN obs \cup {k} /\ k \notin DOMAIN obs
      /\ (\A i \in DOMAIN obs : obs'[i] = obs[i]) /\ obs'[k] = o /\ Len(obs) \in Nat
  BY <1>1
<1>5. IsFiniteSet(N) /\ Cardinality(N) \in Nat
  <2>1. IsFiniteSet(DOMAIN obs) /\ N \in SUBSET DOMAIN obs
    BY <1>4, FS_Interval
  <2>2. QED  BY <2>1, FS_Subset, FS_CardinalityType
<1>6. N' = IF Active(batch) = {} THEN N ELSE N \cup {k}
  <2> HIDE DEF k
  <2>1. QED  BY <1>2, <1>3, <1>4
<1>7. k \notin N
  BY <1>4
<1>8. Cardinality(N') = Cardinality(N) + (IF Active(batch) = {} THEN 0 ELSE 1)
  <2> HIDE DEF N, k
  <2>1. CASE Active(batch) = {}
    BY <1>5, <1>6, <2>1
  <2>2. CASE Active(batch) # {}
    BY <1>5, <1>6, <1>7, <2>2, FS_AddElement
  <2>3. QED  BY <2>1, <2>2
<1>9. QED  BY <1>5, <1>8 DEF NonEmptyBatches, N, obs

Ones == [p \in Prompts |-> 1]
Decoded == [p \in Prompts |-> ReplyWords + Words[p]]

\* What the answers of a batch weigh, for the three weights.
LEMMA WeightsOfBatch ==
  ASSUME NEW batch \in Seq(GenerationRequest)
  PROVE  /\ Ones \in [Prompts -> Nat] /\ Decoded \in [Prompts -> Nat]
         /\ Words \in [Prompts -> Nat]
         /\ SumFunctionOnSet(Weights(batch, Ones), Active(batch)) = Cardinality(Active(batch))
         /\ SumFunctionOnSet(Weights(batch, Words), Active(batch))
              = WordsOf(batch, Active(batch))
         /\ SumFunctionOnSet(Weights(batch, Decoded), Active(batch))
              = WordsOf(batch, Active(batch)) + ReplyWords * Cardinality(Active(batch))
<1>1. Ones \in [Prompts -> Nat] /\ Decoded \in [Prompts -> Nat] /\ Words \in [Prompts -> Nat]
  BY BatchAssumption DEF Ones, Decoded
<1>2. \A i \in Active(batch) :
        /\ Weights(batch, Ones)[i] = 1
        /\ Weights(batch, Words)[i] \in Nat
        /\ Weights(batch, Decoded)[i] = ReplyWords + Weights(batch, Words)[i]
  BY BatchSplits, BatchAssumption DEF Weights, Ones, Decoded
<1>3. SumFunctionOnSet(Weights(batch, Ones), Active(batch)) = Cardinality(Active(batch))
  BY <1>2, BatchSplits, SumOfOnes
<1>4. SumFunctionOnSet(Weights(batch, Words), Active(batch)) = WordsOf(batch, Active(batch))
  BY DEF Weights, WordsOf
<1>5. SumFunctionOnSet(Weights(batch, Decoded), Active(batch))
        = ReplyWords * Cardinality(Active(batch))
          + SumFunctionOnSet(Weights(batch, Words), Active(batch))
  BY <1>2, BatchSplits, BatchAssumption, SumOfShift
<1>6. ReplyWords * Cardinality(Active(batch)) \in Nat /\ WordsOf(batch, Active(batch)) \in Nat
  BY BatchSplits, BatchAssumption, WordsAreNatural, Distributes
<1>7. SumFunctionOnSet(Weights(batch, Decoded), Active(batch))
        = WordsOf(batch, Active(batch)) + ReplyWords * Cardinality(Active(batch))
  <2> DEFINE a == ReplyWords * Cardinality(Active(batch))
             b == WordsOf(batch, Active(batch))
  <2>1. /\ a \in Nat /\ b \in Nat
        /\ SumFunctionOnSet(Weights(batch, Decoded), Active(batch)) = a + b
    BY <1>4, <1>5, <1>6
  <2> HIDE DEF a, b
  <2>2. SumFunctionOnSet(Weights(batch, Decoded), Active(batch)) = b + a
    BY <2>1
  <2>3. QED  BY <2>2 DEF a, b
<1>8. QED  BY <1>1, <1>3, <1>4, <1>7

\* The sums of WorkConserved, in the order of its conjuncts.
LEMMA WorkNext ==
  ASSUME BatchTypeOK, WorkConserved, NEW batch \in Seq(GenerationRequest),
         generate_many(batch)
  PROVE  WorkConserved'
<1> DEFINE active == Cardinality(Active(batch))
           hits == Cardinality(Cached(batch))
           misses == Cardinality(Missed(batch))
           saved == WordsOf(batch, Cached(batch))
           prefilled == WordsOf(batch, Missed(batch))
           answered == WordsOf(batch, Active(batch))
           decoded == answered + ReplyWords * active
<1>1. /\ Total("active_batch_size")' = Total("active_batch_size") + active
      /\ Total("cache_hits")' = Total("cache_hits") + hits
      /\ Total("cache_misses")' = Total("cache_misses") + misses
      /\ Total("prefill_tokens")' = Total("prefill_tokens") + prefilled
      /\ Total("decode_tokens")' = Total("decode_tokens") + decoded
      /\ Total("cache_saved_tokens")' = Total("cache_saved_tokens") + saved
  <2>1. \A f \in Fields : Total(f)' = Total(f) + observation(batch)[f]
    BY RecordedBatch
  <2>2. /\ observation(batch).active_batch_size = active
        /\ observation(batch).cache_hits = hits
        /\ observation(batch).cache_misses = misses
        /\ observation(batch).prefill_tokens = prefilled
        /\ observation(batch).decode_tokens = decoded
        /\ observation(batch).cache_saved_tokens = saved
    BY DEF observation
  <2>3. QED  BY <2>1, <2>2, FieldsListed
<1>2. /\ Total("active_batch_size") \in Nat /\ Total("cache_hits") \in Nat
      /\ Total("cache_misses") \in Nat /\ Total("prefill_tokens") \in Nat
      /\ Total("decode_tokens") \in Nat /\ Total("cache_saved_tokens") \in Nat
  BY TotalsListed DEF BatchTypeOK, BatchMetrics
<1>3. /\ active \in Nat /\ hits \in Nat /\ misses \in Nat /\ active = hits + misses
      /\ saved \in Nat /\ prefilled \in Nat /\ answered = saved + prefilled
  BY BatchSplits, WordsAreNatural, WordsSplit
<1>4. decoded \in Nat
  <2>1. answered \in Nat /\ ReplyWords * active \in Nat
    BY BatchSplits, WordsAreNatural, BatchAssumption, Distributes
  <2>2. QED  BY <2>1
<1>5. /\ ServedSum(Ones)' = ServedSum(Ones) + active
      /\ ServedSum(Words)' = ServedSum(Words) + answered
      /\ ServedSum(Decoded)' = ServedSum(Decoded) + decoded
  BY WeightsOfBatch, ServedAdded
<1>6. ServedSum(Ones) \in Nat /\ ServedSum(Words) \in Nat /\ ServedSum(Decoded) \in Nat
  BY WeightsOfBatch, ServedSumType
<1>7. /\ Total("active_batch_size") = ServedSum(Ones)
      /\ Total("cache_hits") + Total("cache_misses") = Total("active_batch_size")
      /\ Total("prefill_tokens") + Total("cache_saved_tokens") = ServedSum(Words)
      /\ Total("decode_tokens") = ServedSum(Decoded)
      /\ Cardinality(cache) <= Total("cache_misses")
      /\ Total("cache_misses") <=
           Cardinality(cache) + Total("active_batch_size") - NonEmptyBatches
  BY DEF WorkConserved, Ones, Decoded
<1> HIDE DEF active, hits, misses, saved, prefilled, answered, decoded
<1>8. /\ Total("active_batch_size")' = ServedSum(Ones)'
      /\ Total("cache_hits")' + Total("cache_misses")' = Total("active_batch_size")'
      /\ Total("prefill_tokens")' + Total("cache_saved_tokens")' = ServedSum(Words)'
      /\ Total("decode_tokens")' = ServedSum(Decoded)'
  <2>1. Total("active_batch_size")' = ServedSum(Ones)'
    BY <1>1, <1>5, <1>7
  <2>2. Total("decode_tokens")' = ServedSum(Decoded)'
    BY <1>1, <1>5, <1>7
  <2>3. Total("cache_hits")' + Total("cache_misses")' = Total("active_batch_size")'
    BY <1>1, <1>2, <1>3, <1>7
  <2>4. Total("prefill_tokens")' + Total("cache_saved_tokens")' = ServedSum(Words)'
    <3> DEFINE filled == Total("prefill_tokens")
               spared == Total("cache_saved_tokens")
               words == ServedSum(Words)
    <3>1. /\ filled' = filled + prefilled
          /\ spared' = spared + saved
          /\ words' = words + answered
      BY <1>1, <1>5
    <3>2. filled \in Nat /\ spared \in Nat /\ words \in Nat /\ filled + spared = words
      BY <1>2, <1>6, <1>7
    <3> HIDE DEF filled, spared, words
    <3>3. filled' + spared' = words'
      BY <1>3, <3>1, <3>2
    <3>4. QED  BY <3>3 DEF filled, spared, words
  <2>5. QED  BY <2>1, <2>2, <2>3, <2>4, Zenon
<1>9. /\ Cardinality(cache') <= Total("cache_misses")'
      /\ Total("cache_misses")' <=
           Cardinality(cache') + Total("active_batch_size")' - NonEmptyBatches'
  <2> DEFINE d == IF Active(batch) = {} THEN 0 ELSE 1
             total == Total("active_batch_size")
             missed == Total("cache_misses")
             cached == Cardinality(cache)
  <2>1. PICK n \in Nat : /\ cached' = cached + n
                         /\ n <= misses /\ misses <= n + active - d
    BY CacheGrows DEF misses, active
  <2>2. NonEmptyBatches \in Nat /\ NonEmptyBatches' = NonEmptyBatches + d
    BY NonEmptyGrows
  <2>3. cached \in Nat /\ total \in Nat /\ missed \in Nat /\ misses \in Nat
        /\ active \in Nat /\ d \in Nat
    BY <1>2, <1>3, CacheGrows
  <2>4. total' = total + active /\ missed' = missed + misses
    BY <1>1
  <2>5. cached <= missed /\ missed <= cached + total - NonEmptyBatches
    BY <1>7
  <2> HIDE DEF d, total, missed, cached
  <2>6. cached' <= missed'
    BY <2>1, <2>3, <2>4, <2>5
  <2>7. missed' <= cached' + total' - NonEmptyBatches'
    BY <2>1, <2>2, <2>3, <2>4, <2>5
  <2>8. QED  BY <2>6, <2>7 DEF total, missed, cached
<1>10. QED  BY <1>8, <1>9 DEF WorkConserved, Ones, Decoded
\* A prompt is cached when it is first answered.
LEMMA CacheNext ==
  ASSUME BatchTypeOK, CacheIsServedPrompts, NEW batch \in Seq(GenerationRequest),
         generate_many(batch)
  PROVE  CacheIsServedPrompts'
<1>1. ASSUME NEW p \in Prompts
      PROVE  served'[p] > 0 <=> served[p] > 0 \/ p \in AnsweredPrompts(batch)
  <2> DEFINE I == {i \in Active(batch) : batch[i].prompt = p}
  <2>1. IsFiniteSet(I)
    BY BatchSplits, FS_Subset
  <2>2. Cardinality(I) \in Nat /\ (Cardinality(I) = 0 <=> I = {})
    <3> HIDE DEF I
    <3>1. QED  BY <2>1, FS_CardinalityType, FS_EmptySet
  <2>3. I = {} <=> p \notin AnsweredPrompts(batch)
    BY DEF AnsweredPrompts
  <2>4. served'[p] = served[p] + Cardinality(I) /\ served[p] \in Nat
    BY DEF generate_many, BatchTypeOK
  <2> HIDE DEF I
  <2>5. QED  BY <2>2, <2>3, <2>4
<1>2. AnsweredPrompts(batch) \subseteq Prompts
  BY BatchSplits DEF AnsweredPrompts
<1>3. cache' = cache \cup AnsweredPrompts(batch)
  BY DEF generate_many
<1>4. cache = {p \in Prompts : served[p] > 0}
  BY DEF CacheIsServedPrompts
<1>5. cache' = {p \in Prompts : served'[p] > 0}
  BY <1>1, <1>2, <1>3, <1>4
<1>6. QED  BY <1>5 DEF CacheIsServedPrompts

-----------------------------------------------------------------------------
(* The observations.                                                       *)

Observed(obs, f) == [i \in DOMAIN obs |-> obs[i][f]]

\* ObservationsSumUp with the maximum as the greatest element it is.
SumInv ==
  LET obs == batch_metrics.batch_observations
      greatest == batch_metrics.max_active_batch_size
  IN  /\ batch_metrics.batches_total = Len(obs)
      /\ batch_metrics.queue_wait_ms_total = batch_metrics.requests_total
      /\ \A f \in Fields : Total(f) = SumFunctionOnSet(Observed(obs, f), DOMAIN obs)
      /\ greatest \in {0} \cup {obs[i].active_batch_size : i \in DOMAIN obs}
      /\ \A i \in DOMAIN obs : obs[i].active_batch_size <= greatest

\* The sums of the observations are what the property says.
LEMMA SumInvImplies == BatchTypeOK /\ SumInv => ObservationsSumUp
<1> SUFFICES ASSUME BatchTypeOK, SumInv PROVE ObservationsSumUp
  OBVIOUS
<1> DEFINE obs == batch_metrics.batch_observations
           greatest == batch_metrics.max_active_batch_size
           sizes == {0} \cup {obs[i].active_batch_size : i \in DOMAIN obs}
<1>1. ASSUME NEW i \in DOMAIN obs PROVE obs[i].active_batch_size \in Nat
  <2>1. obs \in Seq(Observation)
    BY DEF BatchTypeOK, BatchMetrics
  <2> HIDE DEF obs
  <2>2. obs[i] \in Observation
    BY <2>1
  <2>3. QED  BY <2>2 DEF Observation
<1>2. sizes \in SUBSET Nat /\ greatest \in sizes /\ \A x \in sizes : x <= greatest
  <2>1. greatest \in sizes /\ \A i \in DOMAIN obs : obs[i].active_batch_size <= greatest
    BY DEF SumInv
  <2>2. greatest \in Nat
    BY DEF BatchTypeOK, BatchMetrics
  <2> HIDE DEF obs, greatest
  <2>3. QED  BY <1>1, <2>1, <2>2
<1>3. Max(sizes) = greatest
  <2> HIDE DEF sizes, greatest
  <2>1. QED  BY <1>2, MaxIsGreatest
<1>4. \A f \in Fields :
        Total(f) = SumFunctionOnSet([i \in DOMAIN obs |-> obs[i][f]], DOMAIN obs)
  BY DEF SumInv, Observed
<1>5. /\ batch_metrics.batches_total = Len(obs)
      /\ batch_metrics.queue_wait_ms_total = batch_metrics.requests_total
  BY DEF SumInv
<1>6. QED  BY <1>3, <1>4, <1>5 DEF ObservationsSumUp

\* A batch adds its observation to the sums.
LEMMA SumNext ==
  ASSUME BatchTypeOK, SumInv, NEW batch \in Seq(GenerationRequest), generate_many(batch)
  PROVE  SumInv'
<1> DEFINE obs == batch_metrics.batch_observations
           greatest == batch_metrics.max_active_batch_size
           o == observation(batch)
           k == Len(obs) + 1
<1>1. /\ obs \in Seq(Observation) /\ obs' = Append(obs, o) /\ o \in Observation
      /\ o.active_batch_size = Cardinality(Active(batch))
      /\ batch_metrics'.batches_total = batch_metrics.batches_total + 1
      /\ greatest' = IF greatest >= o.active_batch_size THEN greatest ELSE o.active_batch_size
      /\ \A f \in Fields : Total(f)' = Total(f) + o[f]
  <2>1. o.active_batch_size = Cardinality(Active(batch))
    BY DEF observation
  <2>2. QED  BY <2>1, RecordedBatch DEF BatchTypeOK, BatchMetrics
<1>2. /\ batch_metrics.batches_total = Len(obs)
      /\ \A f \in Fields : Total(f) = SumFunctionOnSet(Observed(obs, f), DOMAIN obs)
      /\ greatest \in {0} \cup {obs[i].active_batch_size : i \in DOMAIN obs}
      /\ \A i \in DOMAIN obs : obs[i].active_batch_size <= greatest
  BY DEF SumInv
<1>3. greatest \in Nat /\ o.active_batch_size \in Nat
  BY <1>1 DEF BatchTypeOK, BatchMetrics, Observation
<1> HIDE DEF obs, o, greatest
<1>4. /\ DOMAIN obs = 1..Len(obs) /\ DOMAIN obs' = DOMAIN obs \cup {k} /\ k \notin DOMAIN obs
      /\ (\A i \in DOMAIN obs : obs'[i] = obs[i]) /\ obs'[k] = o /\ Len(obs) \in Nat
      /\ Len(obs') = Len(obs) + 1
      /\ \A i \in DOMAIN obs : obs[i] \in Observation
  BY <1>1
<1>5. IsFiniteSet(DOMAIN obs)
  BY <1>4, FS_Interval
<1>6. ASSUME NEW f \in Fields
      PROVE  Total(f)' = SumFunctionOnSet(Observed(obs', f), DOMAIN obs')
  <2>1. \A i \in DOMAIN obs : Observed(obs, f)[i] = Observed(obs', f)[i]
                              /\ Observed(obs, f)[i] \in Nat
    BY <1>4, FieldsOfObservation DEF Observed
  <2>2. Observed(obs', f)[k] = o[f] /\ o[f] \in Nat
    BY <1>1, <1>4, FieldsOfObservation DEF Observed
  <2>3. SumFunctionOnSet(Observed(obs, f), DOMAIN obs)
          = SumFunctionOnSet(Observed(obs', f), DOMAIN obs)
    BY <1>5, <2>1, SumOfSame
  <2>4. SumFunctionOnSet(Observed(obs', f), DOMAIN obs \cup {k})
          = SumFunctionOnSet(Observed(obs', f), DOMAIN obs) + o[f]
    <3>1. \A i \in DOMAIN obs \cup {k} : Observed(obs', f)[i] \in Nat
      BY <2>1, <2>2
    <3>2. k \notin DOMAIN obs
      BY <1>4
    <3> DEFINE g == Observed(obs', f)
               D == DOMAIN obs
    <3> HIDE DEF k, g, D
    <3>3. SumFunctionOnSet(g, D \cup {k}) = SumFunctionOnSet(g, D) + g[k]
      <4>1. IsFiniteSet(D) /\ k \notin D /\ \A i \in D \cup {k} : g[i] \in Nat
        BY <1>5, <3>1, <3>2 DEF g, D
      <4>2. QED  BY ONLY <4>1, SumAdds
    <3>4. QED  BY <2>2, <3>3 DEF g, D
  <2>5. Total(f)' = Total(f) + o[f]
        /\ Total(f) = SumFunctionOnSet(Observed(obs, f), DOMAIN obs)
    BY <1>1, <1>2
  <2>6. DOMAIN obs' = DOMAIN obs \cup {k}
    BY <1>4
  <2> HIDE DEF k
  <2>7. QED  BY <2>3, <2>4, <2>5, <2>6
<1>7. /\ greatest' \in {0} \cup {obs'[i].active_batch_size : i \in DOMAIN obs'}
      /\ \A i \in DOMAIN obs' : obs'[i].active_batch_size <= greatest'
  <2>1. \A i \in DOMAIN obs : obs[i].active_batch_size \in Nat
    BY <1>4 DEF Observation
  <2> HIDE DEF k
  <2>2. CASE greatest >= o.active_batch_size
    BY <1>1, <1>2, <1>3, <1>4, <2>1, <2>2
  <2>3. CASE ~(greatest >= o.active_batch_size)
    <3>1. \A i \in DOMAIN obs : obs[i].active_batch_size <= o.active_batch_size
      BY <1>2, <1>3, <2>1, <2>3
    <3>2. greatest' = o.active_batch_size
      BY <1>1, <2>3
    <3>3. obs'[k].active_batch_size = o.active_batch_size
          /\ \A i \in DOMAIN obs : obs'[i].active_batch_size = obs[i].active_batch_size
      BY <1>4
    <3>4. o.active_batch_size <= o.active_batch_size
      BY <1>3
    <3>5. QED  BY <1>4, <3>1, <3>2, <3>3, <3>4
  <2>4. QED  BY <2>2, <2>3
<1>8. /\ batch_metrics'.batches_total = Len(obs')
      /\ batch_metrics'.queue_wait_ms_total = batch_metrics'.requests_total
  BY <1>1, <1>2, <1>4, RecordedBatch DEF SumInv
<1>9. QED  BY <1>6, <1>7, <1>8 DEF SumInv, obs, greatest
-----------------------------------------------------------------------------
(* FakeBatchedBackend, driven with any batches.                            *)

BatchInv == BatchTypeOK /\ WorkConserved /\ CacheIsServedPrompts /\ SumInv

\* The invariant of the backend alone holds at first ...
LEMMA BatchInvInit == BatchInit => BatchInv
<1> SUFFICES ASSUME BatchInit PROVE BatchInv
  OBVIOUS
<1>1. BatchTypeOK
  BY BatchInitType
<1>2. /\ cache = {} /\ served = [p \in Prompts |-> 0]
      /\ \A f \in Fields : Total(f) = 0
      /\ batch_metrics.batches_total = 0 /\ batch_metrics.max_active_batch_size = 0
      /\ batch_metrics.batch_observations = <<>>
      /\ batch_metrics.queue_wait_ms_total = batch_metrics.requests_total
  BY FieldsListed, TotalsListed DEF BatchInit, _BatchMetrics
<1>3. ASSUME NEW weight \in [Prompts -> Nat] PROVE ServedSum(weight) = 0
  <2> DEFINE f == [p \in Prompts |-> served[p] * weight[p]]
  <2>1. \A p \in Prompts : f[p] = 0
    BY <1>2, Distributes
  <2> HIDE DEF f
  <2>2. SumFunctionOnSet(f, Prompts) = 0
    BY <2>1, SumOfZeros, BatchAssumption
  <2>3. QED  BY <2>2 DEF ServedSum, f
<1>4. CacheIsServedPrompts
  BY <1>2 DEF CacheIsServedPrompts
<1>5. WorkConserved
  <2>1. ServedSum(Ones) = 0 /\ ServedSum(Words) = 0 /\ ServedSum(Decoded) = 0
    BY <1>3, BatchAssumption DEF Ones, Decoded
  <2>2. Cardinality(cache) = 0
    BY <1>2, FS_EmptySet
  <2>3. NonEmptyBatches = 0
    BY <1>2, FS_EmptySet DEF NonEmptyBatches
  <2>4. QED  BY <1>2, <2>1, <2>2, <2>3, FieldsListed DEF WorkConserved, Ones, Decoded
<1>6. SumInv
  <2>1. \A f \in Fields : SumFunctionOnSet(Observed(<<>>, f), DOMAIN <<>>) = 0
    BY SumOfNone
  <2>2. QED  BY <1>2, <2>1 DEF SumInv
<1>7. QED  BY <1>1, <1>4, <1>5, <1>6 DEF BatchInv

\* Whatever leaves the cache and the counters alone keeps the invariant.
LEMMA BatchInvFrame ==
  ASSUME BatchInv, UNCHANGED <<cache, batch_metrics, served>>,
         loaded' \in BOOLEAN, closed' \in BOOLEAN
  PROVE  BatchInv'
<1>1. BatchTypeOK'
  BY DEF BatchInv, BatchTypeOK
<1>2. WorkConserved' /\ CacheIsServedPrompts' /\ SumInv'
  BY DEF BatchInv, WorkConserved, CacheIsServedPrompts, SumInv, Total, ServedSum,
         NonEmptyBatches
<1>3. QED  BY <1>1, <1>2 DEF BatchInv

\* ... and after each of its operations.
LEMMA BatchInvNext ==
  ASSUME BatchInv
  PROVE  /\ load \/ close \/ UNCHANGED batchVars => BatchInv'
         /\ \A batch \in Seq(GenerationRequest) :
              generate_many(batch) \/ generate_many_raises(batch) => BatchInv'
<1>1. CASE load \/ close \/ UNCHANGED batchVars
  BY <1>1, BatchInvFrame DEF load, close, batchVars, BatchInv, BatchTypeOK
<1>2. ASSUME NEW batch \in Seq(GenerationRequest), generate_many(batch)
      PROVE  BatchInv'
  BY <1>2, GenerateManyType, WorkNext, CacheNext, SumNext DEF BatchInv
<1>3. QED  BY <1>1, <1>2 DEF generate_many_raises

\* ... and so always.
LEMMA BatchInvariant == BatchSpec => []BatchInv
<1>1. BatchInv /\ [BatchNext]_batchVars => BatchInv'
  <2> SUFFICES ASSUME BatchInv, [BatchNext]_batchVars PROVE BatchInv'
    OBVIOUS
  <2>1. Batches \subseteq Seq(GenerationRequest)
    <3>1. ASSUME NEW n \in 0..MaxBatch, NEW batch \in [1..n -> GenerationRequest]
          PROVE  batch \in Seq(GenerationRequest)
      BY BatchBounds
    <3>2. QED  BY <3>1 DEF Batches
  <2>2. QED  BY <2>1, BatchInvNext DEF BatchNext, Generates, Raises
<1>2. QED  BY <1>1, BatchInvInit, PTL DEF BatchSpec

\* However requests are grouped into batches, the seven counters, the cache and
\* the answers given agree: generate_many() takes them from one view of the
\* cache.
THEOREM BatchedWorkConserved == BatchSpec => []WorkConserved
<1>1. BatchInv => WorkConserved
  BY DEF BatchInv
<1>2. QED  BY <1>1, BatchInvariant, PTL

\* The cache of a backend driven with any batches, reloaded at any time, holds
\* exactly the prompts it answered.
THEOREM BatchedCacheIsServedPrompts == BatchSpec => []CacheIsServedPrompts
<1>1. BatchInv => CacheIsServedPrompts
  BY DEF BatchInv
<1>2. QED  BY <1>1, BatchInvariant, PTL

\* The ten counters of the snapshot, which generate_many() adds to one by one,
\* are those of its own list of observations, however many batches and of
\* whatever sizes there were.
THEOREM BatchedObservationsSumUp == BatchSpec => []ObservationsSumUp
<1>1. BatchInv => ObservationsSumUp
  BY SumInvImplies DEF BatchInv
<1>2. QED  BY <1>1, BatchInvariant, PTL
-----------------------------------------------------------------------------
(* The application over it: every step is a step of Serving.               *)

PromptsSent == prompt \in [Requests -> Prompts]

\* A step over the fake backend is one over any backend, or none.
LEMMA FakeStepRefines ==
  ASSUME PromptsSent, [FakeNext]_fakeVars
  PROVE  [Next]_vars /\ prompt' = prompt
<1>1. prompt' = prompt
  BY DEF FakeNext, fakeVars
<1>2. ASSUME NEW r \in Requests, FakeGenerate(r) \/ FakeStream(r) \/ Unbatched(r)
      PROVE  RequestStep(r)
  <2>1. CASE FakeGenerate(r)
    <3>1. Reply(r) \in TokenCounts
      BY FakeBackendAssumption DEF Reply, PromptsSent
    <3>2. BackendReply(r)
      BY <2>1, <3>1 DEF FakeGenerate, BackendReply
    <3>3. QED  BY <3>2 DEF RequestStep
  <2>2. CASE FakeStream(r)
    BY <2>2 DEF FakeStream, StreamStep, RequestStep
  <2>3. CASE Unbatched(r)
    BY <2>3 DEF Unbatched, BackendReply, StreamStep, RequestStep
  <2>4. QED  BY <1>2, <2>1, <2>2, <2>3
<1>3. QED  BY <1>1, <1>2 DEF FakeNext, fakeVars, Next, ServerStep

\* The application over the fake backend is one of the applications that
\* Serving allows: what is proved of Serving holds for it.
THEOREM FakeImplementsServing == FakeSpec => Spec
<1>1. FakeInit => Init /\ PromptsSent
  BY DEF FakeInit, PromptsSent
<1>2. PromptsSent /\ [FakeNext]_fakeVars => [Next]_vars /\ PromptsSent'
  BY FakeStepRefines DEF PromptsSent
<1>3. QED  BY <1>1, <1>2, PTL DEF FakeSpec, Spec

\* What is proved of every backend holds over the fake one.
LEMMA FakeTypeCorrect ==
  FakeSpec => [](TypeOK /\ GeneratorAtLastEvent /\ PromptsSent)
<1>1. FakeInit => PromptsSent
  BY DEF FakeInit, PromptsSent
<1>2. PromptsSent /\ [FakeNext]_fakeVars => PromptsSent'
  BY FakeStepRefines DEF PromptsSent
<1>3. QED  BY <1>1, <1>2, FakeImplementsServing, ServingTypeCorrect, PTL DEF FakeSpec

\* A batch of one.
LEMMA SingleBatch ==
  ASSUME NEW p \in Prompts, NEW m \in BatchModels
  PROVE  /\ Single(p, m) \in Seq(GenerationRequest)
         /\ Active(Single(p, m)) = {1} /\ Cardinality(Active(Single(p, m))) = 1
         /\ observation(Single(p, m)).active_batch_size = 1
         /\ observation(Single(p, m)).decode_tokens = ReplyWords + Words[p]
         /\ accepts(Single(p, m)) <=> ready /\ m = ModelId
<1> DEFINE b == Single(p, m)
<1>1. /\ b \in Seq(GenerationRequest) /\ DOMAIN b = {1} /\ ~b[1].cancelled
      /\ b[1].prompt = p /\ b[1].model = m
  BY DEF Single, GenerationRequest
<1> HIDE DEF b
<1>2. Active(b) = {1} /\ Cardinality(Active(b)) = 1
  BY <1>1, FS_Singleton DEF Active
<1>3. accepts(b) <=> ready /\ m = ModelId
  BY <1>1 DEF accepts
<1>4. WordsOf(b, Active(b)) = Words[p]
  <2> DEFINE f == [i \in DOMAIN b |-> Words[b[i].prompt]]
  <2>1. f[1] = Words[p] /\ f[1] \in Nat
    BY <1>1, BatchAssumption
  <2> HIDE DEF f
  <2>2. SumFunctionOnSet(f, {} \cup {1}) = SumFunctionOnSet(f, {}) + f[1]
    BY <2>1, FS_EmptySet, SumAdds
  <2>3. SumFunctionOnSet(f, {1}) = f[1]
    BY <2>1, <2>2, SumOfNone
  <2>4. QED  BY <1>2, <2>1, <2>3 DEF WordsOf, f
<1>5. /\ observation(b).active_batch_size = Cardinality(Active(b))
      /\ observation(b).decode_tokens = WordsOf(b, Active(b))
                                        + ReplyWords * Cardinality(Active(b))
  BY DEF observation
<1>6. ReplyWords * 1 = ReplyWords /\ ReplyWords \in Nat /\ Words[p] \in Nat
  BY BatchAssumption
<1>7. observation(b).decode_tokens = ReplyWords + Words[p]
  BY <1>2, <1>4, <1>5, <1>6
<1>8. QED  BY <1>1, <1>2, <1>3, <1>5, <1>7 DEF b

\* The batches the application makes are batches of the backend.
LEMMA BatchOfRequest ==
  ASSUME TypeOK, PromptsSent, NEW r \in Requests, req[r].kind \in ChatKinds
  PROVE  prompt[r] \in Prompts /\ req[r].model \in BatchModels
BY FakeBackendAssumption DEF TypeOK, PromptsSent, Payloads

\* The invariant of the backend alone holds where requests drive it.
LEMMA FakeBatchNext ==
  ASSUME TypeOK, GeneratorAtLastEvent, PromptsSent, BatchInv, [FakeNext]_fakeVars
  PROVE  BatchInv'
<1>1. CASE load \/ close \/ UNCHANGED batchVars
  BY <1>1, BatchInvNext
<1>2. ASSUME NEW r \in Requests, FakeGenerate(r) \/ FakeStream(r), ~UNCHANGED batchVars
      PROVE  BatchInv'
  <2>1. generate_many(Batch(r)) \/ generate_many_raises(Batch(r))
    BY <1>2 DEF FakeGenerate, FakeStream
  <2>2. req[r].kind \in ChatKinds
    BY <1>2 DEF FakeGenerate, FakeStream, GenerateReturns, GenerateRaises, YieldContent,
       YieldError, YieldStop, Resumed, GeneratorAtLastEvent, AtLastEvent, ChatKinds
  <2>3. Batch(r) \in Seq(GenerationRequest)
    BY <2>2, BatchOfRequest, SingleBatch DEF Batch
  <2>4. QED  BY <2>1, <2>3, BatchInvNext
<1>3. QED  BY <1>1, <1>2 DEF FakeNext, fakeVars, Unbatched

\* The counters of the backend are sound in the application too, whatever its
\* clients do and whenever it is shut down.
THEOREM FakeServingWork ==
  FakeSpec => [](WorkConserved /\ CacheIsServedPrompts /\ ObservationsSumUp)
<1>1. FakeInit => BatchInv
  BY BatchInvInit DEF FakeInit
<1>2. TypeOK /\ GeneratorAtLastEvent /\ PromptsSent /\ BatchInv /\ [FakeNext]_fakeVars
        => BatchInv'
  BY FakeBatchNext
<1>3. BatchInv => WorkConserved /\ CacheIsServedPrompts /\ ObservationsSumUp
  BY SumInvImplies DEF BatchInv
<1>4. QED  BY <1>1, <1>2, <1>3, FakeTypeCorrect, PTL DEF FakeSpec
-----------------------------------------------------------------------------
(* Answers.                                                                *)

Early == {"new", "routing", "awaiting"}

\* Nobody has an error reply before its answer.
EarlyInv == \A r \in Requests : pc[r] \in Early => reply[r].status # 502

\* A step says nothing to q: q is not answered, gets no text and no error.
SaysNothing(q) ==
  /\ \/ req'[q] = req[q]
     \/ pc[q] = "new" /\ pc'[q] = "routing" /\ sent[q] = <<>>
  /\ pc'[q] \in Early => pc[q] \in Early
  /\ reply'[q].status = 502 <=> reply[q].status = 502
  /\ Has(q, "content")' <=> Has(q, "content")
  /\ Has(q, "error")' <=> Has(q, "error")
  /\ Completed(q)' <=> Completed(q)

\* An answer of another kind than a completion or a failure.
LEMMA OtherAnswer ==
  ASSUME TypeOK, EarlyInv, NEW r \in Requests, NEW from \in {"routing", "awaiting"},
         NEW status, NEW code, Answer(r, from, status, code), status # 502,
         status # 200 \/ req[r].kind # "chat", sent' = sent,
         NEW q \in Requests
  PROVE  SaysNothing(q)
<1>1. /\ req' = req /\ pc' = [pc EXCEPT ![r] = "answering"] /\ pc[r] = from
      /\ reply'[r].status = status
      /\ \A p \in Requests \ {r} : reply'[p] = reply[p]
  BY AnswerOfOne
<1>2. (Has(q, "content")' <=> Has(q, "content")) /\ (Has(q, "error")' <=> Has(q, "error"))
  BY DEF Has
<1>3. CASE q = r
  <2>1. reply[r].status # 502 /\ reply'[r].status # 502
    BY <1>1 DEF EarlyInv, Early
  <2>2. pc'[r] = "answering" /\ ~Completed(r) /\ ~Completed(r)'
    BY <1>1 DEF TypeOK, Completed
  <2>3. QED  BY <1>1, <1>2, <1>3, <2>1, <2>2 DEF SaysNothing, Early
<1>4. CASE q # r
  BY <1>1, <1>2, <1>4 DEF SaysNothing, Completed, TypeOK
<1>5. QED  BY <1>3, <1>4

\* A handler's own step gives no request text or an error of the backend ...
LEMMA HandlersSayNothing ==
  ASSUME TypeOK, EarlyInv, NEW r \in Requests,
         HandlerStep(r) \/ BackendIsReady(r) \/ ListModelsReturns(r, BackendModels),
         NEW q \in Requests
  PROVE  SaysNothing(q)
<1>1. sent' = sent
  BY DEF HandlerStep, AnswerLocally, AnswerUnrouted, AnswerWrongMethod,
     RejectUndecodable, RejectInvalid, AskBackend, RefuseModel, Generate, OpenStream, RecordResponse, BackendIsReady,
     ListModelsReturns, streamVars
<1>2. CASE \/ AnswerLocally(r) \/ OpenStream(r) \/ BackendIsReady(r)
           \/ ListModelsReturns(r, BackendModels)
  <2>1. req[r].kind # "chat"
        /\ \E from \in {"routing", "awaiting"} : Answer(r, from, 200, Blank)
    BY <1>2 DEF AnswerLocally, OpenStream, BackendIsReady, ListModelsReturns, Blank
  <2>2. QED  BY <1>1, <2>1, OtherAnswer
<1>3. CASE AnswerUnrouted(r)
  <2>1. /\ req[r].kind # "chat"
        /\ \E s \in {200, 307, 404, 405} : Answer(r, "routing", s, Blank)
    BY <1>3 DEF AnswerUnrouted, Blank
  <2>2. QED  BY <1>1, <2>1, OtherAnswer
<1>3a. CASE AnswerWrongMethod(r)
  <2>1. req[r].kind # "chat" /\ Answer(r, "routing", 405, Blank)
    BY <1>3a DEF AnswerWrongMethod, Blank
  <2>2. QED  BY <1>1, <2>1, OtherAnswer
<1>3b. CASE RejectUndecodable(r)
  BY <1>1, <1>3b, OtherAnswer DEF RejectUndecodable
<1>4. CASE RejectInvalid(r)
  BY <1>1, <1>4, OtherAnswer DEF RejectInvalid
<1>5. CASE RefuseModel(r)
  BY <1>1, <1>5, OtherAnswer DEF RefuseModel
<1>6. CASE AskBackend(r) \/ Generate(r) \/ RecordResponse(r)
  <2>1. /\ req' = req /\ reply' = reply
        /\ \/ pc[r] = "routing" /\ pc' = [pc EXCEPT ![r] = "awaiting"]
           \/ pc[r] = "answering" /\ pc' = [pc EXCEPT ![r] = "recorded"]
    BY <1>6 DEF AskBackend, Generate, RecordResponse, Goto
  <2>2. (Has(q, "content")' <=> Has(q, "content")) /\ (Has(q, "error")' <=> Has(q, "error"))
    BY <1>1 DEF Has
  <2>3. (Completed(q)' <=> Completed(q)) /\ (pc'[q] \in Early => pc[q] \in Early)
    BY <2>1 DEF Completed, TypeOK, Early
  <2>4. QED  BY <2>1, <2>2, <2>3 DEF SaysNothing
<1>7. QED
  BY <1>2, <1>3, <1>3a, <1>3b, <1>4, <1>5, <1>6 DEF HandlerStep

\* The steps of a stream between its chunks, and of its client.
LEMMA StreamsSayNothing ==
  ASSUME TypeOK, GeneratorAtLastEvent, NEW r \in Requests,
         \/ YieldRole(r) \/ AwaitChunk(r) \/ YieldStop(r) \/ YieldDone(r) \/ Exhaust(r)
         \/ ClientStep(r) \/ Teardown(r),
         NEW q \in Requests
  PROVE  SaysNothing(q)
<1>1. CASE YieldRole(r) \/ YieldStop(r) \/ YieldDone(r)
  <2>1. PICK e \in {"role", "stop", "done"} : Yield(r, e)
    BY <1>1 DEF YieldRole, YieldStop, YieldDone
  <2>2. /\ \A x \in Events : Has(r, x)' <=> (Has(r, x) \/ x = e)
        /\ \A p \in Requests \ {r} : sent'[p] = sent[p]
    BY <2>1, YieldEvents DEF Events
  <2>3. req' = req /\ pc' = pc /\ reply' = reply
    BY <2>1 DEF Yield, streamFrame
  <2>4. (Has(q, "content")' <=> Has(q, "content")) /\ (Has(q, "error")' <=> Has(q, "error"))
    <3>1. CASE q = r
      BY <2>2, <3>1 DEF Events
    <3>2. CASE q # r
      BY <2>2, <3>2 DEF Has
    <3>3. QED  BY <3>1, <3>2
  <2>5. QED  BY <2>3, <2>4 DEF SaysNothing, Completed
<1>2. CASE AwaitChunk(r) \/ Exhaust(r) \/ ClientStep(r) \/ CancelAwait(r)
           \/ FinaliseGenerator(r)
  <2>1. UNCHANGED <<req, pc, reply, sent>>
    BY <1>2, ClientFrame
       DEF AwaitChunk, Exhaust, CancelAwait, FinaliseGenerator, streamFrame
  <2>2. QED  BY <2>1 DEF SaysNothing, Completed, Has
<1>3. CASE DropGenerator(r)
  <2>1. /\ UNCHANGED <<req, reply, sent>> /\ gen[r] # "none"
        /\ \/ pc' = pc
           \/ pc[r] = "answering" /\ pc' = [pc EXCEPT ![r] = "unhandled"]
    BY <1>3 DEF DropGenerator, Goto
  <2>2. req[r].kind = "stream"
    BY <2>1 DEF GeneratorAtLastEvent, AtLastEvent
  <2>3. (Completed(q)' <=> Completed(q)) /\ (pc'[q] \in Early => pc[q] \in Early)
    BY <2>1, <2>2 DEF Completed, TypeOK, Early
  <2>4. QED  BY <2>1, <2>3 DEF SaysNothing, Has
<1>4. QED  BY <1>1, <1>2, <1>3 DEF Teardown

\* ... nor does any other step outside a batch.
LEMMA UnbatchedSaysNothing ==
  ASSUME TypeOK, GeneratorAtLastEvent, EarlyInv, NEW r \in Requests, Unbatched(r),
         NEW q \in Requests
  PROVE  SaysNothing(q)
<1>1. ASSUME NEW kind \in Kinds, NEW model \in Models \cup {NoModel}, Arrive(r, kind, model)
      PROVE  SaysNothing(q)
  <2>1. /\ pc[r] = "new" /\ pc' = [pc EXCEPT ![r] = "routing"]
        /\ reply' = reply /\ sent' = sent
        /\ \A p \in Requests \ {r} : req'[p] = req[p]
    BY <1>1 DEF Arrive, streamVars, TypeOK
  <2>2. sent[r] = <<>>
    BY <2>1 DEF GeneratorAtLastEvent, AtLastEvent
  <2>3. CASE q = r
    BY <2>1, <2>2, <2>3 DEF SaysNothing, Completed, Has, Early, TypeOK
  <2>4. CASE q # r
    BY <2>1, <2>4 DEF SaysNothing, Completed, Has, Early, TypeOK
  <2>5. QED  BY <2>3, <2>4
<1>2. QED  BY <1>1, HandlersSayNothing, StreamsSayNothing DEF Unbatched

\* Only a completion moves the token counter of the handlers.
LEMMA TokensKept ==
  ASSUME TypeOK, NEW r \in Requests,
         Unbatched(r) \/ FakeStream(r) \/ GenerateRaises(r)
  PROVE  UNCHANGED metrics.tokens_generated_total
<1> USE DEF record_request, record_http_error, record_backend_generation_error,
            record_stream_error, record_stream_cancellation
<1>0. metrics \in MetricsType
  BY DEF TypeOK
<1>1. CASE HandlerStep(r) /\ ~RecordResponse(r)
  <2>1. metrics' = metrics
    BY <1>1 DEF HandlerStep, AnswerLocally, AnswerUnrouted, AnswerWrongMethod,
       RejectUndecodable, RejectInvalid, AskBackend, RefuseModel, Generate, OpenStream
  <2>2. QED  BY <2>1
<1>2. CASE RecordResponse(r)
  BY <1>0, <1>2 DEF RecordResponse, MetricsType
<1>3. CASE BackendIsReady(r) \/ ListModelsReturns(r, BackendModels) \/ GenerateRaises(r)
  BY <1>0, <1>3 DEF BackendIsReady, ListModelsReturns, GenerateRaises, MetricsType
<1>4. CASE FakeStream(r) \/ YieldRole(r) \/ AwaitChunk(r) \/ YieldDone(r) \/ Exhaust(r)
  BY <1>0, <1>4 DEF FakeStream, YieldRole, AwaitChunk, YieldContent, YieldStop,
     YieldError, YieldDone, Exhaust, MetricsType
<1>5. CASE Teardown(r) \/ ClientStep(r)
  BY <1>0, <1>5, ClientFrame DEF Teardown, CancelAwait, DropGenerator,
     FinaliseGenerator, MetricsType
<1>6. CASE \E kind \in Kinds, model \in Models \cup {NoModel} : Arrive(r, kind, model)
  BY <1>6 DEF Arrive
<1>7. QED  BY <1>1, <1>2, <1>3, <1>4, <1>5, <1>6 DEF Unbatched
\* The backend is loaded whenever a task can call it.
BackendInv ==
  /\ lifespan # "failed"
  /\ lifespan = "created" => \A r \in Requests : pc[r] = "new" /\ gen[r] = "none"
  /\ lifespan \in {"serving", "draining"} => ready
  /\ listed \subseteq {ModelId}

\* A request that is being answered finds the backend loaded.
LEMMA ActiveIsReady ==
  ASSUME TypeOK, ClosedInv, BackendInv, NEW r \in Requests, TaskActive(r)
  PROVE  ready
<1>1. lifespan # "created"
  BY DEF BackendInv, TaskActive
<1>2. lifespan # "closed"
  BY DEF ClosedInv
<1>3. QED  BY <1>1, <1>2 DEF TypeOK, BackendInv

\* Every step keeps the backend open while a request needs it.
LEMMA BackendInvNext ==
  ASSUME TypeOK, GeneratorAtLastEvent, ClosedInv, PromptsSent, BackendInv,
         [FakeNext]_fakeVars
  PROVE  BackendInv'
<1>1. CASE UNCHANGED fakeVars \/ (Stopped /\ UNCHANGED batchVars)
  BY <1>1 DEF fakeVars, vars, batchVars, Stopped, BackendInv, ready
<1>2. CASE Load /\ load
  BY <1>2 DEF Load, load, requestVars, BackendInv, ready
<1>3. CASE BeginDrain /\ UNCHANGED batchVars
  BY <1>3 DEF BeginDrain, batchVars, requestVars, BackendInv, ready
<1>4. CASE CloseBackend /\ close
  BY <1>4 DEF CloseBackend, requestVars, BackendInv
<1>5. ASSUME NEW r \in Requests, FakeGenerate(r) \/ FakeStream(r) \/ Unbatched(r)
      PROVE  BackendInv'
  <2>1. UNCHANGED <<loaded, closed>>
    BY <1>5 DEF FakeGenerate, FakeStream, Unbatched, generate_many, generate_many_raises,
       batchVars
  <2>2. lifespan' = lifespan
    BY <1>5, HandlerFrame, ClientFrame
       DEF FakeGenerate, FakeStream, Unbatched, Handled, BackendReply, GenerateReturns,
           GenerateRaises, Answer, YieldContent, YieldError, YieldStop, Yield, streamFrame,
           Arrive, BackendIsReady, ListModelsReturns, YieldRole, AwaitChunk, YieldDone,
           Exhaust, Teardown, CancelAwait, DropGenerator, FinaliseGenerator
  <2>3. lifespan # "created"
    BY <1>5, ClientFrame
       DEF FakeGenerate, FakeStream, Unbatched, GenerateReturns, GenerateRaises, Answer,
           Goto, YieldContent, YieldError, YieldStop, Resumed, Arrive, BackendIsReady,
           ListModelsReturns, YieldRole, AwaitChunk, YieldDone, Exhaust, Teardown,
           CancelAwait, DropGenerator, FinaliseGenerator, HandlerStep,
           AnswerLocally, AnswerUnrouted, AnswerWrongMethod, RejectUndecodable,
           RejectInvalid, AskBackend, RefuseModel, Generate, OpenStream, RecordResponse, BackendInv
  <2>4. listed' \subseteq {ModelId}
    <3>1. CASE ListModelsReturns(r, BackendModels)
      BY <3>1, FakeBackendAssumption DEF ListModelsReturns, _filter_allowed_models, BackendInv
    <3>2. CASE ~ListModelsReturns(r, BackendModels)
      <4>1. listed' = listed
        BY <1>5, <3>2, ClientFrame
           DEF FakeGenerate, FakeStream, Unbatched, GenerateReturns, GenerateRaises,
               YieldContent, YieldError, YieldStop, Yield, streamFrame, modelVars, Arrive,
               BackendIsReady, YieldRole, AwaitChunk, YieldDone, Exhaust,
               Teardown, CancelAwait, DropGenerator, FinaliseGenerator, HandlerStep,
               AnswerLocally, AnswerUnrouted, AnswerWrongMethod, RejectUndecodable,
               RejectInvalid, AskBackend, RefuseModel, Generate, OpenStream, RecordResponse
      <4>2. QED  BY <4>1 DEF BackendInv
    <3>3. QED  BY <3>1, <3>2
  <2>5. QED  BY <2>1, <2>2, <2>3, <2>4 DEF BackendInv, ready
<1>6. QED  BY <1>1, <1>2, <1>3, <1>4, <1>5 DEF FakeNext

\* The steps that answer r say nothing to the others.
LEMMA OthersHearNothing ==
  ASSUME TypeOK, NEW r \in Requests, FakeGenerate(r) \/ FakeStream(r),
         NEW q \in Requests \ {r}
  PROVE  SaysNothing(q)
<1>1. CASE FakeGenerate(r)
  <2>1. PICK status, code : Answer(r, "awaiting", status, code)
    <3>1. GenerateReturns(r, Reply(r)) => Answer(r, "awaiting", 200, Blank)
      BY DEF GenerateReturns, Blank
    <3>2. GenerateRaises(r) => Answer(r, "awaiting", 502, "backend_generation_failed")
      BY DEF GenerateRaises
    <3>3. QED  BY <1>1, <3>1, <3>2 DEF FakeGenerate
  <2>2. /\ req' = req /\ pc' = [pc EXCEPT ![r] = "answering"] /\ pc[r] = "awaiting"
        /\ \A p \in Requests \ {r} : reply'[p] = reply[p]
    BY <2>1, AnswerOfOne
  <2>3. sent' = sent
    BY <1>1 DEF FakeGenerate, GenerateReturns, GenerateRaises, streamVars
  <2>4. QED  BY <2>2, <2>3 DEF SaysNothing, Completed, Has, TypeOK
<1>2. CASE FakeStream(r)
  <2>1. PICK e \in Events : Yield(r, e)
    BY <1>2 DEF FakeStream, YieldContent, YieldError, YieldStop, Events
  <2>2. sent'[q] = sent[q]
    BY <2>1, YieldEvents
  <2>3. req' = req /\ pc' = pc /\ reply' = reply
    BY <2>1 DEF Yield, streamFrame
  <2>4. QED  BY <2>2, <2>3 DEF SaysNothing, Completed, Has
<1>3. QED  BY <1>1, <1>2

\* A completion is the first and only answer of its request.
LEMMA CompletionAnswers ==
  ASSUME TypeOK, GeneratorAtLastEvent, NEW r \in Requests, NEW n, GenerateReturns(r, n)
  PROVE  /\ req' = req /\ pc'[r] = "answering" /\ reply'[r].status = 200
         /\ ~Completed(r) /\ Completed(r)'
         /\ ~Streamed(r) /\ ~Streamed(r)' /\ ~Has(r, "error")'
         /\ req[r].kind = "chat" /\ req[r].model \in Models /\ TaskActive(r)
<1>1. req[r].kind = "chat" /\ Answer(r, "awaiting", 200, Blank) /\ sent' = sent
  BY DEF GenerateReturns, streamVars, Blank
<1>2. /\ req' = req /\ pc' = [pc EXCEPT ![r] = "answering"] /\ pc[r] = "awaiting"
      /\ reply'[r].status = 200
  BY <1>1, AnswerOfOne
<1>3. gen[r] = "none" /\ sent[r] = <<>>
  BY <1>1 DEF GeneratorAtLastEvent, AtLastEvent
<1>4. /\ pc'[r] = "answering" /\ ~Completed(r) /\ Completed(r)'
  BY <1>1, <1>2 DEF Completed, TypeOK
<1>5. ~Streamed(r) /\ ~Streamed(r)' /\ ~Has(r, "error")'
  BY <1>1, <1>3 DEF Streamed, Has
<1>6. req[r].model \in Models
  BY <1>1 DEF TypeOK, Payloads, ChatKinds
<1>7. QED  BY <1>1, <1>2, <1>4, <1>5, <1>6 DEF TaskActive

\* A completion that raises answers 502, and counts nowhere.
LEMMA FailureAnswers ==
  ASSUME TypeOK, GeneratorAtLastEvent, NEW r \in Requests, GenerateRaises(r)
  PROVE  /\ req' = req /\ pc'[r] = "answering" /\ reply'[r].status = 502
         /\ ~Completed(r) /\ ~Completed(r)' /\ ~Streamed(r) /\ ~Streamed(r)'
         /\ req[r].kind = "chat" /\ TaskActive(r)
<1>1. /\ req[r].kind = "chat" /\ sent' = sent
      /\ Answer(r, "awaiting", 502, "backend_generation_failed")
  BY DEF GenerateRaises, streamVars
<1>2. /\ req' = req /\ pc' = [pc EXCEPT ![r] = "answering"] /\ pc[r] = "awaiting"
      /\ reply'[r].status = 502
  BY <1>1, AnswerOfOne
<1>3. sent[r] = <<>>
  BY <1>1 DEF GeneratorAtLastEvent, AtLastEvent
<1>4. pc'[r] = "answering" /\ ~Completed(r) /\ ~Completed(r)'
  BY <1>2 DEF Completed, TypeOK
<1>5. ~Streamed(r) /\ ~Streamed(r)'
  BY <1>1, <1>3 DEF Streamed, Has
<1>6. QED  BY <1>1, <1>2, <1>4, <1>5 DEF TaskActive

\* A chunk, an error and the end of a stream.
LEMMA ChunkAnswers ==
  ASSUME TypeOK, GeneratorAtLastEvent, NEW r \in Requests, FakeStream(r)
  PROVE  /\ UNCHANGED <<req, pc, reply>> /\ req[r].kind = "stream" /\ TaskActive(r)
         /\ ~Completed(r) /\ ~Completed(r)'
         /\ YieldContent(r) => ~Streamed(r) /\ Streamed(r)' /\ ~Has(r, "error")'
         /\ YieldError(r) => ~Streamed(r) /\ ~Streamed(r)'
         /\ YieldStop(r) => (Streamed(r)' <=> Streamed(r)) /\ ~Has(r, "error")'
<1>1. PICK e \in {"content", "error", "stop"} :
        /\ Yield(r, e)
        /\ YieldContent(r) => e = "content"
        /\ YieldError(r) => e = "error"
        /\ YieldStop(r) => e = "stop"
  <2>1. /\ YieldContent(r) => Yield(r, "content")
        /\ YieldError(r) => Yield(r, "error")
        /\ YieldStop(r) => Yield(r, "stop")
    BY DEF YieldContent, YieldError, YieldStop
  <2>2. \A e \in {"content", "error", "stop"} : Yield(r, e) => gen'[r] = e
    BY DEF Yield, TypeOK
  <2>3. YieldContent(r) \/ YieldError(r) \/ YieldStop(r)
    BY DEF FakeStream
  <2>4. QED  BY <2>1, <2>2, <2>3
<1>2. gen[r] = "waiting" /\ client[r] # "dropped"
  BY DEF FakeStream, YieldContent, YieldError, YieldStop, Resumed
<1>3. req[r].kind = "stream" /\ ~Has(r, "error")
  BY <1>2 DEF GeneratorAtLastEvent, AtLastEvent, Finished
<1>4. UNCHANGED <<req, pc, reply>>
  BY <1>1 DEF Yield, streamFrame
<1>5. \A x \in Events : Has(r, x)' <=> (Has(r, x) \/ x = e)
  BY <1>1, YieldEvents DEF Events
<1>6. Content(r) = 0 => ~Streamed(r)
  <2> DEFINE C == {i \in DOMAIN sent[r] : sent[r][i] = "content"}
  <2>1. IsFiniteSet(C)
    <3>1. DOMAIN sent[r] = 1..Len(sent[r]) /\ Len(sent[r]) \in Nat
      BY DEF TypeOK
    <3>2. IsFiniteSet(DOMAIN sent[r]) /\ C \in SUBSET DOMAIN sent[r]
      BY <3>1, FS_Interval
    <3>3. QED  BY <3>2, FS_Subset
  <2>2. Content(r) = 0 => C = {}
    <3>1. Content(r) = Cardinality(C)
      BY DEF Content
    <3> HIDE DEF C
    <3>2. QED  BY <2>1, <3>1, FS_EmptySet
  <2>3. QED  BY <2>2 DEF Streamed, Has
<1>7. YieldContent(r) \/ YieldError(r) => ~Streamed(r)
  <2>1. CASE Content(r) = 0
    BY <1>6, <2>1
  <2>2. CASE Content(r) # 0
    <3>1. YieldStop(r)
      BY <2>2 DEF FakeStream
    <3>2. e = "stop"
      BY <1>1, <3>1
    <3>3. QED  BY <1>1, <3>2
  <2>3. QED  BY <2>1, <2>2
<1>8. ~Completed(r) /\ ~Completed(r)'
  BY <1>3, <1>4 DEF Completed
<1>9. QED
  BY <1>1, <1>2, <1>3, <1>4, <1>5, <1>7, <1>8 DEF TaskActive, Streamed, Events
-----------------------------------------------------------------------------
(* Failures.                                                               *)

Foreign(r) ==
  /\ reply[r].status = 502 \/ Has(r, "error") => req[r].model # ModelId
  /\ Completed(r) \/ Streamed(r) => req[r].model = ModelId

ForeignInv == EarlyInv /\ \A r \in Requests : Foreign(r)

\* What a batch of one says of its model.
LEMMA ModelOfBatch ==
  ASSUME TypeOK, PromptsSent, NEW r \in Requests, req[r].kind \in ChatKinds, ready
  PROVE  /\ generate_many(Batch(r)) => req[r].model = ModelId
         /\ generate_many_raises(Batch(r)) => req[r].model # ModelId
<1>1. accepts(Batch(r)) <=> ready /\ req[r].model = ModelId
  BY BatchOfRequest, SingleBatch DEF Batch
<1>2. QED  BY <1>1 DEF generate_many, generate_many_raises

\* Every step keeps errors to foreign models.
LEMMA ForeignNext ==
  ASSUME TypeOK, GeneratorAtLastEvent, ClosedInv, PromptsSent, BackendInv, ForeignInv,
         [FakeNext]_fakeVars
  PROVE  ForeignInv'
<1> DEFINE Fine(q) == (pc[q] \in Early => reply[q].status # 502) /\ Foreign(q)
<1>0. \A q \in Requests : Fine(q)
  BY DEF ForeignInv, EarlyInv
<1> SUFFICES ASSUME NEW q \in Requests PROVE Fine(q)'
  BY DEF ForeignInv, EarlyInv
<1>1. ASSUME SaysNothing(q)
      PROVE  Fine(q)'
  <2>1. CASE req'[q] = req[q]
    BY <1>0, <1>1, <2>1 DEF SaysNothing, Foreign, Streamed
  <2>2. CASE pc[q] = "new" /\ pc'[q] = "routing" /\ sent[q] = <<>>
    <3>1. reply'[q].status # 502
      BY <1>0, <1>1, <2>2 DEF SaysNothing, Early
    <3>2. ~Has(q, "error")' /\ ~Has(q, "content")'
      BY <1>1, <2>2 DEF SaysNothing, Has
    <3>3. ~Completed(q)'
      BY <2>2 DEF Completed
    <3>4. QED  BY <3>1, <3>2, <3>3 DEF Foreign, Streamed
  <2>3. QED  BY <1>1, <2>1, <2>2 DEF SaysNothing
<1>2. CASE UNCHANGED vars
  <2>1. SaysNothing(q)
    BY <1>2 DEF vars, SaysNothing, Completed, Has
  <2>2. QED  BY <1>1, <2>1
<1>3. CASE Load \/ BeginDrain \/ CloseBackend \/ Stopped
  <2>1. UNCHANGED <<req, pc, reply, sent>>
    BY <1>3 DEF Load, BeginDrain, CloseBackend, Stopped, requestVars, vars
  <2>2. SaysNothing(q)
    BY <2>1 DEF SaysNothing, Completed, Has
  <2>3. QED  BY <1>1, <2>2
<1>4. ASSUME NEW r \in Requests, FakeGenerate(r)
      PROVE  Fine(q)'
  <2>1. CASE q # r
    BY <1>1, <1>4, <2>1, OthersHearNothing
  <2>2. CASE q = r /\ GenerateReturns(r, Reply(r)) /\ generate_many(Batch(r))
    <3>1. req'[r].model = ModelId
      BY <2>2, CompletionAnswers, ActiveIsReady, ModelOfBatch DEF ChatKinds
    <3>2. QED  BY <2>2, <3>1, CompletionAnswers DEF Foreign, Early
  <2>3. CASE q = r /\ GenerateRaises(r) /\ generate_many_raises(Batch(r))
    <3>1. req'[r].model # ModelId
      BY <2>3, FailureAnswers, ActiveIsReady, ModelOfBatch DEF ChatKinds
    <3>2. QED  BY <2>3, <3>1, FailureAnswers DEF Foreign, Early
  <2>4. QED  BY <1>4, <2>1, <2>2, <2>3 DEF FakeGenerate
<1>5. ASSUME NEW r \in Requests, FakeStream(r)
      PROVE  Fine(q)'
  <2>1. CASE q # r
    BY <1>1, <1>5, <2>1, OthersHearNothing
  <2> SUFFICES ASSUME q = r PROVE Fine(q)'
    BY <2>1
  <2>2. /\ UNCHANGED <<req, pc, reply>> /\ ~Completed(r)' /\ req[r].kind \in ChatKinds
        /\ ready
    BY <1>5, ChunkAnswers, ActiveIsReady DEF ChatKinds
  <2>3. (pc[r] \in Early => reply[r].status # 502) /\ Foreign(r)
    BY <1>0
  <2>4. CASE YieldContent(r) /\ generate_many(Batch(r))
    <3>1. req[r].model = ModelId
      BY <2>2, <2>4, ModelOfBatch
    <3>2. ~Has(r, "error")'
      BY <1>5, <2>4, ChunkAnswers
    <3>3. QED  BY <2>2, <2>3, <3>1, <3>2 DEF Foreign
  <2>5. CASE YieldError(r) /\ generate_many_raises(Batch(r))
    <3>1. req[r].model # ModelId
      BY <2>2, <2>5, ModelOfBatch
    <3>2. ~Streamed(r)'
      BY <1>5, <2>5, ChunkAnswers
    <3>3. QED  BY <2>2, <2>3, <3>1, <3>2 DEF Foreign
  <2>6. CASE YieldStop(r)
    <3>1. (Streamed(r)' <=> Streamed(r)) /\ ~Has(r, "error")'
      BY <1>5, <2>6, ChunkAnswers
    <3>2. QED  BY <2>2, <2>3, <3>1 DEF Foreign
  <2>7. QED  BY <1>5, <2>4, <2>5, <2>6 DEF FakeStream
<1>6. ASSUME NEW r \in Requests, Unbatched(r)
      PROVE  Fine(q)'
  <2>1. SaysNothing(q)
    BY <1>6, UnbatchedSaysNothing DEF ForeignInv
  <2>2. QED  BY <1>1, <2>1
<1>7. QED  BY <1>2, <1>3, <1>4, <1>5, <1>6 DEF FakeNext, fakeVars

\* The backend is open when needed, and only foreign models fail.
LEMMA FakeForeign == FakeSpec => [](ForeignInv /\ BackendInv)
<1>1. FakeInit => ClosedInv /\ BackendInv
  <2> SUFFICES ASSUME FakeInit PROVE ClosedInv /\ BackendInv
    OBVIOUS
  <2>1. lifespan = "created" /\ listed = {}
    BY DEF FakeInit, Init
  <2>2. \A r \in Requests : pc[r] = "new" /\ gen[r] = "none"
    BY DEF FakeInit, Init
  <2>3. QED  BY <2>1, <2>2 DEF ClosedInv, BackendInv
<1>2. FakeInit => ForeignInv
  <2> SUFFICES ASSUME FakeInit, NEW r \in Requests
               PROVE  (pc[r] \in Early => reply[r].status # 502) /\ Foreign(r)
    BY DEF ForeignInv, EarlyInv
  <2>1. reply[r].status = 200
    BY DEF FakeInit, Init, OK
  <2>2. ~Has(r, "error") /\ ~Streamed(r) /\ ~Completed(r)
    BY DEF FakeInit, Init, Has, Streamed, Completed
  <2>3. QED  BY <2>1, <2>2 DEF Foreign
<1>3. TypeOK /\ GeneratorAtLastEvent /\ ClosedInv /\ PromptsSent /\ [FakeNext]_fakeVars
        => ClosedInv'
  BY FakeStepRefines, ClosedNext
<1>4. TypeOK /\ GeneratorAtLastEvent /\ ClosedInv /\ PromptsSent /\ BackendInv
        /\ [FakeNext]_fakeVars
      => BackendInv'
  BY BackendInvNext
<1>5. TypeOK /\ GeneratorAtLastEvent /\ ClosedInv /\ PromptsSent /\ BackendInv
        /\ ForeignInv /\ [FakeNext]_fakeVars
      => ForeignInv'
  BY ForeignNext
<1>6. QED
  BY <1>1, <1>2, <1>3, <1>4, <1>5, FakeTypeCorrect, PTL DEF FakeSpec

\* In the default configuration a completion or a stream fails exactly when it
\* names another model than the backend's, whatever the order of requests and
\* shutdown; a model that /v1/models showed never does.
THEOREM OnlyForeignModelsEverFail == FakeSpec => []OnlyForeignModelsFail
<1>1. ForeignInv /\ BackendInv => OnlyForeignModelsFail
  BY DEF ForeignInv, Foreign, BackendInv, OnlyForeignModelsFail
<1>2. QED  BY <1>1, FakeForeign, PTL
-----------------------------------------------------------------------------
(* The two sets of counters.                                               *)

Answered == {r \in Requests : Completed(r) \/ Streamed(r)}
Streaming == {r \in Requests : Streamed(r)}
Replied == [r \in Requests |-> Reply(r)]

\* The counters of both sides: answers, and words of them.
CountsAgree ==
  /\ Total("active_batch_size") = Cardinality(Answered)
  /\ Total("decode_tokens") = SumFunctionOnSet(metrics.tokens_generated_total, Models)
                              + SumFunctionOnSet(Replied, Streaming)

\* The requests that count are finitely many.
LEMMA AnsweredFinite ==
  ASSUME PromptsSent
  PROVE  /\ IsFiniteSet(Answered) /\ IsFiniteSet(Streaming) /\ Cardinality(Answered) \in Nat
         /\ \A r \in Requests : Replied[r] \in Nat
         /\ SumFunctionOnSet(Replied, Streaming) \in Nat
<1>1. Answered \in SUBSET Requests /\ Streaming \in SUBSET Requests
  BY DEF Answered, Streaming
<1>2. IsFiniteSet(Answered) /\ IsFiniteSet(Streaming) /\ Cardinality(Answered) \in Nat
  BY <1>1, RequestsAssumption, FS_Subset, FS_CardinalityType
<1>3. \A r \in Requests : Replied[r] \in Nat
  BY BatchAssumption DEF Replied, Reply, PromptsSent
<1>4. SumFunctionOnSet(Replied, Streaming) \in Nat
  BY <1>1, <1>2, <1>3, SumIsNatural
<1>5. QED  BY <1>2, <1>3, <1>4

\* What a batch of one adds to the two totals.
LEMMA TotalsOfRequest ==
  ASSUME TypeOK, PromptsSent, BatchTypeOK, NEW r \in Requests, req[r].kind \in ChatKinds,
         generate_many(Batch(r))
  PROVE  /\ Total("active_batch_size") \in Nat /\ Total("decode_tokens") \in Nat
         /\ Total("active_batch_size")' = Total("active_batch_size") + 1
         /\ Total("decode_tokens")' = Total("decode_tokens") + Reply(r)
<1>1. prompt[r] \in Prompts /\ req[r].model \in BatchModels
  BY BatchOfRequest
<1>2. /\ Batch(r) \in Seq(GenerationRequest)
      /\ observation(Batch(r)).active_batch_size = 1
      /\ observation(Batch(r)).decode_tokens = Reply(r)
  BY <1>1, SingleBatch DEF Batch, Reply
<1>3. \A f \in Fields : Total(f)' = Total(f) + observation(Batch(r))[f]
  BY <1>2, RecordedBatch
<1>4. Total("active_batch_size") \in Nat /\ Total("decode_tokens") \in Nat
  BY TotalsListed DEF BatchTypeOK, BatchMetrics
<1>5. QED  BY <1>2, <1>3, <1>4, FieldsListed

\* A step that answers nobody leaves both sides alone.
LEMMA NothingCounted ==
  ASSUME CountsAgree, \A q \in Requests : SaysNothing(q), UNCHANGED batchVars,
         UNCHANGED metrics.tokens_generated_total, prompt' = prompt
  PROVE  CountsAgree'
<1>1. \A q \in Requests : (Completed(q)' <=> Completed(q)) /\ (Streamed(q)' <=> Streamed(q))
  BY DEF SaysNothing, Streamed
<1>2. Answered' = Answered /\ Streaming' = Streaming
  BY <1>1 DEF Answered, Streaming
<1>3. Replied' = Replied
  BY DEF Replied, Reply
<1>4. Total("active_batch_size")' = Total("active_batch_size")
      /\ Total("decode_tokens")' = Total("decode_tokens")
  BY DEF batchVars, Total
<1>5. QED  BY <1>2, <1>3, <1>4 DEF CountsAgree

\* A completion that returns is counted by the batch and by the metrics.
LEMMA CompletionCounted ==
  ASSUME TypeOK, GeneratorAtLastEvent, PromptsSent, BatchTypeOK, CountsAgree,
         NEW r \in Requests, GenerateReturns(r, Reply(r)), generate_many(Batch(r)),
         prompt' = prompt
  PROVE  CountsAgree'
<1>1. /\ ~Completed(r) /\ Completed(r)' /\ ~Streamed(r) /\ ~Streamed(r)'
      /\ req[r].kind = "chat" /\ req[r].model \in Models
  BY CompletionAnswers
<1>2. \A q \in Requests \ {r} :
        (Completed(q)' <=> Completed(q)) /\ (Streamed(q)' <=> Streamed(q))
  BY OthersHearNothing DEF FakeGenerate, SaysNothing, Streamed
<1>3. Answered' = Answered \cup {r} /\ r \notin Answered /\ Streaming' = Streaming
  BY <1>1, <1>2 DEF Answered, Streaming
<1>4. Cardinality(Answered') = Cardinality(Answered) + 1
  BY <1>3, AnsweredFinite, FS_AddElement
<1>5. Replied' = Replied
  BY DEF Replied, Reply
<1> DEFINE T == metrics.tokens_generated_total
           m == req[r].model
<1>6. T \in [Models -> Nat] /\ Reply(r) \in Nat
  BY BatchAssumption DEF TypeOK, MetricsType, Reply, PromptsSent
<1>7. T' = [T EXCEPT ![m] = @ + Reply(r)]
  BY DEF GenerateReturns, record_generated_text, TypeOK, MetricsType
<1>8. SumFunctionOnSet(T', Models) = SumFunctionOnSet(T, Models) + Reply(r)
  <2>1. /\ \A x \in Models : T[x] \in Nat
        /\ \A x \in Models \ {m} : T'[x] = T[x]
        /\ T'[m] = T[m] + Reply(r) /\ m \in Models /\ IsFiniteSet(Models)
    BY <1>1, <1>6, <1>7, ModelsAssumption
  <2> HIDE DEF T, m
  <2>2. QED  BY <1>6, <2>1, SumOfChange
<1>9. SumFunctionOnSet(T, Models) \in Nat
  BY <1>6, ModelsAssumption, SumIsNatural
<1>10. /\ Total("active_batch_size")' = Total("active_batch_size") + 1
       /\ Total("decode_tokens")' = Total("decode_tokens") + Reply(r)
  BY <1>1, TotalsOfRequest DEF ChatKinds
<1>11. /\ Total("active_batch_size") = Cardinality(Answered)
       /\ Total("decode_tokens") = SumFunctionOnSet(T, Models)
                                   + SumFunctionOnSet(Replied, Streaming)
  BY DEF CountsAgree
<1>12. Cardinality(Answered) \in Nat /\ SumFunctionOnSet(Replied, Streaming) \in Nat
  BY AnsweredFinite
<1> HIDE DEF T
<1>13. Total("active_batch_size")' = Cardinality(Answered')
  BY <1>4, <1>10, <1>11
<1>14. Total("decode_tokens")' = SumFunctionOnSet(T', Models)
                                 + SumFunctionOnSet(Replied', Streaming')
  <2>1. SumFunctionOnSet(Replied', Streaming') = SumFunctionOnSet(Replied, Streaming)
    BY <1>3, <1>5
  <2>2. QED  BY <1>6, <1>8, <1>9, <1>10, <1>11, <1>12, <2>1
<1>15. QED  BY <1>13, <1>14 DEF CountsAgree, T

\* A stream's first words are counted by the batch.
LEMMA StreamCounted ==
  ASSUME TypeOK, GeneratorAtLastEvent, PromptsSent, BatchTypeOK, CountsAgree,
         NEW r \in Requests, FakeStream(r), YieldContent(r), generate_many(Batch(r)),
         prompt' = prompt
  PROVE  CountsAgree'
<1>1. /\ ~Completed(r) /\ ~Completed(r)' /\ ~Streamed(r) /\ Streamed(r)'
      /\ req[r].kind = "stream"
  BY ChunkAnswers
<1>2. \A q \in Requests \ {r} :
        (Completed(q)' <=> Completed(q)) /\ (Streamed(q)' <=> Streamed(q))
  BY OthersHearNothing DEF SaysNothing, Streamed
<1>3. /\ Answered' = Answered \cup {r} /\ r \notin Answered
      /\ Streaming' = Streaming \cup {r} /\ r \notin Streaming
  BY <1>1, <1>2 DEF Answered, Streaming
<1>4. Cardinality(Answered') = Cardinality(Answered) + 1
  BY <1>3, AnsweredFinite, FS_AddElement
<1>5. Replied' = Replied /\ Replied[r] = Reply(r)
  BY DEF Replied, Reply
<1>6. SumFunctionOnSet(Replied, Streaming \cup {r})
        = SumFunctionOnSet(Replied, Streaming) + Replied[r]
  <2>1. IsFiniteSet(Streaming) /\ \A x \in Streaming \cup {r} : Replied[x] \in Nat
    BY AnsweredFinite DEF Streaming
  <2>2. QED  BY <1>3, <2>1, SumAdds
<1> DEFINE T == metrics.tokens_generated_total
<1>7. T' = T
  BY TokensKept
<1>8. SumFunctionOnSet(T, Models) \in Nat
  BY ModelsAssumption, SumIsNatural DEF TypeOK, MetricsType
<1>9. /\ Total("active_batch_size")' = Total("active_batch_size") + 1
      /\ Total("decode_tokens")' = Total("decode_tokens") + Reply(r)
  BY <1>1, TotalsOfRequest DEF ChatKinds
<1>10. /\ Total("active_batch_size") = Cardinality(Answered)
       /\ Total("decode_tokens") = SumFunctionOnSet(T, Models)
                                   + SumFunctionOnSet(Replied, Streaming)
  BY DEF CountsAgree
<1>11. /\ SumFunctionOnSet(Replied, Streaming) \in Nat /\ Reply(r) \in Nat
  BY <1>5, AnsweredFinite
<1> HIDE DEF T
<1>12. Total("active_batch_size")' = Cardinality(Answered')
  BY <1>4, <1>9, <1>10
<1>13. Total("decode_tokens")' = SumFunctionOnSet(T', Models)
                                 + SumFunctionOnSet(Replied', Streaming')
  <2>1. SumFunctionOnSet(Replied', Streaming')
          = SumFunctionOnSet(Replied, Streaming) + Reply(r)
    BY <1>3, <1>5, <1>6
  <2>2. QED  BY <1>7, <1>8, <1>9, <1>10, <1>11, <2>1
<1>14. QED  BY <1>12, <1>13 DEF CountsAgree, T

\* Every step keeps the two counts in agreement.
LEMMA CountsNext ==
  ASSUME TypeOK, GeneratorAtLastEvent, PromptsSent, BatchTypeOK, EarlyInv, CountsAgree,
         [FakeNext]_fakeVars
  PROVE  CountsAgree'
<1>0. prompt' = prompt
  BY DEF FakeNext, fakeVars
<1>1. CASE UNCHANGED fakeVars \/ (Stopped /\ UNCHANGED batchVars)
  <2>1. UNCHANGED vars /\ UNCHANGED batchVars
    BY <1>1 DEF fakeVars, Stopped
  <2>2. \A q \in Requests : SaysNothing(q)
    BY <2>1 DEF vars, SaysNothing, Completed, Has
  <2>3. UNCHANGED metrics.tokens_generated_total
    BY <2>1 DEF vars
  <2>4. QED  BY <1>0, <2>1, <2>2, <2>3, NothingCounted
<1>2. CASE (Load /\ load) \/ (BeginDrain /\ UNCHANGED batchVars) \/ (CloseBackend /\ close)
  <2>1. UNCHANGED <<req, pc, reply, sent, metrics, batch_metrics>>
    BY <1>2 DEF Load, BeginDrain, CloseBackend, requestVars, load, close, batchVars
  <2>2. Answered' = Answered /\ Streaming' = Streaming /\ Replied' = Replied
    BY <1>0, <2>1 DEF Answered, Streaming, Completed, Streamed, Has, Replied, Reply
  <2>3. QED  BY <2>1, <2>2 DEF CountsAgree, Total
<1>3. ASSUME NEW r \in Requests, FakeGenerate(r)
      PROVE  CountsAgree'
  <2>1. CASE GenerateReturns(r, Reply(r)) /\ generate_many(Batch(r))
    BY <1>0, <2>1, CompletionCounted
  <2>2. CASE GenerateRaises(r) /\ generate_many_raises(Batch(r))
    <3>1. \A q \in Requests \ {r} :
            (Completed(q)' <=> Completed(q)) /\ (Streamed(q)' <=> Streamed(q))
      BY <1>3, OthersHearNothing DEF SaysNothing, Streamed
    <3>2. ~Completed(r) /\ ~Completed(r)' /\ ~Streamed(r) /\ ~Streamed(r)'
      BY <2>2, FailureAnswers
    <3>3. Answered' = Answered /\ Streaming' = Streaming
      BY <3>1, <3>2 DEF Answered, Streaming
    <3>4. UNCHANGED metrics.tokens_generated_total /\ UNCHANGED batch_metrics
      BY <2>2, TokensKept DEF generate_many_raises, batchVars
    <3>5. Replied' = Replied
      BY <1>0 DEF Replied, Reply
    <3>6. QED  BY <3>3, <3>4, <3>5 DEF CountsAgree, Total
  <2>3. QED  BY <1>3, <2>1, <2>2 DEF FakeGenerate
<1>4. ASSUME NEW r \in Requests, FakeStream(r)
      PROVE  CountsAgree'
  <2>1. CASE YieldContent(r) /\ generate_many(Batch(r))
    BY <1>0, <1>4, <2>1, StreamCounted
  <2>2. CASE \/ YieldError(r) /\ generate_many_raises(Batch(r))
             \/ YieldStop(r) /\ UNCHANGED batchVars
    <3>1. \A q \in Requests \ {r} :
            (Completed(q)' <=> Completed(q)) /\ (Streamed(q)' <=> Streamed(q))
      BY <1>4, OthersHearNothing DEF SaysNothing, Streamed
    <3>2. ~Completed(r) /\ ~Completed(r)' /\ (Streamed(r)' <=> Streamed(r))
      BY <1>4, <2>2, ChunkAnswers
    <3>3. Answered' = Answered /\ Streaming' = Streaming
      BY <3>1, <3>2 DEF Answered, Streaming
    <3>4. UNCHANGED metrics.tokens_generated_total /\ UNCHANGED batch_metrics
      BY <1>4, <2>2, TokensKept DEF generate_many_raises, batchVars
    <3>5. Replied' = Replied
      BY <1>0 DEF Replied, Reply
    <3>6. QED  BY <3>3, <3>4, <3>5 DEF CountsAgree, Total
  <2>3. QED  BY <1>4, <2>1, <2>2 DEF FakeStream
<1>5. ASSUME NEW r \in Requests, Unbatched(r)
      PROVE  CountsAgree'
  <2>1. UNCHANGED batchVars
    BY <1>5 DEF Unbatched
  <2>2. QED  BY <1>0, <1>5, <2>1, UnbatchedSaysNothing, TokensKept, NothingCounted
<1>6. QED  BY <1>1, <1>2, <1>3, <1>4, <1>5 DEF FakeNext

\* The counts of the batch and of the metrics always agree.
LEMMA FakeCounts == FakeSpec => []CountsAgree
<1>1. FakeInit => BatchInv
  BY BatchInvInit DEF FakeInit
<1>2. FakeInit => CountsAgree
  <2> SUFFICES ASSUME FakeInit PROVE CountsAgree
    OBVIOUS
  <2>1. Answered = {} /\ Streaming = {}
    BY DEF FakeInit, Init, Answered, Streaming, Completed, Streamed, Has
  <2>2. Total("active_batch_size") = 0 /\ Total("decode_tokens") = 0
    BY TotalsListed DEF FakeInit, BatchInit, _BatchMetrics
  <2>3. metrics.tokens_generated_total = [m \in Models |-> 0]
    BY DEF FakeInit, Init, InMemoryMetrics
  <2>4. SumFunctionOnSet(metrics.tokens_generated_total, Models) = 0
    BY <2>3, ModelsAssumption, SumOfZeros
  <2>5. QED  BY <2>1, <2>2, <2>4, SumOfNone, FS_EmptySet DEF CountsAgree
<1>3. TypeOK /\ GeneratorAtLastEvent /\ PromptsSent /\ BatchInv /\ [FakeNext]_fakeVars
        => BatchInv'
  BY FakeBatchNext
<1>4. TypeOK /\ GeneratorAtLastEvent /\ PromptsSent /\ BatchInv /\ ForeignInv
        /\ CountsAgree /\ [FakeNext]_fakeVars
      => CountsAgree'
  BY CountsNext DEF BatchInv, ForeignInv
<1>5. QED
  BY <1>1, <1>2, <1>3, <1>4, FakeTypeCorrect, FakeForeign, PTL DEF FakeSpec

\* The requests the backend counted are those whose completion was answered
\* with 200 and those whose stream sent its text.
THEOREM BatchAlwaysCountsAnswers == FakeSpec => []BatchCountsAnswers
<1>1. CountsAgree => BatchCountsAnswers
  BY TotalsListed DEF CountsAgree, BatchCountsAnswers, Answered
<1>2. QED  BY <1>1, FakeCounts, PTL

\* The two token counters of a snapshot differ by what was streamed.
THEOREM TokensAlwaysDifferByStreams == FakeSpec => []TokensDifferByStreams
<1>1. CountsAgree => TokensDifferByStreams
  BY TotalsListed DEF CountsAgree, TokensDifferByStreams, Streaming, Replied
<1>2. QED  BY <1>1, FakeCounts, PTL
=============================================================================
