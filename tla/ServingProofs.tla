--------------------------- MODULE ServingProofs ---------------------------
(***************************************************************************)
(* Proofs about Serving, for every finite set of requests, every set of    *)
(* models and every allowlist.                                             *)
(***************************************************************************)
EXTENDS ServingProperties, FiniteSetTheorems, WellFoundedInduction, TLAPS

-----------------------------------------------------------------------------
(* Sums over finite sets: what SumFunctionOnSet computes.                  *)

\* Induction over the subsets of a finite set, on a set Good instead of a
\* predicate: the smallest subset outside it does not exist.
LEMMA SubsetInduction ==
  ASSUME NEW S, IsFiniteSet(S), NEW Good \in SUBSET SUBSET S,
         \A T \in SUBSET S : ((SUBSET T) \ {T} \subseteq Good) => T \in Good
  PROVE  Good = SUBSET S
<1> DEFINE Bad == (SUBSET S) \ Good
           R == StrictSubsetOrdering(S)
<1>1. IsWellFoundedOn(R, SUBSET S)
  BY FS_FiniteSubsetsOfFinite, FS_StrictSubsetOrderingWellFounded
<1>2. SUFFICES ASSUME Bad # {} PROVE FALSE
  OBVIOUS
<1>3. PICK T \in Bad : \A U \in Bad : <<U, T>> \notin R
  <2> HIDE DEF R
  <2>1. Bad \subseteq SUBSET S
    OBVIOUS
  <2> HIDE DEF Bad
  <2>2. QED  BY <1>1, <1>2, <2>1, WFMin
<1>4. \A U \in (SUBSET T) \ {T} : <<U, T>> \in R
  BY DEF StrictSubsetOrdering
<1>5. QED  BY <1>3, <1>4

\* One element at a time.
LEMMA ElementInduction ==
  ASSUME NEW S, IsFiniteSet(S), NEW Good \in SUBSET SUBSET S,
         {} \in Good,
         \A T \in SUBSET S, x \in S : T \in Good /\ x \notin T => T \cup {x} \in Good
  PROVE  S \in Good
<1>1. ASSUME NEW T \in SUBSET S, (SUBSET T) \ {T} \subseteq Good
      PROVE  T \in Good
  <2>1. CASE T = {}
    BY <2>1
  <2>2. CASE T # {}
    <3>1. PICK x \in T : TRUE
      BY <2>2
    <3>2. T \ {x} \in Good /\ (T \ {x}) \cup {x} = T
      BY <1>1, <3>1
    <3>3. QED  BY <3>1, <3>2
  <2>3. QED  BY <2>1, <2>2
<1>2. QED  BY <1>1, SubsetInduction

Chosen(s) == CHOOSE x \in s : TRUE

\* part[s] is the sum over s, for every subset s of S.
PartialSums(f, S, part) ==
  part = [s \in SUBSET S |->
            IF s = {} THEN 0 ELSE f[Chosen(s)] + part[s \ {Chosen(s)}]]

\* SumFunctionOnSet is the fold that chooses partial sums.
LEMMA SumUnfolded ==
  ASSUME NEW f, NEW S
  PROVE  SumFunctionOnSet(f, S) = (CHOOSE part : PartialSums(f, S, part))[S]
BY DEF SumFunctionOnSet, FoldFunctionOnSet, MapThenFoldSet, PartialSums, Chosen

\* Partial sums over a set and over a subset agree on the subset.
LEMMA PartialSumsAgree ==
  ASSUME NEW f, NEW S, IsFiniteSet(S), NEW T \in SUBSET S, NEW a, NEW b,
         PartialSums(f, S, a), PartialSums(f, T, b)
  PROVE  b = [s \in SUBSET T |-> a[s]]
<1> DEFINE Good == {s \in SUBSET T : b[s] = a[s]}
<1>1. IsFiniteSet(T)
  BY FS_Subset
<1>2. ASSUME NEW s \in SUBSET T, (SUBSET s) \ {s} \subseteq Good
      PROVE  s \in Good
  <2>1. CASE s = {}
    BY <2>1 DEF PartialSums
  <2>2. CASE s # {}
    <3>1. Chosen(s) \in s
      BY <2>2 DEF Chosen
    <3>2. s \ {Chosen(s)} \in Good
      BY <1>2, <3>1
    <3>3. /\ a[s] = f[Chosen(s)] + a[s \ {Chosen(s)}]
          /\ b[s] = f[Chosen(s)] + b[s \ {Chosen(s)}]
      BY <2>2 DEF PartialSums
    <3>4. QED  BY <3>2, <3>3
  <2>3. QED  BY <2>1, <2>2
<1>3. Good \in SUBSET SUBSET T
  OBVIOUS
<1>4. Good = SUBSET T
  <2> HIDE DEF Good
  <2>1. QED  BY <1>1, <1>2, <1>3, SubsetInduction
<1>5. \A s \in SUBSET T : b[s] = a[s]
  BY <1>4
<1>6. b = [s \in SUBSET T |-> b[s]]
  BY DEF PartialSums
<1>7. QED  BY <1>5, <1>6

\* The partial sums over the subsets of a finite set exist, and the one over
\* the whole set is its sum.
LEMMA PartialSumsExist ==
  ASSUME NEW f, NEW S, IsFiniteSet(S)
  PROVE  PartialSums(f, S, [s \in SUBSET S |-> SumFunctionOnSet(f, s)])
<1> DEFINE Sums(T) == [s \in SUBSET T |-> SumFunctionOnSet(f, s)]
           Good == {T \in SUBSET S : PartialSums(f, T, Sums(T))}
<1>1. ASSUME NEW T \in SUBSET S, (SUBSET T) \ {T} \subseteq Good
      PROVE  T \in Good
  <2> DEFINE next(s) == IF s = {} THEN 0
                        ELSE f[Chosen(s)] + SumFunctionOnSet(f, s \ {Chosen(s)})
             part == [s \in SUBSET T |-> next(s)]
  <2>1. ASSUME NEW s \in (SUBSET T) \ {T} PROVE SumFunctionOnSet(f, s) = next(s)
    <3>1. PartialSums(f, s, Sums(s))
      BY <1>1, <2>1
    <3>2. s # {} => s \ {Chosen(s)} \in SUBSET s
      OBVIOUS
    <3>3. Sums(s)[s] = SumFunctionOnSet(f, s)
          /\ (s # {} => Sums(s)[s \ {Chosen(s)}] = SumFunctionOnSet(f, s \ {Chosen(s)}))
      BY <3>2
    <3> HIDE DEF Sums
    <3>4. Sums(s)[s] = IF s = {} THEN 0 ELSE f[Chosen(s)] + Sums(s)[s \ {Chosen(s)}]
      BY <3>1 DEF PartialSums
    <3>5. QED  BY <3>3, <3>4
  <2>2. ASSUME NEW s \in SUBSET T, s # {}
        PROVE  part[s \ {Chosen(s)}] = SumFunctionOnSet(f, s \ {Chosen(s)})
    <3>1. Chosen(s) \in s
      BY <2>2 DEF Chosen
    <3>2. s \ {Chosen(s)} \in (SUBSET T) \ {T}
      BY <3>1
    <3>3. QED  BY <2>1, <3>2
  <2>3. PartialSums(f, T, part)
    <3>1. \A s \in SUBSET T : part[s] = IF s = {} THEN 0
                                        ELSE f[Chosen(s)] + part[s \ {Chosen(s)}]
      BY <2>2
    <3>2. part = [s \in SUBSET T |-> part[s]]
      OBVIOUS
    <3> HIDE DEF part
    <3>3. QED  BY <3>1, <3>2 DEF PartialSums
  <2>4. IsFiniteSet(T)
    BY FS_Subset
  <2> HIDE DEF part
  <2>5. PartialSums(f, T, CHOOSE p : PartialSums(f, T, p))
    BY <2>3
  <2>6. (CHOOSE p : PartialSums(f, T, p)) = [s \in SUBSET T |-> part[s]]
    BY <2>3, <2>4, <2>5, PartialSumsAgree
  <2>7. SumFunctionOnSet(f, T) = part[T]
    BY <2>6, SumUnfolded
  <2>8. Sums(T) = part
    <3>1. ASSUME NEW s \in (SUBSET T) \ {T}  PROVE part[s] = SumFunctionOnSet(f, s)
      BY <2>1 DEF part
    <3>2. \A s \in SUBSET T : part[s] = SumFunctionOnSet(f, s)
      BY <2>7, <3>1
    <3>3. part = [s \in SUBSET T |-> part[s]]
      BY DEF part
    <3>4. QED  BY <3>2, <3>3
  <2>9. QED  BY <2>3, <2>8
<1>2. Good \in SUBSET SUBSET S
  OBVIOUS
<1>3. Good = SUBSET S
  <2> HIDE DEF Good
  <2>1. QED  BY <1>1, <1>2, SubsetInduction
<1>4. QED  BY <1>3

\* The sum of nothing.
LEMMA SumOfNone == \A f : SumFunctionOnSet(f, {}) = 0
<1>1. ASSUME NEW f PROVE SumFunctionOnSet(f, {}) = 0
  <2>1. PartialSums(f, {}, [s \in SUBSET {} |-> SumFunctionOnSet(f, s)])
    BY FS_EmptySet, PartialSumsExist
  <2>2. QED  BY <2>1 DEF PartialSums
<1>2. QED  BY <1>1

\* The sum of a set, by an element of it.
LEMMA SumOfChosen ==
  ASSUME NEW f, NEW S, IsFiniteSet(S), S # {}
  PROVE  SumFunctionOnSet(f, S)
           = f[Chosen(S)] + SumFunctionOnSet(f, S \ {Chosen(S)})
<1> DEFINE Sums == [s \in SUBSET S |-> SumFunctionOnSet(f, s)]
<1>1. PartialSums(f, S, Sums)
  BY PartialSumsExist
<1>2. Sums[S] = SumFunctionOnSet(f, S)
      /\ Sums[S \ {Chosen(S)}] = SumFunctionOnSet(f, S \ {Chosen(S)})
  OBVIOUS
<1> HIDE DEF Sums
<1>3. Sums[S] = f[Chosen(S)] + Sums[S \ {Chosen(S)}]
  BY <1>1 DEF PartialSums
<1>4. QED  BY <1>2, <1>3

\* A sum of natural numbers is one.
LEMMA SumIsNatural ==
  ASSUME NEW f, NEW S, IsFiniteSet(S), \A x \in S : f[x] \in Nat
  PROVE  SumFunctionOnSet(f, S) \in Nat
<1> DEFINE Good == {T \in SUBSET S : SumFunctionOnSet(f, T) \in Nat}
<1>1. ASSUME NEW T \in SUBSET S, (SUBSET T) \ {T} \subseteq Good
      PROVE  T \in Good
  <2>1. CASE T = {}
    BY <2>1, SumOfNone
  <2>2. CASE T # {}
    <3>1. Chosen(T) \in T /\ IsFiniteSet(T)
      BY <2>2, FS_Subset DEF Chosen
    <3>2. T \ {Chosen(T)} \in Good
      BY <1>1, <3>1
    <3>3. QED  BY <2>2, <3>1, <3>2, SumOfChosen
  <2>3. QED  BY <2>1, <2>2
<1>2. Good \in SUBSET SUBSET S
  OBVIOUS
<1>3. Good = SUBSET S
  <2> HIDE DEF Good
  <2>1. QED  BY <1>1, <1>2, SubsetInduction
<1>4. QED  BY <1>3

\* Any element may be taken out first.
LEMMA SumTakesOut ==
  ASSUME NEW f, NEW S, IsFiniteSet(S), \A x \in S : f[x] \in Nat, NEW y \in S
  PROVE  SumFunctionOnSet(f, S) = f[y] + SumFunctionOnSet(f, S \ {y})
<1> DEFINE Good ==
      {T \in SUBSET S :
         \A x \in T : SumFunctionOnSet(f, T) = f[x] + SumFunctionOnSet(f, T \ {x})}
<1>1. ASSUME NEW T \in SUBSET S, (SUBSET T) \ {T} \subseteq Good, NEW x \in T
      PROVE  SumFunctionOnSet(f, T) = f[x] + SumFunctionOnSet(f, T \ {x})
  <2> DEFINE c == Chosen(T)
  <2>1. c \in T /\ IsFiniteSet(T) /\ c \in S /\ x \in S
    BY FS_Subset DEF Chosen
  <2>2. SumFunctionOnSet(f, T) = f[c] + SumFunctionOnSet(f, T \ {c})
    BY <2>1, SumOfChosen
  <2>3. CASE x = c
    BY <2>2, <2>3
  <2>4. CASE x # c
    <3>1. T \ {c} \in Good /\ T \ {x} \in Good /\ x \in T \ {c} /\ c \in T \ {x}
      BY <1>1, <2>1, <2>4
    <3>2. (T \ {c}) \ {x} = T \ {c, x} /\ (T \ {x}) \ {c} = T \ {c, x}
      OBVIOUS
    <3>3. /\ SumFunctionOnSet(f, T \ {c}) = f[x] + SumFunctionOnSet(f, T \ {c, x})
          /\ SumFunctionOnSet(f, T \ {x}) = f[c] + SumFunctionOnSet(f, T \ {c, x})
      BY <3>1, <3>2
    <3>4. IsFiniteSet(T \ {c, x})
      BY FS_Subset
    <3>5. SumFunctionOnSet(f, T \ {c, x}) \in Nat
      BY <3>4, SumIsNatural
    <3> HIDE DEF c
    <3>6. QED  BY <2>1, <2>2, <3>3, <3>5
  <2>5. QED  BY <2>3, <2>4
<1>2. \A T \in SUBSET S : ((SUBSET T) \ {T} \subseteq Good) => T \in Good
  BY <1>1
<1>3. Good \in SUBSET SUBSET S
  OBVIOUS
<1>4. Good = SUBSET S
  <2> HIDE DEF Good
  <2>1. QED  BY <1>2, <1>3, SubsetInduction
<1>5. QED  BY <1>4

\* A set with one more element sums to that much more.
LEMMA SumAdds ==
  ASSUME NEW f, NEW S, IsFiniteSet(S), NEW y, y \notin S,
         \A x \in S \cup {y} : f[x] \in Nat
  PROVE  SumFunctionOnSet(f, S \cup {y}) = SumFunctionOnSet(f, S) + f[y]
<1>1. IsFiniteSet(S \cup {y}) /\ (S \cup {y}) \ {y} = S
  BY FS_AddElement
<1>2. SumFunctionOnSet(f, S) \in Nat
  BY SumIsNatural
<1>3. QED  BY <1>1, <1>2, SumTakesOut

\* Sums of the same terms are equal.
LEMMA SumOfSame ==
  ASSUME NEW f, NEW g, NEW S, IsFiniteSet(S), \A x \in S : f[x] = g[x] /\ f[x] \in Nat
  PROVE  SumFunctionOnSet(f, S) = SumFunctionOnSet(g, S)
<1> DEFINE Good == {T \in SUBSET S : SumFunctionOnSet(f, T) = SumFunctionOnSet(g, T)}
<1>1. {} \in Good
  BY SumOfNone
<1>2. ASSUME NEW T \in SUBSET S, NEW x \in S, T \in Good, x \notin T
      PROVE  T \cup {x} \in Good
  <2>1. IsFiniteSet(T)
    BY FS_Subset
  <2>2. SumFunctionOnSet(f, T \cup {x}) = SumFunctionOnSet(f, T) + f[x]
    BY <1>2, <2>1, SumAdds
  <2>3. SumFunctionOnSet(g, T \cup {x}) = SumFunctionOnSet(g, T) + g[x]
    BY <1>2, <2>1, SumAdds
  <2>4. QED  BY <1>2, <2>2, <2>3
<1>3. Good \in SUBSET SUBSET S
  OBVIOUS
<1>4. S \in Good
  <2> HIDE DEF Good
  <2>1. QED  BY <1>1, <1>2, <1>3, ElementInduction
<1>5. QED  BY <1>4

\* Nothing sums to nothing.
LEMMA SumOfZeros ==
  ASSUME NEW f, NEW S, IsFiniteSet(S), \A x \in S : f[x] = 0
  PROVE  SumFunctionOnSet(f, S) = 0
<1> DEFINE Good == {T \in SUBSET S : SumFunctionOnSet(f, T) = 0}
<1>1. {} \in Good
  BY SumOfNone
<1>2. ASSUME NEW T \in SUBSET S, NEW x \in S, T \in Good, x \notin T
      PROVE  T \cup {x} \in Good
  <2>1. IsFiniteSet(T)
    BY FS_Subset
  <2>2. SumFunctionOnSet(f, T \cup {x}) = SumFunctionOnSet(f, T) + f[x]
    BY <1>2, <2>1, SumAdds
  <2>3. QED  BY <1>2, <2>2
<1>3. Good \in SUBSET SUBSET S
  OBVIOUS
<1>4. S \in Good
  <2> HIDE DEF Good
  <2>1. QED  BY <1>1, <1>2, <1>3, ElementInduction
<1>5. QED  BY <1>4

\* A term that grows makes the sum grow by as much.
LEMMA SumOfChange ==
  ASSUME NEW f, NEW g, NEW S, IsFiniteSet(S), NEW y \in S, NEW n \in Nat,
         \A x \in S : f[x] \in Nat, \A x \in S \ {y} : g[x] = f[x], g[y] = f[y] + n
  PROVE  SumFunctionOnSet(g, S) = SumFunctionOnSet(f, S) + n
<1>1. IsFiniteSet(S \ {y})
  BY FS_Subset
<1>2. SumFunctionOnSet(g, S \ {y}) = SumFunctionOnSet(f, S \ {y})
  BY <1>1, SumOfSame
<1>3. SumFunctionOnSet(f, S \ {y}) \in Nat
  BY <1>1, SumIsNatural
<1>4. SumFunctionOnSet(f, S) = f[y] + SumFunctionOnSet(f, S \ {y})
  BY SumTakesOut
<1>5. \A x \in S : g[x] \in Nat
  OBVIOUS
<1>6. SumFunctionOnSet(g, S) = g[y] + SumFunctionOnSet(g, S \ {y})
  BY <1>5, SumTakesOut
<1>7. QED  BY <1>2, <1>3, <1>4, <1>6

-----------------------------------------------------------------------------
(* Counters.                                                               *)

\* Every recording method keeps the shape of the counters.
LEMMA MetricsClosed ==
  ASSUME NEW M \in MetricsType
  PROVE  /\ \A k \in Routes, s \in Statuses : record_request(M, k, s) \in MetricsType
         /\ \A k \in Routes, s \in Statuses, c \in ErrorCodes :
              record_http_error(M, k, s, c) \in MetricsType
         /\ \A m \in Models, n \in Nat : record_generated_text(M, m, n) \in MetricsType
         /\ \A m \in Models : record_backend_generation_error(M, m) \in MetricsType
         /\ \A m \in Models : record_stream_error(M, m) \in MetricsType
         /\ \A m \in Models : record_stream_cancellation(M, m) \in MetricsType
<1> USE DEF MetricsType
<1>1. \A k \in Routes, s \in Statuses : record_request(M, k, s) \in MetricsType
  <2>1. \A key \in RequestKeys :
          [M EXCEPT !.requests_total[key] = @ + 1] \in MetricsType
    OBVIOUS
  <2>2. QED  BY <2>1 DEF record_request, RequestKeys
<1>2. \A k \in Routes, s \in Statuses, c \in ErrorCodes :
        record_http_error(M, k, s, c) \in MetricsType
  <2>1. \A key \in ErrorKeys :
          [M EXCEPT !.http_errors_total[key] = @ + 1] \in MetricsType
    OBVIOUS
  <2>2. QED  BY <2>1 DEF record_http_error, ErrorKeys
<1>3. \A m \in Models, n \in Nat : record_generated_text(M, m, n) \in MetricsType
  BY DEF record_generated_text
<1>4. \A m \in Models : record_backend_generation_error(M, m) \in MetricsType
  BY DEF record_backend_generation_error
<1>5. \A m \in Models : record_stream_error(M, m) \in MetricsType
  BY DEF record_stream_error
<1>6. \A m \in Models : record_stream_cancellation(M, m) \in MetricsType
  BY DEF record_stream_cancellation
<1>7. QED  BY <1>1, <1>2, <1>3, <1>4, <1>5, <1>6

-----------------------------------------------------------------------------
(* Type correctness.                                                       *)

\* The initial states are well typed.
LEMMA TypeInit == Init => TypeOK
<1> SUFFICES ASSUME Init PROVE TypeOK  OBVIOUS
<1>1. metrics \in MetricsType
  BY DEF Init, InMemoryMetrics, MetricsType
<1>2. sent \in [Requests -> Seq(Events)]
  BY DEF Init
<1>3. req \in [Requests -> Payloads] /\ reply \in [Requests -> Replies]
  <2>1. NoPayload \in Payloads
    BY DEF NoPayload, Payloads, AllKinds, Routes, RoutesOf, ChatKinds
  <2>2. OK \in Replies
    BY DEF OK, Replies, Statuses
  <2>3. QED  BY <2>1, <2>2 DEF Init
<1>4. pc \in [Requests -> Places] /\ gen \in [Requests -> Generators]
  BY DEF Init, Places, Generators
<1>5. QED  BY <1>1, <1>2, <1>3, <1>4 DEF Init, TypeOK

Codes == ErrorCodes \cup {""}

\* The statuses and codes that the handlers answer with.
LEMMA AnswersListed ==
  /\ 200 \in Statuses /\ 307 \in Statuses /\ 400 \in Statuses
  /\ 404 \in Statuses /\ 405 \in Statuses /\ 422 \in Statuses
  /\ 502 \in Statuses /\ 503 \in Statuses
  /\ "" \in Codes /\ "request_validation_failed" \in Codes
  /\ "model_not_allowed" \in Codes /\ "backend_not_ready" \in Codes
  /\ "backend_generation_failed" \in Codes /\ "http_error" \in Codes
BY DEF Statuses, ErrorCodes, Codes

\* An answer of a handler, with whatever it records, keeps the types.
LEMMA AnswerType ==
  ASSUME TypeOK, NEW r \in Requests, NEW from,
         NEW status \in Statuses, NEW code \in Codes,
         Answer(r, from, status, code),
         gen' \in [Requests -> Generators], UNCHANGED <<sent, client>>,
         called' \subseteq Models, listed' \subseteq Models, metrics' \in MetricsType
  PROVE  TypeOK'
<1>1. "answering" \in Places
  BY DEF Places
<1>2. [status |-> status, code |-> code] \in Replies
  BY DEF Replies, Codes
<1>3. pc' \in [Requests -> Places]
  BY <1>1 DEF TypeOK, Answer, Goto
<1>4. reply' \in [Requests -> Replies]
  BY <1>2 DEF TypeOK, Answer
<1>5. UNCHANGED <<lifespan, upstream, req>>
  BY DEF Answer
<1>6. QED  BY <1>3, <1>4, <1>5 DEF TypeOK

\* So does an answer that records nothing.
LEMMA PlainAnswerType ==
  ASSUME TypeOK, NEW r \in Requests, NEW from,
         NEW status \in Statuses, NEW code \in Codes,
         Answer(r, from, status, code),
         UNCHANGED <<streamVars, modelVars, metrics>>
  PROVE  TypeOK'
<1>1. /\ gen' \in [Requests -> Generators] /\ UNCHANGED <<sent, client>>
      /\ called' \subseteq Models /\ listed' \subseteq Models /\ metrics' \in MetricsType
  BY DEF TypeOK, streamVars, modelVars
<1>2. QED  BY <1>1, AnswerType

\* The handlers' steps outside the backend keep every variable well typed.
LEMMA HandlerType ==
  ASSUME TypeOK, NEW r \in Requests, HandlerStep(r)
  PROVE  TypeOK'
<1>1. CASE AnswerLocally(r)
  <2>1. Answer(r, "routing", 200, "")
    BY <1>1 DEF AnswerLocally
  <2>2. UNCHANGED <<streamVars, modelVars, metrics>>
    BY <1>1 DEF AnswerLocally
  <2>3. 200 \in Statuses /\ "" \in Codes
    BY AnswersListed
  <2>4. QED  BY <2>1, <2>2, <2>3, PlainAnswerType
<1>2. CASE AnswerUnrouted(r) \/ AnswerWrongMethod(r)
  <2>1. PICK s \in {200, 307, 404, 405} : Answer(r, "routing", s, "")
    BY <1>2 DEF AnswerUnrouted, AnswerWrongMethod
  <2>2. UNCHANGED <<streamVars, modelVars, metrics>>
    BY <1>2 DEF AnswerUnrouted, AnswerWrongMethod
  <2>3. s \in Statuses
    BY DEF Statuses
  <2>4. "" \in Codes
    BY AnswersListed
  <2>5. QED  BY <2>1, <2>2, <2>3, <2>4, PlainAnswerType
<1>2a. CASE RejectUndecodable(r)
  <2>1. Answer(r, "routing", 400, "http_error")
    BY <1>2a DEF RejectUndecodable
  <2>2. UNCHANGED <<streamVars, modelVars, metrics>>
    BY <1>2a DEF RejectUndecodable
  <2>3. 400 \in Statuses /\ "http_error" \in Codes
    BY AnswersListed
  <2>4. QED  BY <2>1, <2>2, <2>3, PlainAnswerType
<1>3. CASE RejectInvalid(r)
  <2>1. Answer(r, "routing", 422, "request_validation_failed")
    BY <1>3 DEF RejectInvalid
  <2>2. UNCHANGED <<streamVars, modelVars, metrics>>
    BY <1>3 DEF RejectInvalid
  <2>3. 422 \in Statuses /\ "request_validation_failed" \in Codes
    BY AnswersListed
  <2>4. QED  BY <2>1, <2>2, <2>3, PlainAnswerType
<1>4. CASE AskBackend(r)
  BY <1>4 DEF AskBackend, Goto, Places, TypeOK, streamVars, modelVars
<1>5. CASE RefuseModel(r)
  <2>1. Answer(r, "routing", 404, "model_not_allowed")
    BY <1>5 DEF RefuseModel
  <2>2. UNCHANGED <<streamVars, modelVars, metrics>>
    BY <1>5 DEF RefuseModel
  <2>3. 404 \in Statuses /\ "model_not_allowed" \in Codes
    BY AnswersListed
  <2>4. QED  BY <2>1, <2>2, <2>3, PlainAnswerType
<1>6. CASE Generate(r)
  <2>1. req[r].model \in Models
    BY <1>6 DEF Generate, Payloads, ChatKinds, TypeOK
  <2>2. QED  BY <1>6, <2>1 DEF Generate, Goto, Places, TypeOK, streamVars
<1>7. CASE OpenStream(r)
  <2>1. Answer(r, "routing", 200, "") /\ UNCHANGED <<sent, client>>
    BY <1>7 DEF OpenStream
  <2>2. gen' \in [Requests -> Generators]
    BY <1>7 DEF OpenStream, Generators, TypeOK
  <2>3. called' \subseteq Models /\ listed' \subseteq Models /\ metrics' \in MetricsType
    BY <1>7 DEF OpenStream, modelVars, TypeOK
  <2>4. 200 \in Statuses /\ "" \in Codes
    BY AnswersListed
  <2>5. QED  BY <2>1, <2>2, <2>3, <2>4, AnswerType
<1>8. CASE RecordResponse(r)
  <2> DEFINE recorded == record_request(metrics, Route(r), reply[r].status)
             coded == record_http_error(recorded, Route(r), reply[r].status, reply[r].code)
  <2>1. Route(r) \in Routes
    BY DEF Route, Payloads, TypeOK
  <2>2. recorded \in MetricsType
    BY <2>1, MetricsClosed DEF Replies, TypeOK
  <2>3. reply[r].code # "" => coded \in MetricsType
    BY <2>1, <2>2, MetricsClosed DEF Replies, TypeOK
  <2>4. metrics' \in MetricsType
    BY <1>8, <2>2, <2>3 DEF RecordResponse
  <2>5. QED  BY <1>8, <2>4 DEF RecordResponse, Goto, Places, TypeOK, streamVars, modelVars
<1>9. QED
  BY <1>1, <1>2, <1>2a, <1>3, <1>4, <1>5, <1>6, <1>7, <1>8 DEF HandlerStep

\* The backend's answers keep every variable well typed.
LEMMA BackendType ==
  ASSUME TypeOK, NEW r \in Requests, BackendReply(r)
  PROVE  TypeOK'
<1>1. CASE BackendIsReady(r)
  <2>1. Answer(r, "awaiting", 200, "")
    BY <1>1 DEF BackendIsReady
  <2>2. UNCHANGED <<streamVars, modelVars, metrics>>
    BY <1>1 DEF BackendIsReady
  <2>3. 200 \in Statuses /\ "" \in Codes
    BY AnswersListed
  <2>4. QED  BY <2>1, <2>2, <2>3, PlainAnswerType
<1>2. CASE BackendNotReady(r)
  <2>1. Answer(r, "awaiting", 503, "backend_not_ready")
    BY <1>2 DEF BackendNotReady
  <2>2. UNCHANGED <<streamVars, modelVars, metrics>>
    BY <1>2 DEF BackendNotReady
  <2>3. 503 \in Statuses /\ "backend_not_ready" \in Codes
    BY AnswersListed
  <2>4. QED  BY <2>1, <2>2, <2>3, PlainAnswerType
<1>3. ASSUME NEW models \in {{}, BackendModels}, ListModelsReturns(r, models)
      PROVE  TypeOK'
  <2>1. Answer(r, "awaiting", 200, "")
    BY <1>3 DEF ListModelsReturns
  <2>2. listed' \subseteq Models
    BY <1>3, ModelsAssumption DEF ListModelsReturns, _filter_allowed_models, TypeOK
  <2>3. /\ gen' \in [Requests -> Generators] /\ UNCHANGED <<sent, client>>
        /\ called' \subseteq Models /\ metrics' \in MetricsType
    BY <1>3 DEF ListModelsReturns, streamVars, TypeOK
  <2>4. 200 \in Statuses /\ "" \in Codes
    BY AnswersListed
  <2>5. QED  BY <2>1, <2>2, <2>3, <2>4, AnswerType
<1>4. CASE ListModelsRaises(r)
  BY <1>4 DEF ListModelsRaises, Goto, Places, TypeOK, streamVars, modelVars
<1>5. ASSUME NEW count \in TokenCounts, GenerateReturns(r, count)
      PROVE  TypeOK'
  <2>1. req[r].model \in Models /\ count \in Nat
    BY <1>5, BoundsAssumption DEF GenerateReturns, Payloads, ChatKinds, TypeOK
  <2>2. metrics' \in MetricsType
    BY <1>5, <2>1, MetricsClosed DEF GenerateReturns, TypeOK
  <2>3. Answer(r, "awaiting", 200, "")
    BY <1>5 DEF GenerateReturns
  <2>4. /\ gen' \in [Requests -> Generators] /\ UNCHANGED <<sent, client>>
        /\ called' \subseteq Models /\ listed' \subseteq Models
    BY <1>5 DEF GenerateReturns, streamVars, modelVars, TypeOK
  <2>5. 200 \in Statuses /\ "" \in Codes
    BY AnswersListed
  <2>6. QED  BY <2>2, <2>3, <2>4, <2>5, AnswerType
<1>6. CASE GenerateRaises(r)
  <2>1. req[r].model \in Models
    BY <1>6 DEF GenerateRaises, Payloads, ChatKinds, TypeOK
  <2>2. metrics' \in MetricsType
    BY <1>6, <2>1, MetricsClosed DEF GenerateRaises, TypeOK
  <2>3. Answer(r, "awaiting", 502, "backend_generation_failed")
    BY <1>6 DEF GenerateRaises
  <2>4. /\ gen' \in [Requests -> Generators] /\ UNCHANGED <<sent, client>>
        /\ called' \subseteq Models /\ listed' \subseteq Models
    BY <1>6 DEF GenerateRaises, streamVars, modelVars, TypeOK
  <2>5. 502 \in Statuses /\ "backend_generation_failed" \in Codes
    BY AnswersListed
  <2>6. QED  BY <2>2, <2>3, <2>4, <2>5, AnswerType
<1>7. QED
  BY <1>1, <1>2, <1>3, <1>4, <1>5, <1>6 DEF BackendReply

\* What a handler, or the backend's answer to one, may do: move its request on,
\* create its generator, and nothing else to requests and streams.
Handled(r) ==
  /\ UNCHANGED <<lifespan, req, sent, client>>
  /\ OpenStream(r) \/ gen' = gen
  /\ pc[r] \in {"routing", "awaiting", "answering"}
  /\ \E place \in {"awaiting", "answering", "recorded", "unhandled"} :
       pc' = [pc EXCEPT ![r] = place]
  /\ \A q \in Requests \ {r} : reply'[q] = reply[q]

Blank == ""

\* The code of an answer without error is no error code.
LEMMA BlankIsNoCode == Blank \notin ErrorCodes
BY DEF Blank, ErrorCodes

\* Every handler step does no more than that.
LEMMA HandlerFrame ==
  ASSUME TypeOK, NEW r \in Requests, HandlerStep(r) \/ BackendReply(r)
  PROVE  Handled(r)
<1>0. reply \in [Requests -> Replies]
  BY DEF TypeOK
<1>1. CASE AnswerLocally(r)
  BY <1>0, <1>1 DEF AnswerLocally, Answer, Goto, Handled, streamVars
<1>2. CASE AnswerUnrouted(r)
  <2>1. PICK s \in {200, 307, 404, 405} : Answer(r, "routing", s, Blank)
    BY <1>2 DEF AnswerUnrouted, Blank
  <2>2. UNCHANGED <<gen, sent, client>>
    BY <1>2 DEF AnswerUnrouted, streamVars
  <2>3. /\ UNCHANGED <<lifespan, req>> /\ pc[r] = "routing"
        /\ pc' = [pc EXCEPT ![r] = "answering"]
        /\ reply' = [reply EXCEPT ![r] = [status |-> s, code |-> Blank]]
    BY <2>1 DEF Answer, Goto
  <2>4. \A q \in Requests \ {r} : reply'[q] = reply[q]
    BY <1>0, <2>3
  <2>5. QED  BY <2>2, <2>3, <2>4 DEF Handled
<1>2a. CASE AnswerWrongMethod(r)
  BY <1>0, <1>2a DEF AnswerWrongMethod, Answer, Goto, Handled, streamVars
<1>2b. CASE RejectUndecodable(r)
  BY <1>0, <1>2b DEF RejectUndecodable, Answer, Goto, Handled, streamVars
<1>3. CASE RejectInvalid(r)
  BY <1>0, <1>3 DEF RejectInvalid, Answer, Goto, Handled, streamVars
<1>4. CASE AskBackend(r)
  BY <1>0, <1>4 DEF AskBackend, Answer, Goto, Handled, streamVars
<1>5. CASE RefuseModel(r)
  BY <1>0, <1>5 DEF RefuseModel, Answer, Goto, Handled, streamVars
<1>6. CASE Generate(r)
  BY <1>0, <1>6 DEF Generate, Answer, Goto, Handled, streamVars
<1>7. CASE OpenStream(r)
  BY <1>0, <1>7 DEF OpenStream, Answer, Goto, Handled, streamVars
<1>8. CASE RecordResponse(r)
  BY <1>0, <1>8 DEF RecordResponse, Answer, Goto, Handled, streamVars
<1>9. CASE BackendIsReady(r)
  BY <1>0, <1>9 DEF BackendIsReady, Answer, Goto, Handled, streamVars
<1>10. CASE BackendNotReady(r)
  BY <1>0, <1>10 DEF BackendNotReady, Answer, Goto, Handled, streamVars
<1>11. ASSUME NEW models \in {{}, BackendModels}, ListModelsReturns(r, models)
       PROVE  Handled(r)
  BY <1>0, <1>11 DEF ListModelsReturns, Answer, Goto, Handled, streamVars
<1>12. CASE ListModelsRaises(r)
  BY <1>0, <1>12 DEF ListModelsRaises, Answer, Goto, Handled, streamVars
<1>13. ASSUME NEW count \in TokenCounts, GenerateReturns(r, count)
      PROVE  Handled(r)
  BY <1>0, <1>13 DEF GenerateReturns, Answer, Goto, Handled, streamVars
<1>14. CASE GenerateRaises(r)
  BY <1>0, <1>14 DEF GenerateRaises, Answer, Goto, Handled, streamVars
<1>15. QED
  BY <1>1, <1>2, <1>2a, <1>2b, <1>3, <1>4, <1>5, <1>6, <1>7, <1>8, <1>9, <1>10,
     <1>11, <1>12, <1>13, <1>14
     DEF HandlerStep, BackendReply

\* A client touches nothing but its own connection.
LEMMA ClientFrame ==
  ASSUME NEW r, ClientStep(r)
  PROVE  /\ UNCHANGED <<lifespan, upstream, req, pc, reply, gen, sent, called, listed,
                        metrics>>
         /\ gen[r] \notin {"none", "ended"} /\ client[r] \in {"connected", "stalled"}
         /\ \E to \in {"connected", "stalled", "left"} :
              client' = [client EXCEPT ![r] = to]
BY DEF ClientStep, ClientStalls, ClientReadsOn, ClientLeaves, ClientMoves, modelVars

SameStreamCounters ==
  /\ metrics'.stream_errors_total = metrics.stream_errors_total
  /\ metrics'.stream_cancellations_total = metrics.stream_cancellations_total

\* Only the generators count streams.
LEMMA HandlerCounters ==
  ASSUME TypeOK, NEW r \in Requests, HandlerStep(r) \/ BackendReply(r)
  PROVE  SameStreamCounters
<1>1. metrics \in MetricsType
  BY DEF TypeOK
<1>2. CASE RecordResponse(r)
  BY <1>1, <1>2 DEF RecordResponse, SameStreamCounters, record_request,
                    record_http_error, MetricsType
<1>3. ASSUME NEW count \in TokenCounts, GenerateReturns(r, count)
      PROVE  SameStreamCounters
  BY <1>1, <1>3 DEF GenerateReturns, SameStreamCounters, record_generated_text, MetricsType
<1>4. CASE GenerateRaises(r)
  BY <1>1, <1>4 DEF GenerateRaises, SameStreamCounters,
                    record_backend_generation_error, MetricsType
<1>5. CASE metrics' = metrics
  BY <1>5 DEF SameStreamCounters
<1>6. QED
  BY <1>2, <1>3, <1>4, <1>5
     DEF HandlerStep, BackendReply, AnswerLocally, AnswerUnrouted, AnswerWrongMethod,
         RejectUndecodable, RejectInvalid, AskBackend, RefuseModel, Generate,
         OpenStream, BackendIsReady,
         BackendNotReady, ListModelsReturns, ListModelsRaises

\* A request with a generator names a model.
LEMMA StreamModel ==
  ASSUME TypeOK, GeneratorAtLastEvent, NEW r \in Requests, gen[r] # "none"
  PROVE  req[r].model \in Models
BY DEF TypeOK, GeneratorAtLastEvent, AtLastEvent, Payloads, ChatKinds

\* Yielding an event keeps the transcripts well typed.
LEMMA YieldType ==
  ASSUME TypeOK, NEW r \in Requests, NEW e \in Events, Yield(r, e)
  PROVE  /\ UNCHANGED <<lifespan, upstream, req, pc, reply, client, listed>>
         /\ gen' \in [Requests -> Generators]
         /\ sent' \in [Requests -> Seq(Events)]
<1>1. Append(sent[r], e) \in Seq(Events)
  BY DEF TypeOK
<1>2. QED  BY <1>1 DEF TypeOK, Yield, Events, Generators, streamFrame

\* The steps of an event generator keep every variable well typed.
LEMMA StreamType ==
  ASSUME TypeOK, GeneratorAtLastEvent, NEW r \in Requests, StreamStep(r)
  PROVE  TypeOK'
<1>1. gen[r] # "none"
  BY DEF StreamStep, YieldRole, AwaitChunk, YieldContent, YieldStop,
         YieldError, YieldDone, Exhaust, Resumed
<1>2. req[r].model \in Models
  BY <1>1, StreamModel
<1>3. ASSUME NEW e \in Events, Yield(r, e), UNCHANGED called,
             metrics' \in MetricsType
      PROVE  TypeOK'
  BY <1>3, YieldType DEF TypeOK
<1>4. metrics \in MetricsType
  BY DEF TypeOK
<1>5. CASE YieldRole(r)
  BY <1>3, <1>4, <1>5 DEF YieldRole, Events
<1>6. CASE AwaitChunk(r)
  BY <1>2, <1>6 DEF AwaitChunk, TypeOK, streamFrame, Generators
<1>7. CASE YieldContent(r)
  BY <1>3, <1>4, <1>7 DEF YieldContent, Events
<1>8. CASE YieldStop(r)
  BY <1>3, <1>4, <1>8 DEF YieldStop, Events
<1>9. CASE YieldError(r)
  BY <1>2, <1>3, <1>4, <1>9, MetricsClosed DEF YieldError, Events
<1>10. CASE YieldDone(r)
  BY <1>3, <1>4, <1>10 DEF YieldDone, Events
<1>11. CASE Exhaust(r)
  BY <1>11 DEF Exhaust, TypeOK, streamFrame, Generators
<1>12. QED
  BY <1>5, <1>6, <1>7, <1>8, <1>9, <1>10, <1>11 DEF StreamStep

\* What ends an abandoned stream keeps every variable well typed.
LEMMA TeardownType ==
  ASSUME TypeOK, GeneratorAtLastEvent, NEW r \in Requests, Teardown(r)
  PROVE  TypeOK'
<1> USE DEF TypeOK, streamVars, modelVars
<1>1. CASE CancelAwait(r)
  <2>1. metrics' \in MetricsType
    BY <1>1, StreamModel, MetricsClosed DEF CancelAwait
  <2>2. QED  BY <1>1, <2>1 DEF CancelAwait, Generators
<1>2. CASE DropGenerator(r)
  BY <1>2 DEF DropGenerator, Goto, Places
<1>3. CASE FinaliseGenerator(r)
  <2>1. metrics' \in MetricsType
    BY <1>3, StreamModel, MetricsClosed DEF FinaliseGenerator
  <2>2. QED  BY <1>3, <2>1 DEF FinaliseGenerator, Generators
<1>4. QED  BY <1>1, <1>2, <1>3 DEF Teardown

\* TypeOK is preserved by every step from a state in which every generator is
\* where its events say.
LEMMA TypeNext ==
  ASSUME TypeOK, GeneratorAtLastEvent, [Next]_vars
  PROVE  TypeOK'
<1>1. ASSUME NEW r \in Requests, RequestStep(r)
      PROVE  TypeOK'
  <2>1. ASSUME NEW kind \in Kinds, NEW model \in Models \cup {NoModel},
               Arrive(r, kind, model)
        PROVE  TypeOK'
    <3>1. PICK route \in RoutesOf(kind) :
            req' = [req EXCEPT ![r] = [kind |-> kind, model |-> model, route |-> route]]
      BY <2>1 DEF Arrive
    <3>2. route \in Routes
      BY <3>1 DEF RoutesOf, Routes
    <3>3. [kind |-> kind, model |-> model, route |-> route] \in Payloads
      BY <2>1, <3>1, <3>2, KindsAssumption DEF Arrive, Payloads
    <3>4. QED
      BY <2>1, <3>1, <3>3 DEF Arrive, TypeOK, Places, streamVars, modelVars
  <2>2. CASE ClientStep(r)
    BY <2>2, ClientFrame DEF TypeOK
  <2>3. QED
    BY <1>1, <2>1, <2>2, HandlerType, BackendType, StreamType, TeardownType
       DEF RequestStep
<1>2. CASE ServerStep
  BY <1>2 DEF ServerStep, Load, LoadFails, BeginDrain, CloseBackend,
              UpstreamFlips, requestVars, TypeOK
<1>3. CASE UNCHANGED vars
  BY <1>3 DEF TypeOK, vars
<1>4. QED
  BY <1>1, <1>2, <1>3 DEF Next, Stopped

-----------------------------------------------------------------------------
(* Where a generator is, and what it has sent.                             *)

\* A step that leaves r's generator alone and does not take r back to the
\* handler keeps AtLastEvent(r).
LEMMA AtLastEventFrame ==
  ASSUME NEW r \in Requests, AtLastEvent(r),
         gen'[r] = gen[r], sent'[r] = sent[r],
         gen[r] # "none" => req'[r] = req[r] /\ pc'[r] \notin {"new", "routing"},
         gen[r] = "waiting" => client'[r] # "dropped"
  PROVE  AtLastEvent(r)'
BY DEF AtLastEvent, Finished, Has, Last

\* What yielding e does to the transcript of r.
LEMMA YieldEvents ==
  ASSUME TypeOK, NEW r \in Requests, NEW e \in Events, Yield(r, e)
  PROVE  /\ sent'[r] = Append(sent[r], e) /\ gen'[r] = e
         /\ sent'[r] # <<>> /\ Last(r)' = e
         /\ \A x \in Events : Has(r, x)' <=> (Has(r, x) \/ x = e)
         /\ UNCHANGED <<pc, req, client>>
         /\ \A q \in Requests \ {r} : gen'[q] = gen[q] /\ sent'[q] = sent[q]
<1>1. /\ sent'[r] = Append(sent[r], e) /\ gen'[r] = e /\ UNCHANGED <<pc, req, client>>
      /\ \A q \in Requests \ {r} : gen'[q] = gen[q] /\ sent'[q] = sent[q]
  BY DEF TypeOK, Yield, streamFrame
<1> DEFINE s == sent[r]  t == Append(s, e)
<1>2. s \in Seq(Events)
  BY DEF TypeOK
<1> HIDE DEF s
<1>3. /\ Len(t) = Len(s) + 1 /\ DOMAIN t = 1 .. Len(s) + 1 /\ DOMAIN s = 1 .. Len(s)
      /\ t[Len(s) + 1] = e /\ \A i \in 1 .. Len(s) : t[i] = s[i]
      /\ Len(s) \in Nat
  BY <1>2
<1> HIDE DEF t
<1>4. ASSUME NEW x \in Events
      PROVE  (\E i \in DOMAIN t : t[i] = x) <=> ((\E i \in DOMAIN s : s[i] = x) \/ x = e)
  BY <1>3
<1>5. t # <<>>
  BY <1>3
<1>6. sent'[r] = t
  BY <1>1 DEF s, t
<1>7. Last(r)' = e
  BY <1>3, <1>6 DEF Last
<1>8. ASSUME NEW x \in Events
      PROVE  Has(r, x)' <=> (Has(r, x) \/ x = e)
  BY <1>4, <1>6 DEF Has, s
<1>9. QED  BY <1>1, <1>5, <1>6, <1>7, <1>8

\* No generator exists initially.
LEMMA GeneratorInit == Init => GeneratorAtLastEvent
BY DEF Init, GeneratorAtLastEvent, AtLastEvent, Events, Has, Last, Finished

\* A request that is not in the generator code keeps every generator in place.
LEMMA HandlerGenerator ==
  ASSUME TypeOK, GeneratorAtLastEvent, NEW r \in Requests,
         HandlerStep(r) \/ BackendReply(r)
  PROVE  GeneratorAtLastEvent'
<1> SUFFICES ASSUME NEW q \in Requests PROVE AtLastEvent(q)'
  BY DEF GeneratorAtLastEvent
<1>1. AtLastEvent(q)
  BY DEF GeneratorAtLastEvent
<1>2. CASE OpenStream(r)
  <2>1. CASE q = r
    <3>1. gen[r] = "none" /\ sent[r] = <<>>
      BY <1>1, <1>2, <2>1 DEF OpenStream, Answer, Goto, AtLastEvent
    <3>2. gen'[r] = "created" /\ sent'[r] = <<>> /\ pc'[r] = "answering"
          /\ req'[r].kind = "stream"
      BY <1>2, <3>1 DEF OpenStream, Answer, Goto, TypeOK
    <3>3. QED  BY <2>1, <3>2 DEF AtLastEvent, Has, Finished, Events
  <2>2. CASE q # r
    BY <1>1, <1>2, <2>2, AtLastEventFrame
       DEF OpenStream, Answer, Goto, TypeOK, AtLastEvent
  <2>3. QED  BY <2>1, <2>2
<1>3. CASE ~OpenStream(r)
  <2>1. gen' = gen /\ sent' = sent /\ req' = req /\ client' = client
        /\ pc'[q] \in {pc[q], "awaiting", "answering", "recorded", "unhandled"}
    BY <1>3, HandlerFrame DEF Handled, TypeOK
  <2>2. QED  BY <1>1, <2>1, AtLastEventFrame DEF AtLastEvent
<1>4. QED  BY <1>2, <1>3

\* A step of a generator leaves every generator at its last event.
LEMMA StreamGenerator ==
  ASSUME TypeOK, GeneratorAtLastEvent, NEW r \in Requests, StreamStep(r)
  PROVE  GeneratorAtLastEvent'
<1> SUFFICES ASSUME NEW q \in Requests PROVE AtLastEvent(q)'
  BY DEF GeneratorAtLastEvent
<1>1. AtLastEvent(q) /\ AtLastEvent(r)
  BY DEF GeneratorAtLastEvent
<1>2. ASSUME NEW e \in Events, Yield(r, e), q # r
      PROVE  AtLastEvent(q)'
  BY <1>1, <1>2, YieldEvents, AtLastEventFrame DEF AtLastEvent
<1>3. CASE YieldRole(r)
  <2>1. Yield(r, "role") /\ gen[r] = "created" /\ "role" \in Events
    BY <1>3 DEF YieldRole, Resumed, Events
  <2>2. ~Has(r, "stop") /\ ~Has(r, "error")
    BY <1>1, <2>1 DEF AtLastEvent, Has
  <2>3. QED
    BY <1>1, <1>2, <2>1, <2>2, YieldEvents DEF AtLastEvent, Finished, Events
<1>4. CASE AwaitChunk(r)
  <2>1. gen[r] \in {"role", "content"} /\ gen' = [gen EXCEPT ![r] = "waiting"]
        /\ UNCHANGED <<sent, req, pc, client>> /\ client[r] # "dropped"
    BY <1>4 DEF AwaitChunk, Resumed, streamFrame
  <2>2. CASE q = r
    BY <1>1, <2>1, <2>2 DEF TypeOK, AtLastEvent, Finished, Has, Last, Events
  <2>3. CASE q # r
    BY <1>1, <2>1, <2>3, AtLastEventFrame DEF TypeOK, AtLastEvent
  <2>4. QED  BY <2>2, <2>3
<1>5. CASE YieldContent(r) \/ YieldStop(r) \/ YieldError(r)
  <2>1. PICK e \in {"content", "stop", "error"} : Yield(r, e) /\ gen[r] = "waiting"
    BY <1>5 DEF YieldContent, YieldStop, YieldError, Resumed
  <2>2. ~Has(r, "stop") /\ ~Has(r, "error")
    BY <1>1, <2>1 DEF AtLastEvent, Finished
  <2>3. QED
    BY <1>1, <1>2, <2>1, <2>2, YieldEvents DEF AtLastEvent, Finished, Events
<1>6. CASE YieldDone(r)
  <2>1. Yield(r, "done") /\ gen[r] \in {"stop", "error"} /\ "done" \in Events
    BY <1>6 DEF YieldDone, Resumed, Events
  <2>2. Finished(r)
    BY <1>1, <2>1 DEF AtLastEvent, Finished, Has, Last, Events, TypeOK
  <2>3. QED
    BY <1>1, <1>2, <2>1, <2>2, YieldEvents DEF AtLastEvent, Finished, Events
<1>7. CASE Exhaust(r)
  <2>1. gen[r] = "done" /\ gen' = [gen EXCEPT ![r] = "ended"]
        /\ UNCHANGED <<sent, req, pc, client>>
    BY <1>7 DEF Exhaust, Resumed, streamFrame
  <2>2. CASE q = r
    BY <1>1, <2>1, <2>2 DEF TypeOK, AtLastEvent, Finished, Has, Last, Events
  <2>3. CASE q # r
    BY <1>1, <2>1, <2>3, AtLastEventFrame DEF TypeOK, AtLastEvent
  <2>4. QED  BY <2>2, <2>3
<1>8. QED  BY <1>3, <1>4, <1>5, <1>6, <1>7 DEF StreamStep

\* A client that leaves, and what follows, leaves every generator in place.
LEMMA TeardownGenerator ==
  ASSUME TypeOK, GeneratorAtLastEvent, NEW r \in Requests, Teardown(r)
  PROVE  GeneratorAtLastEvent'
<1> SUFFICES ASSUME NEW q \in Requests PROVE AtLastEvent(q)'
  BY DEF GeneratorAtLastEvent
<1>1. AtLastEvent(q) /\ AtLastEvent(r)
  BY DEF GeneratorAtLastEvent
<1>2. CASE CancelAwait(r) \/ FinaliseGenerator(r)
  <2>1. gen[r] # "none" /\ gen' = [gen EXCEPT ![r] = "ended"]
        /\ UNCHANGED <<sent, req, pc>> /\ \A p \in Requests \ {r} : client'[p] = client[p]
    BY <1>2 DEF CancelAwait, FinaliseGenerator, TypeOK
  <2>2. CASE q = r
    BY <1>1, <2>1, <2>2 DEF TypeOK, AtLastEvent, Finished, Has, Last, Events
  <2>3. CASE q # r
    BY <1>1, <2>1, <2>3, AtLastEventFrame DEF TypeOK, AtLastEvent
  <2>4. QED  BY <2>2, <2>3
<1>3. CASE DropGenerator(r)
  <2>1. UNCHANGED <<gen, sent, req>> /\ pc'[q] \in {pc[q], "unhandled"}
        /\ (client'[q] = client[q] \/ gen[q] # "waiting")
    BY <1>3 DEF DropGenerator, Goto, TypeOK
  <2>2. QED  BY <1>1, <2>1, AtLastEventFrame DEF AtLastEvent
<1>4. QED  BY <1>2, <1>3 DEF Teardown

\* Every step leaves every generator at its last event.
LEMMA GeneratorNext ==
  ASSUME TypeOK, GeneratorAtLastEvent, [Next]_vars
  PROVE  GeneratorAtLastEvent'
<1>1. ASSUME NEW r \in Requests, RequestStep(r)
      PROVE  GeneratorAtLastEvent'
  <2>1. ASSUME NEW kind \in Kinds, NEW model \in Models \cup {NoModel},
               Arrive(r, kind, model), NEW q \in Requests
        PROVE  AtLastEvent(q)'
    <3>1. AtLastEvent(q) /\ gen' = gen /\ sent' = sent /\ client' = client
      BY <2>1 DEF Arrive, streamVars, GeneratorAtLastEvent
    <3>2. gen[q] # "none" => req'[q] = req[q] /\ pc'[q] = pc[q]
      BY <2>1, <3>1 DEF Arrive, AtLastEvent, TypeOK
    <3>3. QED  BY <3>1, <3>2, AtLastEventFrame DEF AtLastEvent
  <2>2. ASSUME ClientStep(r), NEW q \in Requests
        PROVE  AtLastEvent(q)'
    BY <2>2, ClientFrame, AtLastEventFrame DEF GeneratorAtLastEvent, AtLastEvent, TypeOK
  <2>3. QED
    BY <1>1, <2>1, <2>2, HandlerGenerator, StreamGenerator, TeardownGenerator
       DEF RequestStep, GeneratorAtLastEvent
<1>2. ASSUME ServerStep \/ UNCHANGED vars, NEW q \in Requests
      PROVE  AtLastEvent(q)'
  <2>1. UNCHANGED <<req, pc, gen, sent, client>>
    BY <1>2 DEF ServerStep, Load, LoadFails, BeginDrain, CloseBackend,
                UpstreamFlips, requestVars, vars
  <2>2. QED  BY <2>1, AtLastEventFrame DEF GeneratorAtLastEvent, AtLastEvent
<1>3. QED
  BY <1>1, <1>2 DEF Next, Stopped, GeneratorAtLastEvent

\* Type correctness of the serving application, together with the invariant
\* it needs: only a request with a generator names the model it calls.
THEOREM ServingTypeCorrect == Spec => [](TypeOK /\ GeneratorAtLastEvent)
<1>1. Init => TypeOK /\ GeneratorAtLastEvent
  BY TypeInit, GeneratorInit
<1>2. TypeOK /\ GeneratorAtLastEvent /\ [Next]_vars
        => TypeOK' /\ GeneratorAtLastEvent'
  BY TypeNext, GeneratorNext
<1>3. QED  BY <1>1, <1>2, PTL DEF Spec

-----------------------------------------------------------------------------
(* Transcripts.                                                            *)

\* An event that may follow the last one keeps every transcript well formed.
LEMMA YieldWellFormed ==
  ASSUME TypeOK, GeneratorAtLastEvent, TranscriptWellFormed,
         NEW r \in Requests, NEW e \in Events, Yield(r, e),
         \/ sent[r] = <<>> /\ e = "role"
         \/ sent[r] # <<>> /\ FollowsItsPrior(e, Last(r))
  PROVE  TranscriptWellFormed'
<1> DEFINE WF(t) == \A i \in DOMAIN t :
                      FollowsItsPrior(t[i], IF i = 1 THEN "start" ELSE t[i - 1])
           s == sent[r]
<1>1. \A q \in Requests : WF(sent[q])
  BY DEF TranscriptWellFormed
<1>2. s \in Seq(Events) /\ sent'[r] = Append(s, e)
      /\ \A q \in Requests \ {r} : sent'[q] = sent[q]
  BY YieldEvents DEF TypeOK
<1>3. (s = <<>> /\ e = "role") \/ (s # <<>> /\ FollowsItsPrior(e, s[Len(s)]))
  BY DEF Last
<1>4. WF(s)
  BY <1>1
<1> HIDE DEF s
<1>5. ASSUME NEW i \in DOMAIN Append(s, e)
      PROVE  FollowsItsPrior(Append(s, e)[i],
                             IF i = 1 THEN "start" ELSE Append(s, e)[i - 1])
  <2>1. CASE i = Len(s) + 1
    <3>1. CASE s = <<>>
      BY <1>3, <2>1, <3>1 DEF FollowsItsPrior
    <3>2. CASE s # <<>>
      <4>1. Len(s) \in Nat /\ Len(s) # 0 /\ Append(s, e)[i] = e
            /\ Append(s, e)[i - 1] = s[Len(s)]
        BY <1>2, <2>1, <3>2
      <4>2. QED  BY <1>3, <2>1, <3>2, <4>1
    <3>3. QED  BY <3>1, <3>2
  <2>2. CASE i # Len(s) + 1
    <3>1. i \in DOMAIN s /\ i \in Nat /\ Append(s, e)[i] = s[i]
          /\ (i # 1 => Append(s, e)[i - 1] = s[i - 1])
      BY <1>2, <2>2
    <3>2. QED  BY <1>4, <3>1
  <2>3. QED  BY <2>1, <2>2
<1>6. WF(Append(s, e))
  BY <1>5
<1>7. \A q \in Requests : WF(sent'[q])
  BY <1>1, <1>2, <1>6
<1>8. QED  BY <1>7 DEF TranscriptWellFormed

\* Every step keeps every transcript well formed.
LEMMA TranscriptNext ==
  ASSUME TypeOK, GeneratorAtLastEvent, TranscriptWellFormed, [Next]_vars
  PROVE  TranscriptWellFormed'
<1>1. CASE sent' = sent
  BY <1>1 DEF TranscriptWellFormed
<1>2. ASSUME NEW r \in Requests, StreamStep(r)
      PROVE  TranscriptWellFormed'
  <2>1. AtLastEvent(r)
    BY DEF GeneratorAtLastEvent
  <2>2. CASE YieldRole(r)
    BY <2>1, <2>2, YieldWellFormed DEF YieldRole, Resumed, AtLastEvent, Events
  <2>3. CASE YieldContent(r) \/ YieldStop(r) \/ YieldError(r)
    <3>1. PICK e \in {"content", "stop", "error"} : Yield(r, e) /\ gen[r] = "waiting"
      BY <2>3 DEF YieldContent, YieldStop, YieldError, Resumed
    <3>2. QED
      BY <2>1, <3>1, YieldWellFormed DEF AtLastEvent, FollowsItsPrior, Events
  <2>4. CASE YieldDone(r)
    BY <2>1, <2>4, YieldWellFormed
       DEF YieldDone, Resumed, AtLastEvent, FollowsItsPrior, Events
  <2>5. CASE AwaitChunk(r) \/ Exhaust(r)
    BY <1>1, <2>5 DEF AwaitChunk, Exhaust
  <2>6. QED  BY <1>2, <2>2, <2>3, <2>4, <2>5 DEF StreamStep
<1>3. ASSUME NEW r \in Requests, RequestStep(r), ~StreamStep(r)
      PROVE  sent' = sent
  <2>1. CASE \E kind \in Kinds, model \in Models \cup {NoModel} : Arrive(r, kind, model)
    BY <2>1 DEF Arrive, streamVars
  <2>2. CASE HandlerStep(r)
    BY <2>2 DEF HandlerStep, AnswerLocally, AnswerUnrouted, AnswerWrongMethod,
       RejectUndecodable, RejectInvalid, AskBackend, RefuseModel, Generate,
       OpenStream, RecordResponse, streamVars
  <2>3. CASE BackendReply(r)
    BY <2>3 DEF BackendReply, BackendIsReady, BackendNotReady, ListModelsReturns,
       ListModelsRaises, GenerateReturns, GenerateRaises, streamVars
  <2>4. CASE ClientStep(r) \/ Teardown(r)
    BY <2>4, ClientFrame DEF Teardown, CancelAwait, DropGenerator, FinaliseGenerator
  <2>5. QED  BY <1>3, <2>1, <2>2, <2>3, <2>4 DEF RequestStep
<1>4. CASE ServerStep \/ UNCHANGED vars
  BY <1>1, <1>4 DEF ServerStep, Load, LoadFails, BeginDrain, CloseBackend,
                    UpstreamFlips, requestVars, vars
<1>5. QED  BY <1>1, <1>2, <1>3, <1>4 DEF Next, Stopped

\* The event stream a client receives is well formed, for every number of
\* streams and chunks: at most one finish reason, [DONE] only after it.
THEOREM TranscriptsWellFormed == Spec => []TranscriptWellFormed
<1>1. Init => TranscriptWellFormed
  BY DEF Init, TranscriptWellFormed
<1>2. TypeOK /\ GeneratorAtLastEvent /\ TranscriptWellFormed /\ [Next]_vars
        => TranscriptWellFormed'
  BY TranscriptNext
<1>3. QED  BY <1>1, <1>2, ServingTypeCorrect, PTL DEF Spec

-----------------------------------------------------------------------------
(* Serving implements the stream ledger.                                   *)

\* A step that yields nothing for r, and neither ends r's generator short of
\* a finish event nor renames its model, leaves its ledger entry alone.
LEMMA EntryFrame ==
  ASSUME NEW r \in Requests, sent'[r] = sent[r],
         sent[r] = <<>> \/ req'[r].model = req[r].model,
         \/ sent[r] = <<>> \/ Finished(r)
         \/ (gen'[r] = "ended" <=> gen[r] = "ended")
  PROVE  Outcome(r)' = Outcome(r) /\ Owner(r)' = Owner(r)
BY DEF Outcome, Owner, Finished, Has

\* The ledger entry of a generator that is still in its try block.
LEMMA EntryOfGenerator ==
  ASSUME NEW r \in Requests, AtLastEvent(r)
  PROVE  /\ gen[r] = "created" => Outcome(r) = "unopened" /\ Owner(r) = NoModel
         /\ gen[r] \in {"role", "content", "waiting"} =>
              /\ Outcome(r) = "open" /\ Owner(r) = req[r].model
              /\ sent[r] # <<>> /\ ~Finished(r)
BY DEF AtLastEvent, Outcome, Owner, Finished, Events

\* Entries that all stay put, with the counters, make a stuttering step.
LEMMA LedgerStutter ==
  ASSUME \A q \in Requests : Outcome(q)' = Outcome(q) /\ Owner(q)' = Owner(q),
         metrics'.stream_errors_total = metrics.stream_errors_total,
         metrics'.stream_cancellations_total = metrics.stream_cancellations_total
  PROVE  UNCHANGED Ledger!vars
<1>1. [q \in Requests |-> Outcome(q)]' = [q \in Requests |-> Outcome(q)]
  OBVIOUS
<1>2. [q \in Requests |-> Owner(q)]' = [q \in Requests |-> Owner(q)]
  OBVIOUS
<1>3. QED  BY <1>1, <1>2 DEF Ledger!vars

\* The entry of an open stream moves to `result`, all others stay: the stream
\* ends in the ledger.
LEMMA LedgerEnd ==
  ASSUME NEW r \in Requests, NEW result, Outcome(r) = "open", Outcome(r)' = result,
         Owner(r)' = Owner(r),
         \A q \in Requests \ {r} : Outcome(q)' = Outcome(q) /\ Owner(q)' = Owner(q)
  PROVE  Ledger!End(r, result)
<1> DEFINE outcomes == [q \in Requests |-> Outcome(q)]
           owners == [q \in Requests |-> Owner(q)]
<1>1. outcomes' = [outcomes EXCEPT ![r] = result]
  OBVIOUS
<1>2. owners' = owners
  OBVIOUS
<1>3. QED  BY <1>1, <1>2 DEF Ledger!End

\* The counters a step of a stream may move.
LEMMA StreamCounters ==
  ASSUME TypeOK, NEW m \in Models
  PROVE  LET error == record_stream_error(metrics, m)
             cancel == record_stream_cancellation(metrics, m)
         IN  /\ error.stream_errors_total =
                  [metrics.stream_errors_total EXCEPT ![m] = @ + 1]
             /\ error.stream_cancellations_total = metrics.stream_cancellations_total
             /\ cancel.stream_cancellations_total =
                  [metrics.stream_cancellations_total EXCEPT ![m] = @ + 1]
             /\ cancel.stream_errors_total = metrics.stream_errors_total
BY DEF TypeOK, MetricsType, record_stream_error, record_stream_cancellation

\* A step of a generator is a step of the ledger, or leaves it alone.
LEMMA StreamRefines ==
  ASSUME TypeOK, GeneratorAtLastEvent, GeneratorAtLastEvent',
         NEW r \in Requests, StreamStep(r)
  PROVE  Ledger!Next \/ UNCHANGED Ledger!vars
<1>1. AtLastEvent(r) /\ AtLastEvent(r)'
  BY DEF GeneratorAtLastEvent
<1>2. gen[r] # "none" /\ req[r].model \in Models
  BY StreamModel DEF StreamStep, YieldRole, AwaitChunk, YieldContent, YieldStop,
     YieldError, YieldDone, Exhaust, Resumed
<1>3. ASSUME NEW e \in Events, Yield(r, e), NEW q \in Requests \ {r}
      PROVE  Outcome(q)' = Outcome(q) /\ Owner(q)' = Owner(q)
  BY <1>3, YieldEvents, EntryFrame
<1>4. CASE YieldRole(r)
  <2>1. Yield(r, "role") /\ gen[r] = "created" /\ metrics' = metrics /\ "role" \in Events
    BY <1>4 DEF YieldRole, Resumed, Events
  <2>2. Outcome(r) = "unopened" /\ Owner(r) = NoModel
    BY <1>1, <2>1, EntryOfGenerator
  <2>3. gen'[r] = "role" /\ req' = req
    BY <2>1, YieldEvents
  <2>4. Outcome(r)' = "open" /\ Owner(r)' = req[r].model
    BY <1>1, <2>3 DEF AtLastEvent, Outcome, Owner, Finished, Events
  <2> DEFINE outcomes == [q \in Requests |-> Outcome(q)]
             owners == [q \in Requests |-> Owner(q)]
  <2>5. outcomes' = [outcomes EXCEPT ![r] = "open"]
    BY <1>3, <2>1, <2>4
  <2>6. owners' = [owners EXCEPT ![r] = req[r].model]
    BY <1>3, <2>1, <2>4
  <2>7. Ledger!Open(r, req[r].model)
    BY <2>1, <2>2, <2>5, <2>6 DEF Ledger!Open
  <2>8. QED  BY <1>2, <2>7 DEF Ledger!Next
<1>5. CASE YieldContent(r)
  <2>1. Yield(r, "content") /\ gen[r] = "waiting" /\ metrics' = metrics
        /\ "content" \in Events
    BY <1>5 DEF YieldContent, Resumed, Events
  <2>2. Outcome(r) = "open" /\ Owner(r) = req[r].model
    BY <1>1, <2>1, EntryOfGenerator
  <2>3. gen'[r] = "content" /\ req' = req
    BY <2>1, YieldEvents
  <2>4. Outcome(r)' = "open" /\ Owner(r)' = req[r].model
    BY <1>1, <2>3 DEF AtLastEvent, Outcome, Owner, Finished, Events
  <2>5. QED  BY <1>3, <2>1, <2>2, <2>4, LedgerStutter
<1>6. CASE YieldStop(r)
  <2>1. Yield(r, "stop") /\ gen[r] = "waiting" /\ metrics' = metrics /\ "stop" \in Events
    BY <1>6 DEF YieldStop, Resumed, Events
  <2>2. Outcome(r) = "open" /\ Owner(r) = req[r].model
    BY <1>1, <2>1, EntryOfGenerator
  <2>3. /\ sent'[r] # <<>> /\ req' = req
        /\ Has(r, "stop")' /\ ~Has(r, "error")'
    BY <1>1, <2>1, YieldEvents DEF AtLastEvent, Finished, Events
  <2>4. Outcome(r)' = "completed" /\ Owner(r)' = Owner(r)
    BY <2>2, <2>3 DEF Outcome, Owner
  <2>5. Ledger!Complete(r)
    BY <1>3, <2>1, <2>2, <2>4, LedgerEnd DEF Ledger!Complete
  <2>6. QED  BY <2>5 DEF Ledger!Next
<1>7. CASE YieldError(r)
  <2>1. Yield(r, "error") /\ gen[r] = "waiting" /\ "error" \in Events
        /\ metrics' = record_stream_error(metrics, req[r].model)
    BY <1>7 DEF YieldError, Resumed, Events
  <2>2. Outcome(r) = "open" /\ Owner(r) = req[r].model
    BY <1>1, <2>1, EntryOfGenerator
  <2>3. sent'[r] # <<>> /\ req' = req /\ Has(r, "error")'
    BY <2>1, YieldEvents
  <2>4. Outcome(r)' = "failed" /\ Owner(r)' = Owner(r)
    BY <2>2, <2>3 DEF Outcome, Owner
  <2>5. Ledger!Fail(r)
    BY <1>2, <1>3, <2>1, <2>2, <2>4, LedgerEnd, StreamCounters DEF Ledger!Fail
  <2>6. QED  BY <2>5 DEF Ledger!Next
<1>8. CASE YieldDone(r)
  <2>1. Yield(r, "done") /\ gen[r] \in {"stop", "error"} /\ metrics' = metrics
        /\ "done" \in Events
    BY <1>8 DEF YieldDone, Resumed, Events
  <2>2. sent[r] # <<>> /\ Finished(r)
    BY <1>1, <2>1 DEF AtLastEvent, Finished, Has, Last, Events, TypeOK
  <2>3. /\ sent'[r] # <<>> /\ req' = req
        /\ Has(r, "stop")' <=> Has(r, "stop")
        /\ Has(r, "error")' <=> Has(r, "error")
    BY <2>1, YieldEvents DEF Events
  <2>4. Outcome(r)' = Outcome(r) /\ Owner(r)' = Owner(r)
    BY <2>2, <2>3 DEF Outcome, Owner, Finished
  <2>5. QED  BY <1>3, <2>1, <2>4, LedgerStutter
<1>9. CASE AwaitChunk(r) \/ Exhaust(r)
  <2>1. ASSUME NEW q \in Requests
        PROVE  Outcome(q)' = Outcome(q) /\ Owner(q)' = Owner(q)
    <3>1. UNCHANGED <<sent, req>>
      BY <1>9 DEF AwaitChunk, Exhaust, streamFrame
    <3>2. \/ (gen'[q] = "ended" <=> gen[q] = "ended") \/ Finished(q)
      BY <1>1, <1>9 DEF AwaitChunk, Exhaust, Resumed, AtLastEvent, TypeOK
    <3>3. QED  BY <3>1, <3>2, EntryFrame
  <2>2. QED  BY <1>9, <2>1, LedgerStutter DEF AwaitChunk, Exhaust
<1>10. QED
  BY <1>4, <1>5, <1>6, <1>7, <1>8, <1>9 DEF StreamStep

\* What ends an abandoned stream cancels it in the ledger, or leaves it alone.
LEMMA TeardownRefines ==
  ASSUME TypeOK, GeneratorAtLastEvent, GeneratorAtLastEvent',
         NEW r \in Requests, Teardown(r)
  PROVE  Ledger!Next \/ UNCHANGED Ledger!vars
<1>1. AtLastEvent(r)
  BY DEF GeneratorAtLastEvent
<1>2. UNCHANGED <<sent, req>>
  BY DEF Teardown, CancelAwait, DropGenerator, FinaliseGenerator
<1>3. ASSUME gen[r] \in {"role", "content", "waiting"},
             gen' = [gen EXCEPT ![r] = "ended"],
             metrics' = record_stream_cancellation(metrics, req[r].model)
      PROVE  Ledger!Next
  <2>1. /\ Outcome(r) = "open" /\ Owner(r) = req[r].model
        /\ sent[r] # <<>> /\ ~Finished(r) /\ req[r].model \in Models
    BY <1>1, <1>3, EntryOfGenerator, StreamModel
  <2>2. Outcome(r)' = "cancelled" /\ Owner(r)' = Owner(r)
    BY <1>2, <1>3, <2>1 DEF TypeOK, Outcome, Owner, Finished, Has
  <2>3. \A q \in Requests \ {r} : Outcome(q)' = Outcome(q) /\ Owner(q)' = Owner(q)
    BY <1>2, <1>3, EntryFrame DEF TypeOK
  <2>4. Ledger!Cancel(r)
    BY <1>3, <2>1, <2>2, <2>3, LedgerEnd, StreamCounters DEF Ledger!Cancel
  <2>5. QED  BY <2>4 DEF Ledger!Next
<1>4. CASE CancelAwait(r)
  BY <1>3, <1>4 DEF CancelAwait
<1>5. CASE FinaliseGenerator(r) /\ gen[r] \in {"role", "content"}
  BY <1>3, <1>5 DEF FinaliseGenerator
<1>6. CASE FinaliseGenerator(r) /\ gen[r] \notin {"role", "content"}
  <2>1. gen[r] # "waiting"
    BY <1>1, <1>6 DEF FinaliseGenerator, AtLastEvent
  <2>2. ASSUME NEW q \in Requests
        PROVE  Outcome(q)' = Outcome(q) /\ Owner(q)' = Owner(q)
    BY <1>1, <1>2, <1>6, <2>1, EntryFrame
       DEF FinaliseGenerator, TypeOK, AtLastEvent, Finished, Has, Last, Events, Generators
  <2>3. QED  BY <1>6, <2>2, LedgerStutter DEF FinaliseGenerator
<1>7. CASE DropGenerator(r)
  BY <1>2, <1>7, EntryFrame, LedgerStutter DEF DropGenerator
<1>8. QED  BY <1>4, <1>5, <1>6, <1>7 DEF Teardown

\* Steps outside the generator leave the ledger alone.
LEMMA OtherRefines ==
  ASSUME TypeOK, GeneratorAtLastEvent, NEW r \in Requests,
         \/ HandlerStep(r) \/ BackendReply(r) \/ ClientStep(r)
         \/ \E kind \in Kinds, model \in Models \cup {NoModel} : Arrive(r, kind, model)
  PROVE  UNCHANGED Ledger!vars
<1>1. ASSUME NEW q \in Requests, sent' = sent,
             sent[q] = <<>> \/ (req'[q] = req[q] /\ gen'[q] = gen[q])
      PROVE  Outcome(q)' = Outcome(q) /\ Owner(q)' = Owner(q)
  BY <1>1, EntryFrame
<1>2. \A q \in Requests : AtLastEvent(q)
  BY DEF GeneratorAtLastEvent
<1>3. CASE HandlerStep(r) \/ BackendReply(r)
  <2>1. sent' = sent /\ req' = req /\ (OpenStream(r) \/ gen' = gen)
    BY <1>3, HandlerFrame DEF Handled
  <2>2. OpenStream(r) => sent[r] = <<>> /\ \A q \in Requests \ {r} : gen'[q] = gen[q]
    BY <1>2 DEF OpenStream, Answer, Goto, AtLastEvent, TypeOK
  <2>3. SameStreamCounters
    BY <1>3, HandlerCounters
  <2>4. QED  BY <1>1, <2>1, <2>2, <2>3, LedgerStutter DEF SameStreamCounters
<1>4. CASE ClientStep(r)
  BY <1>1, <1>4, ClientFrame, LedgerStutter
<1>5. ASSUME NEW kind \in Kinds, NEW model \in Models \cup {NoModel},
             Arrive(r, kind, model)
      PROVE  UNCHANGED Ledger!vars
  <2>1. sent' = sent /\ gen' = gen /\ metrics' = metrics
        /\ \A q \in Requests \ {r} : req'[q] = req[q]
    BY <1>5 DEF Arrive, streamVars, TypeOK
  <2>2. sent[r] = <<>>
    BY <1>2, <1>5 DEF Arrive, AtLastEvent, TypeOK, Generators
  <2>3. QED  BY <1>1, <2>1, <2>2, LedgerStutter
<1>6. QED  BY <1>3, <1>4, <1>5

\* Every step of the application is a step of the ledger, or leaves it alone.
LEMMA NextRefines ==
  ASSUME TypeOK, GeneratorAtLastEvent, GeneratorAtLastEvent', [Next]_vars
  PROVE  Ledger!Next \/ UNCHANGED Ledger!vars
<1>1. ASSUME NEW r \in Requests, RequestStep(r)
      PROVE  Ledger!Next \/ UNCHANGED Ledger!vars
  BY <1>1, StreamRefines, TeardownRefines, OtherRefines DEF RequestStep
<1>2. CASE ServerStep \/ UNCHANGED vars
  <2>1. UNCHANGED <<req, gen, sent, metrics>>
    BY <1>2 DEF ServerStep, Load, LoadFails, BeginDrain, CloseBackend,
                UpstreamFlips, requestVars, vars
  <2>2. QED  BY <2>1, EntryFrame, LedgerStutter
<1>3. QED  BY <1>1, <1>2 DEF Next, Stopped

\* The initial states are initial states of the ledger.
LEMMA InitRefines == Init => Ledger!Init
BY DEF Init, Ledger!Init, Outcome, Owner, InMemoryMetrics

\* The serving application implements the stream ledger: every stream ends
\* once, and its counter moves in the step in which it ends.
THEOREM ServingImplementsLedger == Spec => StreamLedgerSpec
<1>1. TypeOK /\ GeneratorAtLastEvent /\ GeneratorAtLastEvent' /\ [Next]_vars
        => [Ledger!Next]_(Ledger!vars)
  BY NextRefines
<1>2. QED
  BY <1>1, InitRefines, ServingTypeCorrect, PTL DEF Spec, StreamLedgerSpec, Ledger!Spec

-----------------------------------------------------------------------------
(* The ledger's own counters are exact.                                    *)

Ended(result, m) == {r \in Requests : Outcome(r) = result /\ Owner(r) = m}

\* What an unchanged ledger, and an opening in it, are for each stream.
LEMMA EntriesKept ==
  ASSUME UNCHANGED Ledger!vars
  PROVE  \A q \in Requests : Outcome(q)' = Outcome(q) /\ Owner(q)' = Owner(q)
<1>1. ASSUME NEW q \in Requests
      PROVE  /\ [p \in Requests |-> Outcome(p)]'[q] = Outcome(q)'
             /\ [p \in Requests |-> Owner(p)]'[q] = Owner(q)'
             /\ [p \in Requests |-> Outcome(p)][q] = Outcome(q)
             /\ [p \in Requests |-> Owner(p)][q] = Owner(q)
  OBVIOUS
<1>2. /\ [p \in Requests |-> Outcome(p)]' = [p \in Requests |-> Outcome(p)]
      /\ [p \in Requests |-> Owner(p)]' = [p \in Requests |-> Owner(p)]
  BY DEF Ledger!vars
<1>3. QED  BY <1>1, <1>2

\* Opening a stream concerns no other stream.
LEMMA OpeningOfOne ==
  ASSUME NEW s \in Requests, NEW m, Ledger!Open(s, m)
  PROVE  /\ Outcome(s) = "unopened" /\ Outcome(s)' = "open" /\ Owner(s)' = m
         /\ \A q \in Requests \ {s} : Outcome(q)' = Outcome(q) /\ Owner(q)' = Owner(q)
<1> DEFINE outcomes == [q \in Requests |-> Outcome(q)]
           owners == [q \in Requests |-> Owner(q)]
<1>1. /\ outcomes[s] = "unopened" /\ outcomes' = [outcomes EXCEPT ![s] = "open"]
      /\ owners' = [owners EXCEPT ![s] = m]
  BY DEF Ledger!Open
<1>2. ASSUME NEW q \in Requests
      PROVE  outcomes'[q] = Outcome(q)' /\ owners'[q] = Owner(q)'
  OBVIOUS
<1>3. /\ \A q \in Requests : outcomes[q] = Outcome(q) /\ owners[q] = Owner(q)
      /\ DOMAIN outcomes = Requests /\ DOMAIN owners = Requests
  OBVIOUS
<1> HIDE DEF outcomes, owners
<1>4. /\ outcomes'[s] = "open" /\ owners'[s] = m
      /\ \A q \in Requests \ {s} : outcomes'[q] = outcomes[q] /\ owners'[q] = owners[q]
  BY <1>1, <1>3
<1>5. QED  BY <1>1, <1>2, <1>3, <1>4

\* What the end of a stream in the ledger is for each stream.
LEMMA EndOfOne ==
  ASSUME NEW s \in Requests, NEW result, Ledger!End(s, result)
  PROVE  /\ Outcome(s) = "open" /\ Outcome(s)' = result
         /\ \A q \in Requests : Owner(q)' = Owner(q)
         /\ \A q \in Requests \ {s} : Outcome(q)' = Outcome(q)
<1> DEFINE outcomes == [q \in Requests |-> Outcome(q)]
           owners == [q \in Requests |-> Owner(q)]
<1>1. outcomes[s] = "open" /\ outcomes' = [outcomes EXCEPT ![s] = result]
      /\ owners' = owners
  BY DEF Ledger!End
<1>2. ASSUME NEW q \in Requests
      PROVE  outcomes'[q] = Outcome(q)' /\ owners'[q] = Owner(q)'
  OBVIOUS
<1>3. \A q \in Requests : outcomes[q] = Outcome(q) /\ owners[q] = Owner(q)
  OBVIOUS
<1> HIDE DEF outcomes, owners
<1>4. outcomes'[s] = result /\ \A q \in Requests \ {s} : outcomes'[q] = outcomes[q]
  BY <1>1 DEF outcomes
<1>5. QED  BY <1>1, <1>2, <1>3, <1>4

\* A stream that ends with `result` joins the streams counted under that
\* result for its own model, and changes no other such set.
LEMMA EndMovesOne ==
  ASSUME NEW s \in Requests, NEW result, Ledger!End(s, result),
         NEW other \in {"failed", "cancelled"}, NEW m \in Models
  PROVE  Cardinality(Ended(other, m)') =
           IF other = result /\ Owner(s) = m
           THEN Cardinality(Ended(other, m)) + 1
           ELSE Cardinality(Ended(other, m))
<1>1. IsFiniteSet(Ended(other, m)) /\ s \notin Ended(other, m)
  BY RequestsAssumption, FS_Subset, EndOfOne DEF Ended
<1>2. CASE other = result /\ Owner(s) = m
  <2>1. Ended(other, m)' = Ended(other, m) \cup {s}
    BY <1>2, EndOfOne DEF Ended
  <2>2. Cardinality(Ended(other, m) \cup {s}) = Cardinality(Ended(other, m)) + 1
    BY <1>1, FS_AddElement
  <2>3. QED  BY <1>2, <2>1, <2>2
<1>3. CASE ~(other = result /\ Owner(s) = m)
  <2>1. Ended(other, m)' = Ended(other, m)
    BY <1>3, EndOfOne DEF Ended
  <2>2. QED  BY <1>3, <2>1
<1>4. QED  BY <1>2, <1>3

\* StreamsAccounted, counted over the requests.
Counted ==
  \A m \in Models :
    /\ metrics.stream_errors_total[m] = Cardinality(Ended("failed", m))
    /\ metrics.stream_cancellations_total[m] = Cardinality(Ended("cancelled", m))

\* Counted says of all streams what StreamsAccounted says by name.
LEMMA CountedIsAccounted == Counted <=> StreamsAccounted
<1>1. ASSUME NEW result, NEW m
      PROVE  Ended(result, m) =
               {s \in Requests : [q \in Requests |-> Outcome(q)][s] = result
                                 /\ [q \in Requests |-> Owner(q)][s] = m}
  BY DEF Ended
<1>2. ASSUME NEW S PROVE Ledger!Cardinality(S) = Cardinality(S)
  BY DEF Ledger!Cardinality, Cardinality
<1>3. QED  BY <1>1, <1>2 DEF Counted, StreamsAccounted, Ledger!Accounted

\* An open stream has an owner: only its counter can move when it ends.
OpenOwned == \A s \in Requests : Outcome(s) = "open" => Owner(s) \in Models

\* The inductive invariant of the ledger.
LedgerInv ==
  /\ metrics.stream_errors_total \in [Models -> Nat]
  /\ metrics.stream_cancellations_total \in [Models -> Nat]
  /\ OpenOwned
  /\ Counted

\* No stream is open or counted at first.
LEMMA LedgerInit == Ledger!Init => LedgerInv
<1> SUFFICES ASSUME Ledger!Init PROVE LedgerInv
  OBVIOUS
<1>1. ASSUME NEW s \in Requests PROVE Outcome(s) = "unopened"
  <2>1. /\ [q \in Requests |-> Outcome(q)][s] = Outcome(s)
        /\ [q \in Requests |-> Outcome(q)] = [q \in Requests |-> "unopened"]
    BY DEF Ledger!Init
  <2>2. QED  BY <2>1
<1>2. ASSUME NEW m \in Models
      PROVE  /\ metrics.stream_errors_total[m] = Cardinality(Ended("failed", m))
             /\ metrics.stream_cancellations_total[m]
                  = Cardinality(Ended("cancelled", m))
  <2>1. Ended("failed", m) = {} /\ Ended("cancelled", m) = {}
    BY <1>1 DEF Ended
  <2>2. QED  BY <2>1, FS_EmptySet DEF Ledger!Init
<1>3. QED  BY <1>1, <1>2 DEF LedgerInv, OpenOwned, Counted, Ledger!Init

\* Every step of the ledger keeps its counts.
LEMMA LedgerNext ==
  ASSUME LedgerInv, [Ledger!Next]_(Ledger!vars)
  PROVE  LedgerInv'
<1>1. CASE UNCHANGED Ledger!vars
  <2>1. \A q \in Requests : Outcome(q)' = Outcome(q) /\ Owner(q)' = Owner(q)
    BY <1>1, EntriesKept
  <2>2. \A result \in {"failed", "cancelled"}, m \in Models :
          Ended(result, m)' = Ended(result, m)
    BY <2>1 DEF Ended
  <2>3. QED  BY <1>1, <2>1, <2>2 DEF LedgerInv, OpenOwned, Counted, Ledger!vars
<1>2. ASSUME NEW s \in Requests, NEW m \in Models, Ledger!Open(s, m)
      PROVE  LedgerInv'
  <2>1. /\ Outcome(s) = "unopened" /\ Outcome(s)' = "open" /\ Owner(s)' = m
        /\ \A q \in Requests \ {s} : Outcome(q)' = Outcome(q) /\ Owner(q)' = Owner(q)
    BY <1>2, OpeningOfOne
  <2>2. \A result \in {"failed", "cancelled"}, n \in Models :
          Ended(result, n)' = Ended(result, n)
    BY <2>1 DEF Ended
  <2>3. OpenOwned'
    BY <2>1 DEF LedgerInv, OpenOwned
  <2>4. QED  BY <1>2, <2>2, <2>3 DEF LedgerInv, Counted, Ledger!Open
<1>3. ASSUME NEW s \in Requests, NEW result \in {"completed", "failed", "cancelled"},
             Ledger!End(s, result)
      PROVE  Owner(s) \in Models /\ OpenOwned'
  BY <1>3, EndOfOne DEF LedgerInv, OpenOwned
<1>4. ASSUME NEW s \in Requests, Ledger!Complete(s)
      PROVE  LedgerInv'
  BY <1>3, <1>4, EndMovesOne DEF LedgerInv, Counted, Ledger!Complete
<1>5. ASSUME NEW s \in Requests, Ledger!Fail(s)
      PROVE  LedgerInv'
  <2>1. Ledger!End(s, "failed")
    BY <1>5 DEF Ledger!Fail
  <2>2. [q \in Requests |-> Owner(q)][s] = Owner(s)
    OBVIOUS
  <2>3. /\ metrics'.stream_errors_total =
             [metrics.stream_errors_total EXCEPT ![Owner(s)] = @ + 1]
        /\ metrics'.stream_cancellations_total = metrics.stream_cancellations_total
    BY <1>5, <2>2 DEF Ledger!Fail
  <2>4. QED  BY <1>3, <2>1, <2>3, EndMovesOne DEF LedgerInv, Counted
<1>6. ASSUME NEW s \in Requests, Ledger!Cancel(s)
      PROVE  LedgerInv'
  <2>1. Ledger!End(s, "cancelled")
    BY <1>6 DEF Ledger!Cancel
  <2>2. [q \in Requests |-> Owner(q)][s] = Owner(s)
    OBVIOUS
  <2>3. /\ metrics'.stream_cancellations_total =
             [metrics.stream_cancellations_total EXCEPT ![Owner(s)] = @ + 1]
        /\ metrics'.stream_errors_total = metrics.stream_errors_total
    BY <1>6, <2>2 DEF Ledger!Cancel
  <2>4. QED  BY <1>3, <2>1, <2>3, EndMovesOne DEF LedgerInv, Counted
<1>7. QED  BY <1>1, <1>2, <1>4, <1>5, <1>6 DEF Ledger!Next

\* Whatever implements the ledger counts its streams: each counter is the
\* number of streams that ended that way.
THEOREM LedgerAccounted == StreamLedgerSpec => []StreamsAccounted
<1>1. LedgerInv => StreamsAccounted
  BY CountedIsAccounted DEF LedgerInv
<1>2. LedgerInv /\ [Ledger!Next]_(Ledger!vars) => LedgerInv'
  BY LedgerNext
<1>3. QED
  BY <1>1, <1>2, LedgerInit, PTL DEF StreamLedgerSpec, Ledger!Spec

\* The stream counters are exact: each model's errors and cancellations equal
\* the number of its streams that ended that way.
THEOREM ServingCountsStreams == Spec => []StreamsAccounted
BY ServingImplementsLedger, LedgerAccounted, PTL

-----------------------------------------------------------------------------
(* The error counters.                                                     *)

\* What the status and the code of a response say of each other and of the
\* request they answer.
Meant(kind, status, code) ==
  /\ status = 502 <=> code = "backend_generation_failed"
  /\ status = 502 => kind = "chat"
  /\ kind = "unrouted" => code = Blank
  /\ kind = "wrong_method" => status = 405 /\ code = Blank
  /\ kind \notin {"unrouted", "wrong_method"} =>
       status # 405 /\ (status = 200 <=> code = Blank)

\* Every response on its way to the middleware is meant.
ReplyInv ==
  \A r \in Requests :
    pc[r] = "answering" => Meant(req[r].kind, reply[r].status, reply[r].code)

\* What an answer leaves in the response.
LEMMA AnswerOfOne ==
  ASSUME TypeOK, NEW r \in Requests, NEW from, NEW status, NEW code,
         Answer(r, from, status, code)
  PROVE  /\ req' = req /\ pc' = [pc EXCEPT ![r] = "answering"] /\ pc[r] = from
         /\ reply'[r].status = status /\ reply'[r].code = code
         /\ \A q \in Requests \ {r} : reply'[q] = reply[q]
BY DEF TypeOK, Answer, Goto

\* The step of the handlers and of the backend that do not answer.
Unanswered(r) ==
  AskBackend(r) \/ Generate(r) \/ RecordResponse(r) \/ ListModelsRaises(r)

\* The others answer what is meant, and 502 exactly when generate() raised.
LEMMA AnswersMeant ==
  ASSUME TypeOK, NEW r \in Requests, HandlerStep(r) \/ BackendReply(r), ~Unanswered(r)
  PROVE  /\ req' = req /\ pc' = [pc EXCEPT ![r] = "answering"]
         /\ pc[r] \in {"routing", "awaiting"}
         /\ \A q \in Requests \ {r} : reply'[q] = reply[q]
         /\ Meant(req[r].kind, reply'[r].status, reply'[r].code)
         /\ GenerateRaises(r) <=> reply'[r].status = 502
<1> DEFINE Goal ==
      /\ req' = req /\ pc' = [pc EXCEPT ![r] = "answering"]
      /\ pc[r] \in {"routing", "awaiting"}
      /\ \A q \in Requests \ {r} : reply'[q] = reply[q]
      /\ Meant(req[r].kind, reply'[r].status, reply'[r].code)
      /\ GenerateRaises(r) <=> reply'[r].status = 502
<1> SUFFICES Goal  OBVIOUS
<1>0. /\ Blank # "request_validation_failed" /\ Blank # "model_not_allowed"
      /\ Blank # "backend_not_ready" /\ Blank # "backend_generation_failed"
      /\ Blank # "http_error"
  BY BlankIsNoCode DEF ErrorCodes
<1>1. GenerateRaises(r) => reply'[r].status = 502
  BY AnswerOfOne DEF GenerateRaises
<1>2. ASSUME NEW from \in {"routing", "awaiting"}, NEW status, NEW code,
             Answer(r, from, status, code), Meant(req[r].kind, status, code),
             status # 502 \/ GenerateRaises(r)
      PROVE  Goal
  BY <1>1, <1>2, AnswerOfOne
<1> HIDE DEF Goal
<1>3. CASE AnswerLocally(r)
  <2>1. Answer(r, "routing", 200, Blank)
    BY <1>3 DEF AnswerLocally, Blank
  <2>2. req[r].kind \in {"live", "snapshot"}
    BY <1>3 DEF AnswerLocally
  <2>3. Meant(req[r].kind, 200, Blank)
    BY <1>0, <2>2 DEF Meant
  <2>4. QED  BY <1>1, <1>2, <2>1, <2>3
<1>4. CASE AnswerUnrouted(r)
  <2>1. PICK status \in {200, 307, 404, 405} : Answer(r, "routing", status, Blank)
    BY <1>4 DEF AnswerUnrouted, Blank
  <2>2. req[r].kind \in {"unrouted"}
    BY <1>4 DEF AnswerUnrouted
  <2>3. Meant(req[r].kind, status, Blank) /\ status # 502
    BY <1>0, <2>2 DEF Meant
  <2>4. QED  BY <1>1, <1>2, <2>1, <2>3
<1>4a. CASE AnswerWrongMethod(r)
  <2>1. Answer(r, "routing", 405, Blank)
    BY <1>4a DEF AnswerWrongMethod, Blank
  <2>2. req[r].kind \in {"wrong_method"}
    BY <1>4a DEF AnswerWrongMethod
  <2>3. Meant(req[r].kind, 405, Blank)
    BY <1>0, <2>2 DEF Meant
  <2>4. QED  BY <1>1, <1>2, <2>1, <2>3
<1>4b. CASE RejectUndecodable(r)
  <2>1. Answer(r, "routing", 400, "http_error")
    BY <1>4b DEF RejectUndecodable
  <2>2. req[r].kind \in {"undecodable"}
    BY <1>4b DEF RejectUndecodable
  <2>3. Meant(req[r].kind, 400, "http_error")
    BY <1>0, <2>2 DEF Meant
  <2>4. QED  BY <1>1, <1>2, <2>1, <2>3
<1>5. CASE RejectInvalid(r)
  <2>1. Answer(r, "routing", 422, "request_validation_failed")
    BY <1>5 DEF RejectInvalid
  <2>2. req[r].kind \in {"invalid"}
    BY <1>5 DEF RejectInvalid
  <2>3. Meant(req[r].kind, 422, "request_validation_failed")
    BY <1>0, <2>2 DEF Meant
  <2>4. QED  BY <1>1, <1>2, <2>1, <2>3
<1>6. CASE RefuseModel(r)
  <2>1. Answer(r, "routing", 404, "model_not_allowed")
    BY <1>6 DEF RefuseModel
  <2>2. req[r].kind \in {"chat", "stream"}
    BY <1>6 DEF RefuseModel, ChatKinds
  <2>3. Meant(req[r].kind, 404, "model_not_allowed")
    BY <1>0, <2>2 DEF Meant
  <2>4. QED  BY <1>1, <1>2, <2>1, <2>3
<1>7. CASE OpenStream(r)
  <2>1. Answer(r, "routing", 200, Blank)
    BY <1>7 DEF OpenStream, Blank
  <2>2. req[r].kind \in {"stream"}
    BY <1>7 DEF OpenStream
  <2>3. Meant(req[r].kind, 200, Blank)
    BY <1>0, <2>2 DEF Meant
  <2>4. QED  BY <1>1, <1>2, <2>1, <2>3
<1>8. CASE BackendIsReady(r)
  <2>1. Answer(r, "awaiting", 200, Blank)
    BY <1>8 DEF BackendIsReady, Blank
  <2>2. req[r].kind \in {"ready"}
    BY <1>8 DEF BackendIsReady
  <2>3. Meant(req[r].kind, 200, Blank)
    BY <1>0, <2>2 DEF Meant
  <2>4. QED  BY <1>1, <1>2, <2>1, <2>3
<1>9. CASE BackendNotReady(r)
  <2>1. Answer(r, "awaiting", 503, "backend_not_ready")
    BY <1>9 DEF BackendNotReady
  <2>2. req[r].kind \in {"ready"}
    BY <1>9 DEF BackendNotReady
  <2>3. Meant(req[r].kind, 503, "backend_not_ready")
    BY <1>0, <2>2 DEF Meant
  <2>4. QED  BY <1>1, <1>2, <2>1, <2>3
<1>10. ASSUME NEW models \in {{}, BackendModels}, ListModelsReturns(r, models)
       PROVE  Goal
  <2>1. Answer(r, "awaiting", 200, Blank)
    BY <1>10 DEF ListModelsReturns, Blank
  <2>2. req[r].kind \in {"models"}
    BY <1>10 DEF ListModelsReturns
  <2>3. Meant(req[r].kind, 200, Blank)
    BY <1>0, <2>2 DEF Meant
  <2>4. QED  BY <1>1, <1>2, <2>1, <2>3
<1>11. ASSUME NEW count \in TokenCounts, GenerateReturns(r, count)
       PROVE  Goal
  <2>1. Answer(r, "awaiting", 200, Blank)
    BY <1>11 DEF GenerateReturns, Blank
  <2>2. req[r].kind \in {"chat"}
    BY <1>11 DEF GenerateReturns
  <2>3. Meant(req[r].kind, 200, Blank)
    BY <1>0, <2>2 DEF Meant
  <2>4. QED  BY <1>1, <1>2, <2>1, <2>3
<1>12. CASE GenerateRaises(r)
  <2>1. Answer(r, "awaiting", 502, "backend_generation_failed")
    BY <1>12 DEF GenerateRaises
  <2>2. req[r].kind \in {"chat"}
    BY <1>12 DEF GenerateRaises
  <2>3. Meant(req[r].kind, 502, "backend_generation_failed")
    BY <1>0, <2>2 DEF Meant
  <2>4. QED  BY <1>1, <1>2, <2>1, <2>3, <1>12
<1>13. QED
  BY <1>3, <1>4, <1>4a, <1>4b, <1>5, <1>6, <1>7, <1>8, <1>9, <1>10, <1>11, <1>12
     DEF HandlerStep, BackendReply, Unanswered

\* Steps outside the handlers answer nothing.
LEMMA RepliesKept ==
  ASSUME TypeOK, NEW r \in Requests, RequestStep(r), ~HandlerStep(r), ~BackendReply(r)
  PROVE  /\ reply' = reply
         /\ \A q \in Requests :
              pc'[q] = "answering" => pc[q] = "answering" /\ req'[q] = req[q]
         /\ \A q \in Requests :
              pc[q] = "answering" /\ pc'[q] # "answering" => DropGenerator(r) /\ q = r
<1>1. ASSUME NEW kind \in Kinds, NEW model \in Models \cup {NoModel},
             Arrive(r, kind, model)
      PROVE  /\ reply' = reply /\ pc[r] = "new" /\ pc'[r] = "routing"
             /\ \A q \in Requests \ {r} : pc'[q] = pc[q] /\ req'[q] = req[q]
  BY <1>1 DEF Arrive, TypeOK
<1>2. CASE StreamStep(r) \/ ClientStep(r)
  BY <1>2, ClientFrame DEF StreamStep, YieldRole, AwaitChunk, YieldContent, YieldStop,
     YieldError, YieldDone, Exhaust, Yield, streamFrame
<1>3. CASE Teardown(r)
  BY <1>3 DEF Teardown, CancelAwait, DropGenerator, FinaliseGenerator, Goto, TypeOK
<1>4. QED  BY <1>1, <1>2, <1>3 DEF RequestStep

\* What the steps of a handler that do not answer leave alone.
LEMMA UnansweredKeeps ==
  ASSUME TypeOK, NEW r \in Requests, Unanswered(r)
  PROVE  /\ req' = req /\ reply' = reply
         /\ \A q \in Requests \ {r} : pc'[q] = pc[q]
         /\ pc'[r] # "answering"
         /\ pc[r] = "answering" <=> RecordResponse(r)
BY DEF Unanswered, AskBackend, Generate, RecordResponse, ListModelsRaises, Goto, TypeOK

\* The server's own steps touch no request.
LEMMA ServerKeeps ==
  ASSUME ServerStep \/ UNCHANGED vars
  PROVE  UNCHANGED <<req, pc, reply, metrics>>
BY DEF ServerStep, Load, LoadFails, BeginDrain, CloseBackend, UpstreamFlips,
       requestVars, vars

\* Every step keeps what a reply says.
LEMMA ReplyNext ==
  ASSUME TypeOK, ReplyInv, [Next]_vars
  PROVE  ReplyInv'
<1>1. CASE ServerStep \/ UNCHANGED vars
  BY <1>1, ServerKeeps DEF ReplyInv
<1>2. ASSUME NEW r \in Requests, HandlerStep(r) \/ BackendReply(r), ~Unanswered(r)
      PROVE  ReplyInv'
  <2>1. /\ req' = req /\ pc' = [pc EXCEPT ![r] = "answering"]
        /\ \A q \in Requests \ {r} : reply'[q] = reply[q]
        /\ Meant(req[r].kind, reply'[r].status, reply'[r].code)
    BY <1>2, AnswersMeant
  <2>2. QED  BY <2>1 DEF ReplyInv, TypeOK
<1>3. ASSUME NEW r \in Requests, Unanswered(r)
      PROVE  ReplyInv'
  BY <1>3, UnansweredKeeps DEF ReplyInv
<1>4. ASSUME NEW r \in Requests, RequestStep(r), ~HandlerStep(r), ~BackendReply(r)
      PROVE  ReplyInv'
  BY <1>4, RepliesKept DEF ReplyInv
<1>5. QED  BY <1>1, <1>2, <1>3, <1>4 DEF Next, Stopped, RequestStep

\* The counters that the failures of generate() and the middleware move.
LEMMA ErrorCounters ==
  ASSUME TypeOK, NEW r \in Requests, RequestStep(r)
  PROVE  /\ ~RecordResponse(r) => UNCHANGED <<metrics.requests_total,
                                              metrics.http_errors_total>>
         /\ ~GenerateRaises(r) => UNCHANGED metrics.backend_generation_errors_total
<1> USE DEF record_request, record_http_error, record_generated_text,
            record_backend_generation_error, record_stream_error,
            record_stream_cancellation
<1>0. metrics \in MetricsType
  BY DEF TypeOK
<1>1. CASE HandlerStep(r) /\ ~RecordResponse(r)
  <2>1. metrics' = metrics
    BY <1>1 DEF HandlerStep, AnswerLocally, AnswerUnrouted, AnswerWrongMethod,
       RejectUndecodable, RejectInvalid, AskBackend, RefuseModel, Generate, OpenStream
  <2>2. QED  BY <1>1, <2>1
<1>2. CASE RecordResponse(r)
  BY <1>0, <1>2 DEF RecordResponse, MetricsType
<1>3. CASE BackendReply(r) /\ ~GenerateRaises(r)
  BY <1>0, <1>3 DEF BackendReply, BackendIsReady, BackendNotReady, ListModelsReturns,
     ListModelsRaises, GenerateReturns, MetricsType
<1>4. CASE GenerateRaises(r)
  BY <1>0, <1>4 DEF GenerateRaises, MetricsType
<1>5. CASE StreamStep(r)
  BY <1>0, <1>5 DEF StreamStep, YieldRole, AwaitChunk, YieldContent, YieldStop,
     YieldError, YieldDone, Exhaust, MetricsType
<1>6. CASE Teardown(r) \/ ClientStep(r)
  BY <1>0, <1>6, ClientFrame DEF Teardown, CancelAwait, DropGenerator,
     FinaliseGenerator, MetricsType
<1>7. CASE \E kind \in Kinds, model \in Models \cup {NoModel} : Arrive(r, kind, model)
  BY <1>7 DEF Arrive
<1>8. QED
  BY <1>1, <1>2, <1>3, <1>4, <1>5, <1>6, <1>7 DEF RequestStep

Failure == <<"chat", 502, "backend_generation_failed">>

\* The failures that the middleware has not seen yet.
Pending == {r \in Requests : pc[r] = "answering" /\ reply[r].status = 502}

\* The answers not yet counted are finitely many.
LEMMA PendingFinite == IsFiniteSet(Pending) /\ Cardinality(Pending) \in Nat
<1>1. IsFiniteSet(Pending)
  BY RequestsAssumption, FS_Subset DEF Pending
<1>2. QED  BY <1>1, FS_CardinalityType

\* RecordResponse counts a failure under its key, and nothing else under it.
LEMMA FailureRecorded ==
  ASSUME TypeOK, ReplyInv, NEW r \in Requests, RecordResponse(r)
  PROVE  metrics'.http_errors_total[Failure] =
           metrics.http_errors_total[Failure]
             + (IF r \in Pending THEN 1 ELSE 0)
<1> DEFINE H == metrics.http_errors_total
           key == <<Route(r), reply[r].status, reply[r].code>>
<1>0. Blank # "backend_generation_failed"
  BY BlankIsNoCode DEF ErrorCodes
<1>1. pc[r] = "answering" /\ Meant(req[r].kind, reply[r].status, reply[r].code)
  BY DEF RecordResponse, Goto, ReplyInv
<1>2. metrics'.http_errors_total = IF reply[r].code = Blank THEN H
                                   ELSE [H EXCEPT ![key] = @ + 1]
  BY DEF TypeOK, MetricsType, RecordResponse, record_request, record_http_error, Blank
<1>3. H \in [ErrorKeys -> Nat] /\ Failure \in ErrorKeys
  BY DEF TypeOK, MetricsType, ErrorKeys, Failure, Routes, Statuses, ErrorCodes
<1>4. CASE r \in Pending
  <2>1. key = Failure /\ reply[r].code # Blank
    <3>1. /\ reply[r].status = 502 /\ reply[r].code = "backend_generation_failed"
          /\ req[r].kind = "chat"
      BY <1>1, <1>4 DEF Pending, Meant
    <3>2. req[r].route \in RoutesOf("chat")
      BY <3>1 DEF TypeOK, Payloads
    <3>3. req[r].route = "chat"
      BY <3>2 DEF RoutesOf, Routes
    <3>4. QED  BY <1>0, <3>1, <3>3 DEF Failure, Route
  <2>2. QED  BY <1>2, <1>3, <1>4, <2>1
<1>5. CASE r \notin Pending
  <2>1. reply[r].code # "backend_generation_failed"
    BY <1>1, <1>5 DEF Pending, Meant
  <2>2. key # Failure
    BY <2>1 DEF Failure
  <2>3. QED  BY <1>2, <1>3, <1>5, <2>2
<1>6. QED  BY <1>4, <1>5

\* Every step keeps generation errors and 502 answers together.
LEMMA GenerationErrorsNext ==
  ASSUME TypeOK, GeneratorAtLastEvent, ReplyInv, GenerationErrorsReachHttp, [Next]_vars
  PROVE  GenerationErrorsReachHttp'
<1> DEFINE E == metrics.backend_generation_errors_total
           H == metrics.http_errors_total
<1>0. /\ E \in [Models -> Nat] /\ H \in [ErrorKeys -> Nat] /\ Failure \in ErrorKeys
      /\ SumFunctionOnSet(E, Models) = H[Failure] + Cardinality(Pending)
  BY DEF TypeOK, MetricsType, ErrorKeys, Failure, Routes, Statuses, ErrorCodes,
         GenerationErrorsReachHttp, Pending
<1>1. SUFFICES SumFunctionOnSet(E', Models) = H'[Failure] + Cardinality(Pending')
  BY DEF GenerationErrorsReachHttp, Pending, Failure
<1>2. CASE E' = E /\ H' = H /\ Pending' = Pending
  BY <1>0, <1>2
<1>3. CASE ServerStep \/ UNCHANGED vars
  BY <1>2, <1>3, ServerKeeps DEF Pending
<1>4. ASSUME NEW r \in Requests, GenerateRaises(r)
      PROVE  SumFunctionOnSet(E', Models) = H'[Failure] + Cardinality(Pending')
  <2>1. /\ pc' = [pc EXCEPT ![r] = "answering"] /\ pc[r] = "awaiting"
        /\ reply'[r].status = 502 /\ \A q \in Requests \ {r} : reply'[q] = reply[q]
    BY <1>4, AnswerOfOne DEF GenerateRaises
  <2>2. r \notin Pending /\ Pending' = Pending \cup {r}
    BY <2>1 DEF Pending, TypeOK
  <2>3. Cardinality(Pending') = Cardinality(Pending) + 1
    BY <2>2, PendingFinite, FS_AddElement
  <2>4. E' = [E EXCEPT ![req[r].model] = @ + 1] /\ H' = H
    BY <1>4 DEF GenerateRaises, record_backend_generation_error, TypeOK, MetricsType
  <2>5. req[r].model \in Models
    BY <1>4 DEF GenerateRaises, Payloads, ChatKinds, TypeOK
  <2> HIDE DEF E, H
  <2>6. SumFunctionOnSet(E', Models) = SumFunctionOnSet(E, Models) + 1
    <3>1. /\ \A m \in Models : E[m] \in Nat
          /\ \A m \in Models \ {req[r].model} : E'[m] = E[m]
          /\ E'[req[r].model] = E[req[r].model] + 1
      BY <1>0, <2>4, <2>5
    <3>2. IsFiniteSet(Models) /\ 1 \in Nat
      BY ModelsAssumption
    <3>3. QED  BY <2>5, <3>1, <3>2, SumOfChange
  <2>7. QED  BY <1>0, <2>3, <2>4, <2>6, PendingFinite
<1>5. ASSUME NEW r \in Requests, RecordResponse(r)
      PROVE  SumFunctionOnSet(E', Models) = H'[Failure] + Cardinality(Pending')
  <2>1. pc[r] = "answering" /\ pc' = [pc EXCEPT ![r] = "recorded"] /\ reply' = reply
    BY <1>5 DEF RecordResponse, Goto
  <2>2. Pending' = Pending \ {r}
    BY <2>1 DEF Pending, TypeOK
  <2>3. Cardinality(Pending') = Cardinality(Pending) - (IF r \in Pending THEN 1 ELSE 0)
    BY <2>2, PendingFinite, FS_RemoveElement
  <2>4. H'[Failure] = H[Failure] + (IF r \in Pending THEN 1 ELSE 0)
    BY <1>5, FailureRecorded
  <2>5. E' = E
    BY <1>5 DEF RecordResponse, record_request, record_http_error, TypeOK, MetricsType
  <2> HIDE DEF E, H
  <2>6. QED  BY <1>0, <2>3, <2>4, <2>5, PendingFinite
<1>6. ASSUME NEW r \in Requests, RequestStep(r), ~GenerateRaises(r), ~RecordResponse(r)
      PROVE  E' = E /\ H' = H /\ Pending' = Pending
  <2>1. E' = E /\ H' = H
    BY <1>6, ErrorCounters
  <2>2. ASSUME NEW q \in Requests PROVE q \in Pending' <=> q \in Pending
    <3>1. CASE (HandlerStep(r) \/ BackendReply(r)) /\ ~Unanswered(r)
      <4>1. /\ pc' = [pc EXCEPT ![r] = "answering"] /\ pc[r] \in {"routing", "awaiting"}
            /\ reply'[r].status # 502
            /\ \A p \in Requests \ {r} : reply'[p] = reply[p]
        BY <1>6, <3>1, AnswersMeant
      <4>2. \A p \in Requests \ {r} : pc'[p] = pc[p]
        BY <4>1 DEF TypeOK
      <4>3. CASE q = r
        BY <4>1, <4>3 DEF Pending
      <4>4. CASE q # r
        BY <4>1, <4>2, <4>4 DEF Pending
      <4>5. QED  BY <4>3, <4>4
    <3>2. CASE Unanswered(r)
      BY <1>6, <3>2, UnansweredKeeps DEF Pending
    <3>3. CASE ~HandlerStep(r) /\ ~BackendReply(r)
      <4>1. reply' = reply
            /\ (pc'[q] = "answering" => pc[q] = "answering")
            /\ (pc[q] = "answering" /\ pc'[q] # "answering" => DropGenerator(r) /\ q = r)
        BY <1>6, <3>3, RepliesKept
      <4>2. CASE pc[q] = "answering" /\ pc'[q] # "answering"
        <5>1. req[q].kind = "stream"
          BY <4>1, <4>2 DEF DropGenerator, GeneratorAtLastEvent, AtLastEvent
        <5>2. reply[q].status # 502
          BY <4>2, <5>1 DEF ReplyInv, Meant
        <5>3. QED  BY <4>1, <4>2, <5>2 DEF Pending
      <4>3. QED  BY <4>1, <4>2 DEF Pending
    <3>4. QED  BY <3>1, <3>2, <3>3
  <2>3. QED  BY <2>1, <2>2 DEF Pending
<1>7. QED  BY <1>2, <1>3, <1>4, <1>5, <1>6 DEF Next, Stopped

\* Every failure of backend.generate() that the handler counted is, or will be
\* by a response that is on its way, a 502 entry of http_errors_total.
THEOREM GenerationErrorsAlwaysReachHttp == Spec => []GenerationErrorsReachHttp
<1>1. Init => ReplyInv
  BY DEF Init, ReplyInv
<1>2. Init => GenerationErrorsReachHttp
  <2> SUFFICES ASSUME Init PROVE GenerationErrorsReachHttp  OBVIOUS
  <2>1. Pending = {} /\ metrics = InMemoryMetrics
    BY DEF Init, Pending
  <2> DEFINE E == metrics.backend_generation_errors_total
  <2>2. E = [m \in Models |-> 0] /\ metrics.http_errors_total[Failure] = 0
    BY <2>1 DEF InMemoryMetrics, Failure, ErrorKeys, Routes, Statuses, ErrorCodes
  <2>3. SumFunctionOnSet(E, Models) = 0
    BY <2>2, ModelsAssumption, SumOfZeros
  <2>4. 0 = metrics.http_errors_total[Failure] + Cardinality(Pending)
    BY <2>1, <2>2, FS_EmptySet
  <2>5. QED  BY <2>3, <2>4 DEF GenerationErrorsReachHttp, Pending, Failure
<1>3. TypeOK /\ ReplyInv /\ [Next]_vars => ReplyInv'
  BY ReplyNext
<1>4. TypeOK /\ GeneratorAtLastEvent /\ ReplyInv /\ GenerationErrorsReachHttp /\ [Next]_vars
        => GenerationErrorsReachHttp'
  BY GenerationErrorsNext
<1>5. QED  BY <1>1, <1>2, <1>3, <1>4, ServingTypeCorrect, PTL DEF Spec

CodeKeys(route, status) == {<<route, status, code>> : code \in ErrorCodes}

\* The counters of a route and status are finitely many.
LEMMA CodeKeysFinite ==
  ASSUME NEW route \in Routes, NEW status \in Statuses
  PROVE  IsFiniteSet(CodeKeys(route, status)) /\ CodeKeys(route, status) \subseteq ErrorKeys
<1> DEFINE K(code) == <<route, status, code>>
           one == {K("request_validation_failed")}
           two == one \cup {K("model_not_allowed")}
           three == two \cup {K("backend_not_ready")}
           four == three \cup {K("backend_generation_failed")}
           five == four \cup {K("http_error")}
<1>1. CodeKeys(route, status) = five
  BY DEF CodeKeys, ErrorCodes
<1> HIDE DEF K
<1>2. IsFiniteSet(one)
  BY FS_Singleton
<1> HIDE DEF one
<1>3. IsFiniteSet(two)
  BY <1>2, FS_AddElement
<1> HIDE DEF two
<1>4. IsFiniteSet(three)
  BY <1>3, FS_AddElement
<1> HIDE DEF three
<1>5. IsFiniteSet(four)
  BY <1>4, FS_AddElement
<1> HIDE DEF four
<1>6. IsFiniteSet(five)
  BY <1>5, FS_AddElement
<1> HIDE DEF five
<1>7. CodeKeys(route, status) \subseteq ErrorKeys
  BY DEF CodeKeys, ErrorKeys
<1>8. QED  BY <1>1, <1>6, <1>7

\* The error entries of a route and status, and the requests they stand for.
Coded(route, status) ==
  SumFunctionOnSet(metrics.http_errors_total, CodeKeys(route, status))

\* RecordResponse adds a request of a route and status, and one error entry of
\* them if the response has a code.
LEMMA ResponseRecorded ==
  ASSUME TypeOK, ReplyInv, NEW r \in Requests, RecordResponse(r),
         NEW route \in Routes, NEW status \in Statuses
  PROVE  LET mine == route = Route(r) /\ status = reply[r].status
         IN  /\ metrics'.requests_total[<<route, status>>] =
                  metrics.requests_total[<<route, status>>] + (IF mine THEN 1 ELSE 0)
             /\ Coded(route, status)' = Coded(route, status)
                  + (IF mine /\ reply[r].code # Blank THEN 1 ELSE 0)
<1> DEFINE Q == metrics.requests_total
           H == metrics.http_errors_total
           mine == route = Route(r) /\ status = reply[r].status
           key == <<Route(r), reply[r].status, reply[r].code>>
           K == CodeKeys(route, status)
<1>1. Q \in [RequestKeys -> Nat] /\ H \in [ErrorKeys -> Nat]
  BY DEF TypeOK, MetricsType
<1>2. /\ metrics'.requests_total = [Q EXCEPT ![<<Route(r), reply[r].status>>] = @ + 1]
      /\ metrics'.http_errors_total = IF reply[r].code = Blank THEN H
                                      ELSE [H EXCEPT ![key] = @ + 1]
  BY DEF TypeOK, MetricsType, RecordResponse, record_request, record_http_error, Blank
<1>3. <<route, status>> \in RequestKeys
  BY DEF RequestKeys
<1>4. metrics'.requests_total[<<route, status>>] = Q[<<route, status>>]
                                                     + (IF mine THEN 1 ELSE 0)
  BY <1>1, <1>2, <1>3
<1> SUFFICES Coded(route, status)' = Coded(route, status)
                    + (IF mine /\ reply[r].code # Blank THEN 1 ELSE 0)
  BY <1>4
<1>5. Coded(route, status)' = SumFunctionOnSet(metrics'.http_errors_total, K)
  BY DEF Coded, CodeKeys
<1>6. IsFiniteSet(K) /\ K \subseteq ErrorKeys /\ \A k \in K : H[k] \in Nat
  BY <1>1, CodeKeysFinite
<1>7. SumFunctionOnSet(H, K) \in Nat
  BY <1>6, SumIsNatural
<1>8. CASE reply[r].code = Blank
  BY <1>2, <1>5, <1>7, <1>8 DEF Coded
<1>9. CASE reply[r].code # Blank /\ mine
  <2>1. reply[r].code \in ErrorCodes
    BY <1>9 DEF TypeOK, Replies, Blank
  <2>2. key \in K
    BY <1>9, <2>1 DEF CodeKeys
  <2> DEFINE G == metrics'.http_errors_total
  <2>3. (\A k \in K \ {key} : G[k] = H[k]) /\ G[key] = H[key] + 1 /\ 1 \in Nat
    BY <1>1, <1>2, <1>6, <1>9, <2>2
  <2> HIDE DEF G, H, K, key
  <2>4. SumFunctionOnSet(G, K) = SumFunctionOnSet(H, K) + 1
    BY <1>6, <2>2, <2>3, SumOfChange
  <2>5. QED  BY <1>5, <1>9, <2>4 DEF Coded, G, H, K
<1>10. CASE reply[r].code # Blank /\ ~mine
  <2>1. key \notin K
    BY <1>10 DEF CodeKeys
  <2> DEFINE G == metrics'.http_errors_total
  <2>2. \A k \in K : H[k] = G[k] /\ H[k] \in Nat
    BY <1>1, <1>2, <1>6, <1>10, <2>1
  <2> HIDE DEF G, H, K
  <2>3. SumFunctionOnSet(H, K) = SumFunctionOnSet(G, K)
    BY <1>6, <2>2, SumOfSame
  <2>4. QED  BY <1>5, <1>7, <1>10, <2>3 DEF Coded, G, H, K
<1>11. QED  BY <1>8, <1>9, <1>10

Explained(route, status) ==
  Coded(route, status) = IF route = "unrouted" \/ status = 405 THEN 0
                         ELSE metrics.requests_total[<<route, status>>]

\* Every step keeps HTTP errors explained by error codes.
LEMMA ExplainedNext ==
  ASSUME TypeOK, ReplyInv, [Next]_vars,
         NEW route \in Routes, NEW status \in Statuses \ {200}, Explained(route, status)
  PROVE  Explained(route, status)'
<1>1. CASE UNCHANGED <<metrics.requests_total, metrics.http_errors_total>>
  BY <1>1 DEF Explained, Coded, CodeKeys
<1>2. CASE ServerStep \/ UNCHANGED vars
  BY <1>1, <1>2, ServerKeeps
<1>3. ASSUME NEW r \in Requests, RecordResponse(r)
      PROVE  Explained(route, status)'
  <2> DEFINE mine == route = Route(r) /\ status = reply[r].status
  <2>1. /\ metrics'.requests_total[<<route, status>>] =
             metrics.requests_total[<<route, status>>] + (IF mine THEN 1 ELSE 0)
        /\ Coded(route, status)' = Coded(route, status)
             + (IF mine /\ reply[r].code # Blank THEN 1 ELSE 0)
    BY <1>3, ResponseRecorded
  <2>2. Meant(req[r].kind, reply[r].status, reply[r].code)
    BY <1>3 DEF RecordResponse, Goto, ReplyInv
  <2>3. Route(r) = "unrouted" <=> req[r].kind = "unrouted"
    BY DEF Route, Payloads, RoutesOf, Routes, TypeOK
  <2>4. mine => (reply[r].code = Blank <=> route = "unrouted" \/ status = 405)
    BY <2>2, <2>3 DEF Meant
  <2>5. /\ Coded(route, status) \in Nat
        /\ metrics.requests_total[<<route, status>>] \in Nat
    <3>1. metrics.requests_total \in [RequestKeys -> Nat]
          /\ metrics.http_errors_total \in [ErrorKeys -> Nat]
      BY DEF TypeOK, MetricsType
    <3>2. QED  BY <3>1, CodeKeysFinite, SumIsNatural DEF RequestKeys, Coded
  <2>6. QED  BY <2>1, <2>4, <2>5 DEF Explained
<1>4. ASSUME NEW r \in Requests, RequestStep(r), ~RecordResponse(r)
      PROVE  Explained(route, status)'
  BY <1>1, <1>4, ErrorCounters
<1>5. QED  BY <1>2, <1>3, <1>4 DEF Next, Stopped

\* The error entries of every route and status sum to its requests: a recorded
\* error response has exactly one code, and one of the router has none.
THEOREM HttpErrorsAlwaysExplained == Spec => []HttpErrorsExplained
<1> DEFINE Inv == \A route \in Routes, status \in Statuses \ {200} : Explained(route, status)
<1>1. Init => ReplyInv
  BY DEF Init, ReplyInv
<1>2. Init => Inv
  <2> SUFFICES ASSUME Init, NEW route \in Routes, NEW status \in Statuses \ {200}
               PROVE  Explained(route, status)
    OBVIOUS
  <2> DEFINE H == metrics.http_errors_total
  <2>1. H = [k \in ErrorKeys |-> 0] /\ metrics.requests_total = [k \in RequestKeys |-> 0]
    BY DEF Init, InMemoryMetrics
  <2>2. IsFiniteSet(CodeKeys(route, status)) /\ \A k \in CodeKeys(route, status) : H[k] = 0
    BY <2>1, CodeKeysFinite
  <2> HIDE DEF H
  <2>3. SumFunctionOnSet(H, CodeKeys(route, status)) = 0
    BY <2>2, SumOfZeros
  <2>4. metrics.requests_total[<<route, status>>] = 0
    BY <2>1 DEF RequestKeys
  <2>5. QED  BY <2>3, <2>4 DEF Explained, Coded, H
<1>3. TypeOK /\ ReplyInv /\ [Next]_vars => ReplyInv'
  BY ReplyNext
<1>4. TypeOK /\ ReplyInv /\ Inv /\ [Next]_vars => Inv'
  BY ExplainedNext
<1>5. Inv <=> HttpErrorsExplained
  BY DEF Explained, Coded, CodeKeys, HttpErrorsExplained
<1>6. QED  BY <1>1, <1>2, <1>3, <1>4, <1>5, ServingTypeCorrect, PTL DEF Spec

-----------------------------------------------------------------------------
(* The allowlist.                                                          *)

Gated(r) ==
  /\ pc[r] = "new" => gen[r] = "none" /\ reply[r] = OK
  /\ gen[r] # "none" => _ensure_model_allowed(req[r].model)
  /\ reply[r].code = "model_not_allowed" => ~_ensure_model_allowed(req[r].model)

\* AllowlistHolds, with what makes it inductive: a request that has a generator
\* passed the gate, one that was refused did not, and only allowed models are
\* called or listed.
GateInv ==
  /\ \A r \in Requests : Gated(r)
  /\ \A m \in called \cup listed : _ensure_model_allowed(m)

\* Initially nothing has been called or listed.
LEMMA GateInit == Init => GateInv
<1> SUFFICES ASSUME Init PROVE GateInv  OBVIOUS
<1>1. ASSUME NEW r \in Requests PROVE Gated(r)
  <2>1. pc[r] = "new" /\ gen[r] = "none" /\ reply[r] = OK
    BY DEF Init
  <2>2. OK.code # "model_not_allowed"
    BY DEF OK
  <2>3. QED  BY <2>1, <2>2 DEF Gated
<1>2. called \cup listed = {}
  BY DEF Init
<1>3. QED  BY <1>1, <1>2 DEF GateInv

\* An answer of any kind keeps every request gated, if a refusal is justified
\* and a generator is created for an allowed model only.
LEMMA AnswerGated ==
  ASSUME TypeOK, GateInv, NEW r \in Requests,
         req' = req, pc' = [pc EXCEPT ![r] = "answering"],
         \A q \in Requests \ {r} : reply'[q] = reply[q],
         reply'[r].code = "model_not_allowed" => ~_ensure_model_allowed(req[r].model),
         \/ gen' = gen
         \/ /\ gen' = [gen EXCEPT ![r] = "created"]
            /\ _ensure_model_allowed(req[r].model)
  PROVE  \A q \in Requests : Gated(q)'
<1>1. ASSUME NEW q \in Requests PROVE Gated(q)'
  <2>1. Gated(q)
    BY DEF GateInv
  <2>2. CASE q = r
    BY <2>1, <2>2 DEF Gated, TypeOK
  <2>3. CASE q # r
    BY <2>1, <2>3 DEF Gated, TypeOK
  <2>4. QED  BY <2>2, <2>3
<1>2. QED  BY <1>1

\* Every step keeps the gate closed to models outside the allowlist.
LEMMA GateNext ==
  ASSUME TypeOK, GateInv, [Next]_vars
  PROVE  GateInv'
<1>1. CASE UNCHANGED <<req, pc, reply, gen, called, listed>>
  BY <1>1 DEF GateInv, Gated
<1>2. ASSUME NEW r \in Requests,
             \/ AnswerLocally(r) \/ AnswerUnrouted(r) \/ AnswerWrongMethod(r)
             \/ RejectUndecodable(r) \/ RejectInvalid(r)
             \/ BackendIsReady(r) \/ BackendNotReady(r) \/ RefuseModel(r)
             \/ (\E n \in TokenCounts : GenerateReturns(r, n)) \/ GenerateRaises(r)
      PROVE  GateInv'
  <2>1. UNCHANGED <<gen, called, listed>>
    BY <1>2 DEF AnswerLocally, AnswerUnrouted, AnswerWrongMethod, RejectUndecodable,
       RejectInvalid, BackendIsReady, BackendNotReady, RefuseModel, GenerateReturns, GenerateRaises, streamVars,
       modelVars
  <2>2. req' = req /\ pc' = [pc EXCEPT ![r] = "answering"]
        /\ \A q \in Requests \ {r} : reply'[q] = reply[q]
    <3>1. \A q \in Requests \ {r} : reply'[q] = reply[q]
      BY <1>2, HandlerFrame DEF Handled, HandlerStep, BackendReply
    <3>2. req' = req /\ pc' = [pc EXCEPT ![r] = "answering"]
      <4>1. CASE \/ AnswerLocally(r) \/ AnswerUnrouted(r) \/ AnswerWrongMethod(r)
                 \/ RejectUndecodable(r) \/ RejectInvalid(r)
        BY <4>1 DEF AnswerLocally, AnswerUnrouted, AnswerWrongMethod, RejectUndecodable,
           RejectInvalid, Answer, Goto
      <4>2. CASE BackendIsReady(r) \/ BackendNotReady(r) \/ RefuseModel(r)
        BY <4>2 DEF BackendIsReady, BackendNotReady, RefuseModel, Answer, Goto
      <4>3. CASE (\E n \in TokenCounts : GenerateReturns(r, n)) \/ GenerateRaises(r)
        BY <4>3 DEF GenerateReturns, GenerateRaises, Answer, Goto
      <4>4. QED  BY <1>2, <4>1, <4>2, <4>3
    <3>3. QED  BY <3>1, <3>2
  <2>3. RefuseModel(r) => ~_ensure_model_allowed(req[r].model)
    BY DEF RefuseModel
  <2>4. RefuseModel(r) \/ reply'[r].code # "model_not_allowed"
    <3>0. CASE AnswerLocally(r)
      BY <3>0 DEF AnswerLocally, Answer, TypeOK
    <3>1. CASE AnswerUnrouted(r)
      <4>1. PICK s \in {200, 307, 404, 405} : Answer(r, "routing", s, Blank)
        BY <3>1 DEF AnswerUnrouted, Blank
      <4>2. reply' = [reply EXCEPT ![r] = [status |-> s, code |-> Blank]]
        BY <4>1 DEF Answer
      <4>3. reply'[r].code = Blank
        BY <4>2 DEF TypeOK
      <4>4. QED  BY <4>3, BlankIsNoCode DEF ErrorCodes
    <3>1a. CASE AnswerWrongMethod(r)
      BY <3>1a DEF AnswerWrongMethod, Answer, TypeOK
    <3>1b. CASE RejectUndecodable(r)
      BY <3>1b DEF RejectUndecodable, Answer, TypeOK
    <3>2. CASE RejectInvalid(r)
      BY <3>2 DEF RejectInvalid, Answer, TypeOK
    <3>3. CASE BackendIsReady(r)
      BY <3>3 DEF BackendIsReady, Answer, TypeOK
    <3>4. CASE BackendNotReady(r)
      BY <3>4 DEF BackendNotReady, Answer, TypeOK
    <3>5. ASSUME NEW n \in TokenCounts, GenerateReturns(r, n)
          PROVE  reply'[r].code # "model_not_allowed"
      BY <3>5 DEF GenerateReturns, Answer, TypeOK
    <3>6. CASE GenerateRaises(r)
      BY <3>6 DEF GenerateRaises, Answer, TypeOK
    <3>7. QED  BY <1>2, <3>0, <3>1, <3>1a, <3>1b, <3>2, <3>3, <3>4, <3>5, <3>6
  <2>5. reply'[r].code = "model_not_allowed" => ~_ensure_model_allowed(req[r].model)
    BY <2>3, <2>4
  <2>6. \A q \in Requests : Gated(q)'
    BY <2>1, <2>2, <2>5, AnswerGated
  <2>7. QED  BY <2>1, <2>6 DEF GateInv
<1>4. ASSUME NEW r \in Requests, NEW models \in {{}, BackendModels},
             ListModelsReturns(r, models)
      PROVE  GateInv'
  <2>1. \A m \in listed' : _ensure_model_allowed(m)
    BY <1>4 DEF GateInv, ListModelsReturns, _filter_allowed_models, _ensure_model_allowed
  <2>2. /\ UNCHANGED <<gen, called, req>> /\ pc' = [pc EXCEPT ![r] = "answering"]
        /\ reply'[r].code = "" /\ \A q \in Requests \ {r} : reply'[q] = reply[q]
    BY <1>4 DEF ListModelsReturns, Answer, Goto, streamVars, TypeOK
  <2>3. \A q \in Requests : Gated(q)'
    BY <2>2, AnswerGated
  <2>4. QED  BY <2>1, <2>2, <2>3 DEF GateInv
<1>5. ASSUME NEW r \in Requests, OpenStream(r)
      PROVE  GateInv'
  <2>1. /\ UNCHANGED <<called, listed, req>> /\ pc' = [pc EXCEPT ![r] = "answering"]
        /\ reply'[r].code = "" /\ \A q \in Requests \ {r} : reply'[q] = reply[q]
        /\ gen' = [gen EXCEPT ![r] = "created"] /\ _ensure_model_allowed(req[r].model)
    BY <1>5 DEF OpenStream, Answer, Goto, modelVars, TypeOK
  <2>2. \A q \in Requests : Gated(q)'
    BY <2>1, AnswerGated
  <2>3. QED  BY <2>1, <2>2 DEF GateInv
<1>5a. ASSUME NEW r \in Requests, Generate(r)
      PROVE  GateInv'
  BY <1>5a DEF GateInv, Gated, Generate, Goto, streamVars, TypeOK
<1>6. ASSUME NEW r \in Requests,
             AskBackend(r) \/ RecordResponse(r) \/ ListModelsRaises(r)
      PROVE  GateInv'
  <2>1. /\ UNCHANGED <<req, reply, gen, called, listed>>
        /\ \E place \in {"awaiting", "recorded", "unhandled"} :
             pc' = [pc EXCEPT ![r] = place]
    BY <1>6 DEF AskBackend, RecordResponse, ListModelsRaises, Goto, streamVars,
       modelVars
  <2>2. \A q \in Requests : pc'[q] = "new" => pc[q] = "new"
    BY <2>1 DEF TypeOK
  <2>3. QED  BY <2>1, <2>2 DEF GateInv, Gated
<1>7. ASSUME NEW r \in Requests, StreamStep(r) \/ Teardown(r) \/ ClientStep(r)
      PROVE  GateInv'
  <2>1. /\ UNCHANGED <<req, reply, listed>>
        /\ \A q \in Requests : gen[q] = "none" => gen'[q] = "none"
        /\ \A q \in Requests : pc'[q] = "new" => pc[q] = "new"
        /\ called' \in {called, called \cup {req[r].model}}
        /\ (called' # called => gen[r] # "none")
    BY <1>7, ClientFrame DEF StreamStep, YieldRole, AwaitChunk, YieldContent, YieldStop,
       YieldError, YieldDone, Exhaust, Yield, streamFrame, Resumed, Teardown,
       CancelAwait, DropGenerator, FinaliseGenerator, modelVars, Goto, TypeOK
  <2>2. \A q \in Requests : Gated(q)'
    BY <2>1 DEF GateInv, Gated
  <2>3. \A m \in called' \cup listed' : _ensure_model_allowed(m)
    BY <2>1 DEF GateInv, Gated
  <2>4. QED  BY <2>2, <2>3 DEF GateInv
<1>8. ASSUME NEW r \in Requests, NEW kind \in Kinds, NEW model \in Models \cup {NoModel},
             Arrive(r, kind, model)
      PROVE  GateInv'
  <2>1. /\ UNCHANGED <<reply, gen, called, listed>> /\ gen[r] = "none" /\ reply[r] = OK
        /\ pc'[r] = "routing"
        /\ \A q \in Requests \ {r} : req'[q] = req[q] /\ pc'[q] = pc[q]
    BY <1>8 DEF Arrive, streamVars, modelVars, TypeOK, GateInv, Gated
  <2>2. ASSUME NEW q \in Requests PROVE Gated(q)'
    <3>1. Gated(q)
      BY DEF GateInv
    <3>2. CASE q = r
      <4>0. reply'[r] = OK
        BY <2>1
      <4>1. OK.code # "model_not_allowed"
        BY DEF OK
      <4>2. QED  BY <2>1, <3>1, <3>2, <4>0, <4>1 DEF Gated
    <3>3. CASE q # r
      BY <2>1, <3>1, <3>3 DEF Gated
    <3>4. QED  BY <3>2, <3>3
  <2>3. QED  BY <2>1, <2>2 DEF GateInv
<1>9. CASE ServerStep \/ UNCHANGED vars
  BY <1>1, <1>9 DEF ServerStep, Load, LoadFails, BeginDrain, CloseBackend,
                    UpstreamFlips, requestVars, vars
<1>10. QED
  BY <1>2, <1>4, <1>5, <1>5a, <1>6, <1>7, <1>8, <1>9
     DEF Next, Stopped, RequestStep, HandlerStep, BackendReply

\* No model outside a non-empty allowlist reaches the backend, and no model
\* that was listed is refused.
THEOREM AllowlistAlwaysHolds == Spec => []AllowlistHolds
<1>1. GateInv => AllowlistHolds
  BY DEF GateInv, Gated, AllowlistHolds, _ensure_model_allowed
<1>2. TypeOK /\ GateInv /\ [Next]_vars => GateInv'
  BY GateNext
<1>3. QED  BY <1>1, <1>2, GateInit, ServingTypeCorrect, PTL DEF Spec

-----------------------------------------------------------------------------
(* Shutdown.                                                               *)

\* Once the backend is closed no task of a request is left.
ClosedInv == lifespan = "closed" => \A r \in Requests : ~TaskActive(r)

\* No step enters a closed backend, and none closes it around a request.
LEMMA ClosedNext ==
  ASSUME TypeOK, GeneratorAtLastEvent, ClosedInv, [Next]_vars
  PROVE  ClosedInv'
<1>1. CASE UNCHANGED vars
  BY <1>1 DEF ClosedInv, TaskActive, vars
<1>2. CASE ServerStep
  BY <1>2 DEF ClosedInv, TaskActive, ServerStep, Load, LoadFails, BeginDrain,
              CloseBackend, UpstreamFlips, requestVars
<1>3. ASSUME NEW r \in Requests, RequestStep(r), lifespan' = "closed"
      PROVE  FinaliseGenerator(r)
  <2>1. lifespan = "closed" => ~TaskActive(r)
    BY DEF ClosedInv
  <2>2. ~(HandlerStep(r) \/ BackendReply(r))
    BY <1>3, <2>1, HandlerFrame DEF Handled, TaskActive
  <2>3. ~StreamStep(r)
    BY <1>3, <2>1 DEF TaskActive, StreamStep, YieldRole, AwaitChunk, YieldContent,
       YieldStop, YieldError, YieldDone, Exhaust, Yield, streamFrame, Resumed
  <2>4. ~ClientStep(r)
    BY <1>3, <2>1, ClientFrame DEF TaskActive
  <2>5. ~(CancelAwait(r) \/ DropGenerator(r))
    BY <1>3, <2>1 DEF TaskActive, CancelAwait, DropGenerator
  <2>6. \A kind \in Kinds, model \in Models \cup {NoModel} : ~Arrive(r, kind, model)
    BY <1>3 DEF Arrive
  <2>7. QED  BY <1>3, <2>2, <2>3, <2>4, <2>5, <2>6 DEF RequestStep, Teardown
<1>4. ASSUME NEW r \in Requests, FinaliseGenerator(r)
      PROVE  ClosedInv'
  BY <1>4 DEF ClosedInv, TaskActive, FinaliseGenerator, TypeOK
<1>5. QED  BY <1>1, <1>2, <1>3, <1>4 DEF Next, Stopped, ClosedInv

=============================================================================
