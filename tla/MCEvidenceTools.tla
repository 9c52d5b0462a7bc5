-------------------------- MODULE MCEvidenceTools --------------------------
(* Two processes, a directory in another, two files of which one is        *)
(* forbidden.                                                              *)
EXTENDS EvidenceProperties, TLC

CONSTANTS p1, p2, vllm, other, allowed, refused, run1, sub, env, doc,
          requests, hits

TwoProcs == {p1, p2}
TwoBackends == {vllm, other}
TwoReasons == {allowed, refused}
TwoDirs == {run1, sub}
OneDir == {run1}
Nested == [dir \in TwoDirs |-> IF dir = sub THEN TwoDirs ELSE {run1}]
TwoFiles == {env, doc}
OneForbidden == {env}
\* Nothing to find, a bad text, a forbidden file.
MCFirstTrees ==
  {[f \in TwoFiles |-> IF f = env THEN "absent" ELSE text] : text \in Texts}
    \cup {[f \in TwoFiles |-> "fine"]}
TwoMetrics == {requests, hits}
MCExports == {TwoMetrics, {requests}}

Rows(latencies) ==
  [i \in DOMAIN latencies |->
     [latency |-> latencies[i], validated |-> i # 1, wellformed |-> TRUE]]

\* One row; nineteen and twenty, one of them slow; and one that is malformed.
MCBenchmarks ==
  {Rows(<<1>>),
   Rows([i \in 1..19 |-> IF i = 3 THEN 2 ELSE 1]),
   Rows([i \in 1..20 |-> IF i = 3 THEN 2 ELSE 1]),
   <<[latency |-> 1, validated |-> FALSE, wellformed |-> FALSE]>>}

Symmetry ==
  Permutations(Procs) \cup Permutations(Backends) \cup Permutations(Reasons)
=============================================================================
