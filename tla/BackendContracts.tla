-------------------------- MODULE BackendContracts --------------------------
(***************************************************************************)
(* backend_contracts.py: the summaries of a metrics text and of benchmark  *)
(* rows, and the benchmark artifact manifest.                              *)
(*                                                                         *)
(* A metrics text is a function from the metrics it has to their samples,  *)
(* in order; lines that are no samples are skipped by the parser and are   *)
(* left out.  A row is [latency, validated]: of the numeric fields only    *)
(* e2e_latency_ms is kept, averages and sums are left out, and a row that  *)
(* lacks a required field or has another type there is malformed.          *)
(***************************************************************************)
EXTENDS Integers, Sequences, FiniteSets

CONSTANTS
  RequiredMetrics,  \* _REQUIRED_METRICS
  RequestsMetric    \* the counter of requests among them

ASSUME RequestsMetricAssumption == RequestsMetric \in RequiredMetrics

_sample_value(samples) == IF samples = <<>> THEN 0 ELSE Head(samples)

\* The percentile of the float values.  The index is rounded up, less one.
Ceil(n, d) == (n + d - 1) \div d

\* Mutant: the rank is rounded down.
RankDown(n, hundredths) == (n * hundredths) \div 100

Index(n, hundredths) == LET rank == Ceil(n * hundredths, 100) - 1
                        IN IF rank < 0 THEN 0 ELSE rank

AtMost(values, v) == {i \in DOMAIN values : values[i] <= v}
Below(values, v) == {i \in DOMAIN values : values[i] < v}

\* The value at a zero-based index of the sorted list.
SortedAt(values, index) ==
  CHOOSE v \in {values[i] : i \in DOMAIN values} :
    /\ Cardinality(Below(values, v)) <= index
    /\ index < Cardinality(AtMost(values, v))

_percentile(values, hundredths) ==
  SortedAt(values, Index(Len(values), hundredths))

\* summarize_vllm_mlx_metrics(): what it says of the counter and the contract.
summarize_vllm_mlx_metrics(metrics) ==
  [contract_passed |-> RequiredMetrics \subseteq DOMAIN metrics,
   requests |-> IF RequestsMetric \in DOMAIN metrics
                THEN _sample_value(metrics[RequestsMetric]) ELSE 0]

Latencies(rows) == [i \in DOMAIN rows |-> rows[i].latency]

\* build_benchmark_summary() raises for no rows and for a malformed one.
Summarisable(rows) == rows # <<>> /\ \A i \in DOMAIN rows : rows[i].wellformed

build_benchmark_summary(rows) ==
  [run_count |-> Len(rows),
   all_validated |-> \A i \in DOMAIN rows : rows[i].validated,
   e2e_p95 |-> _percentile(Latencies(rows), 95)]

\* Mutant: the count of findings is not looked at.
TrustsPassed(no_leak_scan) == no_leak_scan.passed

\* Whether build_benchmark_artifact_manifest() returns for what it is told of
\* the scan; its other arguments are only checked for their form.
_validated_no_leak_scan(no_leak_scan) ==
  no_leak_scan.passed /\ no_leak_scan.findings_count = 0
=============================================================================
