--------------------------- MODULE EvidenceProofs ---------------------------
(***************************************************************************)
(* Proofs about the evidence tools, for every number of processes, tools   *)
(* started, edits and commits, and every tree of directories.              *)
(***************************************************************************)
EXTENDS EvidenceProperties, FiniteSetTheorems, SequenceTheorems, TLAPS

-----------------------------------------------------------------------------
(* Percentiles.                                                            *)

\* Of finitely many integers there is a least one.
LEMMA LeastExists ==
  ASSUME NEW D, IsFiniteSet(D), NEW f \in [D -> Int], NEW B \in SUBSET D, B # {}
  PROVE  \E i \in B : \A j \in B : f[i] <= f[j]
<1> DEFINE Under(i) == {k \in D : f[k] < f[i]}
           T == {Under(i) : i \in B}
           R == StrictSubsetOrdering(D)
<1>1. IsWellFoundedOn(R, SUBSET D)
  BY FS_FiniteSubsetsOfFinite, FS_StrictSubsetOrderingWellFounded
<1>2. T \subseteq SUBSET D /\ T # {}
  <2>1. \A i \in B : Under(i) \in SUBSET D
    OBVIOUS
  <2> HIDE DEF Under
  <2>2. QED  BY <2>1
<1>3. PICK X \in T : \A Y \in T : <<Y, X>> \notin R
  <2> HIDE DEF R, T
  <2>1. QED  BY <1>1, <1>2, WFMin
<1>4. PICK i \in B : X = Under(i)
  BY <1>3
<1>5. ASSUME NEW j \in B, f[j] < f[i] PROVE FALSE
  <2>1. Under(j) \in SUBSET D /\ Under(i) \in SUBSET D
    OBVIOUS
  <2>2. Under(j) \subseteq Under(i)
    BY <1>5
  <2>3. j \in Under(i) /\ j \notin Under(j)
    BY <1>5
  <2>4. Under(j) # Under(i)
    BY <2>3
  <2>5. <<Under(j), Under(i)>> \in R
    <3> HIDE DEF Under
    <3>1. QED  BY <2>1, <2>2, <2>4 DEF StrictSubsetOrdering
  <2>6. Under(j) \in T
    OBVIOUS
  <2>7. QED  BY <1>3, <1>4, <2>5, <2>6
<1>6. \A j \in B : f[i] \in Int /\ f[j] \in Int
  BY <1>4
<1>7. QED  BY <1>4, <1>5, <1>6

\* ... and a greatest one.
LEMMA GreatestExists ==
  ASSUME NEW D, IsFiniteSet(D), NEW f \in [D -> Int], NEW B \in SUBSET D, B # {}
  PROVE  \E i \in B : \A j \in B : f[j] <= f[i]
<1> DEFINE g == [k \in D |-> 0 - f[k]]
<1>1. g \in [D -> Int]
  OBVIOUS
<1>2. PICK i \in B : \A j \in B : g[i] <= g[j]
  <2> HIDE DEF g
  <2>1. QED  BY <1>1, LeastExists
<1>3. ASSUME NEW j \in B PROVE f[j] <= f[i]
  <2>1. f[i] \in Int /\ f[j] \in Int /\ g[i] = 0 - f[i] /\ g[j] = 0 - f[j]
    BY <1>2, <1>3
  <2>2. g[i] <= g[j]
    BY <1>2, <1>3
  <2> HIDE DEF g
  <2>3. QED  BY <2>1, <2>2
<1>4. QED  BY <1>3

\* A list of numbers has a value of every zero-based rank: fewer than that many
\* and itself are below it, and more are not above it.
LEMMA RankExists ==
  ASSUME NEW values \in Seq(Int), NEW index \in Nat, index < Len(values)
  PROVE  \E i \in DOMAIN values :
           /\ Cardinality(Below(values, values[i])) <= index
           /\ index < Cardinality(AtMost(values, values[i]))
<1> DEFINE D == DOMAIN values
           T == {i \in D : index < Cardinality(AtMost(values, values[i]))}
<1>1. /\ D = 1..Len(values) /\ Len(values) \in Nat
      /\ values \in [D -> Int]
  BY LenProperties
<1>2. IsFiniteSet(D) /\ Cardinality(D) = Len(values)
  <2>1. ASSUME NEW n \in Nat
        PROVE  IsFiniteSet(1..n) /\ Cardinality(1..n) = n
    <3>1. 1 \in Int /\ n \in Int
      OBVIOUS
    <3>2. IsFiniteSet(1..n) /\ Cardinality(1..n) = IF 1 > n THEN 0 ELSE n - 1 + 1
      BY <3>1, FS_Interval, Zenon
    <3>3. QED  BY <3>2
  <2>2. QED  BY <1>1, <2>1
<1>3. T # {}
  <2>1. D # {}
    <3> HIDE DEF D
    <3>1. 1 \in D
      BY <1>1
    <3>2. QED  BY <3>1
  <2>2. PICK i \in D : \A j \in D : values[j] <= values[i]
    <3> HIDE DEF D
    <3>1. QED  BY <1>1, <1>2, <2>1, GreatestExists
  <2>3. AtMost(values, values[i]) = D
    BY <2>2 DEF AtMost
  <2>4. QED  BY <1>2, <2>2, <2>3
<1>4. PICK i \in T : \A j \in T : values[i] <= values[j]
  <2>1. T \in SUBSET D
    OBVIOUS
  <2> HIDE DEF D, T
  <2>2. QED  BY <1>1, <1>2, <1>3, <2>1, LeastExists
<1>5. Cardinality(Below(values, values[i])) <= index
  <2> DEFINE B == Below(values, values[i])
  <2>1. B \in SUBSET D
    BY DEF Below
  <2>2. CASE B = {}
    BY <2>2, FS_EmptySet
  <2>3. CASE B # {}
    <3>1. PICK u \in B : \A j \in B : values[j] <= values[u]
      <4> HIDE DEF D, B
      <4>1. QED  BY <1>1, <1>2, <2>1, <2>3, GreatestExists
    <3>2. AtMost(values, values[u]) = B
      <4>1. u \in D /\ values[u] < values[i]
        BY <3>1 DEF Below
      <4>2. \A j \in D : values[j] \in Int
        BY <1>1
      <4>3. i \in D
        BY <1>4
      <4>4. \A j \in D : values[j] <= values[u] <=> values[j] < values[i]
        BY <3>1, <4>1, <4>2, <4>3 DEF Below
      <4>5. QED  BY <4>4 DEF AtMost, Below
    <3>3. u \notin T
      <4>1. u \in D /\ values[u] < values[i]
        BY <3>1 DEF Below
      <4>2. QED  BY <1>1, <1>4, <4>1
    <3>4. ~(index < Cardinality(B))
      BY <2>1, <3>1, <3>2, <3>3
    <3>5. Cardinality(B) \in Nat
      BY <1>2, <2>1, FS_Subset, FS_CardinalityType
    <3>6. QED  BY <3>4, <3>5
  <2>4. QED  BY <2>2, <2>3
<1>6. QED  BY <1>4, <1>5

\* _percentile() is the nearest rank: a value of the list, which that share of
\* the list does not exceed and that share is not below.
LEMMA NearestRank ==
  ASSUME NEW values \in Seq(Int), values # <<>>, NEW hundredths \in 1..100,
         NEW p, p = _percentile(values, hundredths)
  PROVE  /\ \E i \in DOMAIN values : values[i] = p
         /\ 100 * Cardinality(AtMost(values, p)) >= hundredths * Len(values)
         /\ 100 * Cardinality(Below(values, p)) < hundredths * Len(values)
<1> DEFINE n == Len(values)
           index == Index(n, hundredths)
           product == n * hundredths
<1>1. n \in Nat \ {0}
  BY EmptySeq
<1>2. product \in Nat /\ product = hundredths * n /\ 1 <= product /\ product <= 100 * n
  <2> HIDE DEF n
  <2>1. QED  BY <1>1
<1>3. /\ index \in Nat /\ index < n
      /\ 100 * index < product /\ product <= 100 * (index + 1)
  <2> HIDE DEF n, product
  <2>1. index = IF Ceil(product, 100) - 1 < 0 THEN 0 ELSE Ceil(product, 100) - 1
    BY DEF Index, product
  <2> HIDE DEF index
  <2>2. QED  BY <1>1, <1>2, <2>1 DEF Ceil
<1>4. \E v \in {values[i] : i \in DOMAIN values} :
        /\ Cardinality(Below(values, v)) <= index
        /\ index < Cardinality(AtMost(values, v))
  <2> HIDE DEF index
  <2>1. QED  BY <1>3, RankExists
<1>5. /\ p \in {values[i] : i \in DOMAIN values}
      /\ Cardinality(Below(values, p)) <= index
      /\ index < Cardinality(AtMost(values, p))
  <2>1. p = SortedAt(values, index)
    BY DEF _percentile
  <2> HIDE DEF index
  <2>2. QED  BY <1>4, <2>1 DEF SortedAt
<1>6. Cardinality(Below(values, p)) \in Nat /\ Cardinality(AtMost(values, p)) \in Nat
  <2>1. IsFiniteSet(DOMAIN values)
    BY <1>1, FS_Interval
  <2>2. Below(values, p) \in SUBSET DOMAIN values /\ AtMost(values, p) \in SUBSET DOMAIN values
    BY DEF Below, AtMost
  <2>3. QED  BY <2>1, <2>2, FS_Subset, FS_CardinalityType
<1>7. /\ 100 * Cardinality(AtMost(values, p)) >= product
      /\ 100 * Cardinality(Below(values, p)) < product
  <2>1. PICK below \in Nat : below = Cardinality(Below(values, p))
    BY <1>6
  <2>2. PICK most \in Nat : most = Cardinality(AtMost(values, p))
    BY <1>6
  <2> HIDE DEF n, index, product
  <2>3. below <= index /\ index + 1 <= most
    BY <1>3, <1>5, <2>1, <2>2
  <2>4. 100 * below <= 100 * index /\ 100 * (index + 1) <= 100 * most
    BY <1>3, <2>3
  <2>5. /\ 100 * index \in Int /\ 100 * (index + 1) \in Int /\ product \in Int
        /\ 100 * below \in Int /\ 100 * most \in Int
    BY <1>2, <1>3
  <2>6. 100 * most >= product /\ 100 * below < product
    BY <1>3, <2>4, <2>5
  <2>7. QED  BY <2>1, <2>2, <2>6
<1>8. \E i \in DOMAIN values : values[i] = p
  BY <1>5
<1>9. QED  BY <1>2, <1>7, <1>8

-----------------------------------------------------------------------------
(* The inductive invariant: every file, and everything about to be written, *)
(* is genuine, and a tool under way knows what it needs to make it so.      *)

\* leaf differs from r in one place at most.
OneOff(leaf, r) == \E l \in Leaves : \A k \in Leaves \ {l} : leaf[k] = r[k]

\* No edit leaves a record as it was built, one edit changes one leaf of it.
GenuineRecord(c) ==
  /\ c = [kind |-> "record", leaf |-> c.leaf] /\ DOMAIN c.leaf = Leaves
  /\ edits = 0 => c.leaf \in built
  /\ edits = 1 => \E r \in built : OneOff(c.leaf, r)

\* leaf tells what r does, for a log in the directory of one of them.
SameVerdict(leaf, r) ==
  /\ Verdict(r) = Verdict(leaf)
  /\ leaf["artifact_dir"] = r["artifact_dir"] \/ leaf["log_dir"] = r["log_dir"]

GenuineBundle(dir, c) ==
  edits <= 1 =>
    /\ c.leaf["artifact_dir"] = dir
    /\ \E r \in built : SameVerdict(c.leaf, r)

Row == [latency : Int, validated : BOOLEAN, wellformed : BOOLEAN]

GenuineReport(c) ==
  /\ c.alone =>
       /\ c.metrics_of = c.probe /\ c.rows_of = c.probe
       /\ c.metrics.requests \in Nat
       /\ c.metrics.requests + c.benchmark.run_count <= served
  /\ c.rows \in Seq(Row) /\ c.rows # <<>>
  /\ c.benchmark = build_benchmark_summary(c.rows)

\* The outcome of a scan is stored twice: one edit changes one of the two.
GenuineScan(c) ==
  /\ c = [kind |-> "scan", sha |-> c.sha, passed |-> c.passed,
          findings_count |-> c.findings_count,
          quiet |-> c.quiet, clean |-> c.clean, edited |-> c.edited]
  /\ c.sha \in 1..Len(history)
  /\ c.passed \in BOOLEAN /\ c.quiet \in BOOLEAN /\ c.clean \in BOOLEAN
  /\ c.edited \in BOOLEAN /\ (edits = 0 => ~c.edited)
  /\ c.quiet /\ c.clean =>
       LET publishable == Unpublishable(history[c.sha]) = {} IN
       /\ ~c.edited => (c.passed <=> publishable) /\ (c.findings_count = 0 <=> publishable)
       /\ edits = 1 => (c.passed /\ c.findings_count = 0 => publishable)

GenuineManifest(c) ==
  /\ c.sha \in 1..Len(history)
  /\ edits <= 1 =>
       (c.scan.quiet /\ c.scan.clean /\ c.scan.sha = c.sha =>
          Unpublishable(history[c.sha]) = {})

Genuine(path, c) ==
  /\ c.kind \in {"absent", "torn", path[2]}
  /\ c.kind = "record" => GenuineRecord(c)
  /\ c.kind = "bundle" => GenuineBundle(path[1], c)
  /\ c.kind = "rows" => c.rows \in Seq(Row)
  /\ c.kind = "report" => GenuineReport(c)
  /\ c.kind = "scan" => GenuineScan(c)
  /\ c.kind = "manifest" => GenuineManifest(c)

Probes == {"fetching", "benching", "summarising"}

ToolsTypeOK ==
  /\ DOMAIN file = Paths /\ DOMAIN job = Procs
  /\ pc \in [Procs -> Probes \cup {"idle", "opening", "writing", "reading"}]
  /\ tree \in Trees /\ history \in Seq(Trees) /\ history # <<>>
  /\ served \in Nat /\ edits \in Nat
  /\ built \subseteq BuiltRecords

\* (c is bound to the content, so that it stays the same in the next state.)
FilesGenuine == \A path \in Paths : \A c \in {file[path]} : Genuine(path, c)

WritesGenuine ==
  \A p \in Procs : pc[p] \in {"opening", "writing"} =>
    /\ job[p].target \in Dirs \X {"record", "bundle", "report", "scan", "manifest"}
    /\ \A path \in {job[p].target}, c \in {job[p].content} : Genuine(path, c)

Requests(c) == summarize_vllm_mlx_metrics(c.text).requests

\* What a probe that is alone finds in its directory is its own.
OwnMetrics(p, dir) ==
  LET metrics == file[<<dir, "metrics">>]
      rows == file[<<dir, "rows">>]
  IN /\ pc[p] \in {"benching", "summarising"} =>
          /\ metrics.kind = "metrics" /\ metrics.probe = job[p].id
          /\ Requests(metrics) \in Nat /\ Requests(metrics) <= served
     /\ pc[p] = "summarising" /\ rows.kind = "rows" =>
          /\ rows.probe = job[p].id
          /\ Requests(metrics) + Len(rows.rows) <= served

ProbeAlone(p) ==
  pc[p] \in Probes =>
    /\ job[p] = [tool |-> "probe", dir |-> job[p].dir, id |-> job[p].id,
                 alone |-> job[p].alone]
    /\ job[p].dir \in Dirs /\ job[p].alone \in BOOLEAN
    /\ job[p].alone =>
         \A dir \in {job[p].dir} :
           (\A q \in Procs \ {p} : ~Probing(q, dir)) /\ OwnMetrics(p, dir)

ProbesAlone == \A p \in Procs : ProbeAlone(p)

\* What has been found of a tree in the files that are no longer to do.
FoundIn(todo) == UNION {FindingsOf(f, tree[f]) : f \in Present(tree) \ todo}

ScanUnderWay(p) ==
  pc[p] = "reading" =>
    /\ job[p] = [tool |-> "scan", dir |-> job[p].dir, todo |-> job[p].todo,
                 findings |-> job[p].findings, quiet |-> job[p].quiet]
    /\ job[p].dir \in Dirs /\ job[p].quiet \in BOOLEAN
    /\ job[p].todo \subseteq Files /\ IsFiniteSet(job[p].findings)
    /\ \A todo \in {job[p].todo} : job[p].quiet => job[p].findings = FoundIn(todo)

ScansUnderWay == \A p \in Procs : ScanUnderWay(p)

EvidenceInv ==
  /\ ToolsTypeOK
  /\ FilesGenuine
  /\ WritesGenuine
  /\ ProbesAlone
  /\ ScansUnderWay

-----------------------------------------------------------------------------
(* What a step does to what is there.                                      *)

\* Records stay built, commits stay where they are, and the counts only grow.
LEMMA Grows ==
  ASSUME ToolsTypeOK, [Next]_vars
  PROVE  /\ built \subseteq built' /\ served' \in Nat /\ served <= served'
         /\ edits' = edits \/ (edits' = edits + 1 /\ EditEvidence)
         /\ history' \in Seq(Trees) /\ history' # <<>>
         /\ \A n \in 1..Len(history) : n \in 1..Len(history') /\ history'[n] = history[n]
<1>1. ASSUME NEW p \in Procs,
             \/ Open(p) \/ Write(p) \/ ToolEnds(p) \/ FetchMetrics(p)
             \/ write_backend_contract_report(p) \/ ReadFile(p) \/ current_git_sha(p)
      PROVE  UNCHANGED <<history, served, edits, built>>
  BY <1>1 DEF repo, bounds, Open, Write, ToolEnds, FetchMetrics,
     write_backend_contract_report, ReadFile, current_git_sha
<1>2. ASSUME NEW p \in Procs,
             \/ write_runtime_execution_record(p) \/ write_runtime_evidence_bundle_index(p)
             \/ load_public_release_candidate_files(p)
             \/ write_benchmark_artifact_manifest(p) \/ StartProbe(p)
      PROVE  UNCHANGED <<history, served, edits>> /\ built \subseteq built'
  BY <1>2 DEF repo, Start, write_runtime_execution_record,
     write_runtime_evidence_bundle_index, load_public_release_candidate_files,
     write_benchmark_artifact_manifest, StartProbe
<1>3. ASSUME NEW p \in Procs, Bench(p) \/ BenchFails(p)
      PROVE  UNCHANGED <<history, edits, built>> /\ served' \in Nat /\ served <= served'
  <2>1. \A rows \in Benchmarks : Len(rows) \in Nat
    BY BenchmarksAssumption
  <2>2. PICK rows \in Benchmarks : served' = served + Len(rows)
    BY <1>3 DEF Bench, BenchFails
  <2>3. UNCHANGED <<history, edits, built>>
    BY <1>3 DEF Bench, BenchFails, repo, bounds
  <2>4. QED  BY <2>1, <2>2, <2>3 DEF ToolsTypeOK
<1>4. EditTree => UNCHANGED <<history, served, edits, built>>
  BY DEF EditTree
<1>5. Commit => history' = Append(history, tree) /\ UNCHANGED <<served, edits, built>>
  BY DEF Commit
<1>6. EditEvidence => edits' = edits + 1 /\ UNCHANGED <<history, served, built>>
  BY DEF EditEvidence, repo
<1>7. UNCHANGED vars => UNCHANGED <<history, served, edits, built>>
  BY DEF vars, repo, bounds
<1>8. ASSUME NEW p \in Procs,
             \/ Open(p) \/ Write(p) \/ ToolEnds(p) \/ FetchMetrics(p)
             \/ write_backend_contract_report(p) \/ ReadFile(p) \/ current_git_sha(p)
             \/ write_runtime_execution_record(p) \/ write_runtime_evidence_bundle_index(p)
             \/ load_public_release_candidate_files(p)
             \/ write_benchmark_artifact_manifest(p) \/ StartProbe(p)
      PROVE  UNCHANGED <<history, served, edits>> /\ built \subseteq built'
  BY <1>1, <1>2, <1>8
<1>9. UNCHANGED history \/ Commit
  BY <1>3, <1>4, <1>6, <1>7, <1>8 DEF Next
<1>10. served \in Nat /\ history \in Seq(Trees) /\ history # <<>> /\ tree \in Trees
  BY DEF ToolsTypeOK
<1>11. /\ built \subseteq built' /\ served' \in Nat /\ served <= served'
       /\ edits' = edits \/ (edits' = edits + 1 /\ EditEvidence)
  BY <1>3, <1>4, <1>5, <1>6, <1>7, <1>8, <1>10 DEF Next
<1>12. CASE UNCHANGED history
  BY <1>10, <1>11, <1>12
<1>13. CASE Commit
  BY <1>5, <1>10, <1>11, <1>13
<1>14. QED  BY <1>9, <1>12, <1>13

\* What is genuine stays so.
LEMMA GenuineStays ==
  ASSUME ToolsTypeOK, [Next]_vars, NEW path, NEW c, Genuine(path, c)
  PROVE  Genuine(path, c)'
<1>1. /\ built \subseteq built' /\ served \in Nat /\ served' \in Nat /\ served <= served'
      /\ edits \in Nat /\ (edits' = edits \/ edits' = edits + 1)
      /\ history \in Seq(Trees)
      /\ \A n \in 1..Len(history) : n \in 1..Len(history') /\ history'[n] = history[n]
  BY Grows DEF ToolsTypeOK
<1>2. GenuineRecord(c) => GenuineRecord(c)'
  <2>1. \A r \in built : OneOff(r, r)
    BY DEF OneOff, Leaves, LeafValues
  <2>2. \A r : OneOff(c.leaf, r)' <=> OneOff(c.leaf, r)
    BY DEF OneOff
  <2>3. QED  BY <1>1, <2>1, <2>2 DEF GenuineRecord
<1>3. GenuineBundle(path[1], c) => GenuineBundle(path[1], c)'
  BY <1>1 DEF GenuineBundle, SameVerdict, Verdict
<1>4. GenuineReport(c) => GenuineReport(c)'
  <2>1. c.rows \in Seq(Row) => Len(c.rows) \in Nat
    OBVIOUS
  <2>2. build_benchmark_summary(c.rows).run_count = Len(c.rows)
    BY DEF build_benchmark_summary
  <2>3. QED  BY <1>1, <2>1, <2>2 DEF GenuineReport
<1>5. GenuineScan(c) => GenuineScan(c)'
  BY <1>1 DEF GenuineScan
<1>6. GenuineManifest(c) => GenuineManifest(c)'
  BY <1>1 DEF GenuineManifest
<1>7. QED
  BY <1>2, <1>3, <1>4, <1>5, <1>6 DEF Genuine

-----------------------------------------------------------------------------
(* The parts of the invariant, one by one.                                 *)

\* Every step keeps the types.
LEMMA ToolsTypeNext ==
  ASSUME ToolsTypeOK, [Next]_vars
  PROVE  ToolsTypeOK'
<1>1. served' \in Nat /\ edits' \in Nat /\ history' \in Seq(Trees) /\ history' # <<>>
  BY Grows DEF ToolsTypeOK
<1>2. ASSUME NEW p \in Procs,
             \/ Open(p) \/ Write(p) \/ ToolEnds(p) \/ FetchMetrics(p)
             \/ write_backend_contract_report(p) \/ ReadFile(p) \/ current_git_sha(p)
             \/ Bench(p) \/ BenchFails(p)
      PROVE  /\ DOMAIN file' = Paths /\ DOMAIN job' = Procs
             /\ pc' \in [Procs -> Probes \cup {"idle", "opening", "writing", "reading"}]
             /\ UNCHANGED <<tree, built>>
  BY <1>2 DEF repo, bounds, Open, Write, ToolEnds, FetchMetrics, Go, ToolsTypeOK, Probes,
     write_backend_contract_report, ReadFile, current_git_sha, Bench, BenchFails
<1>3. ASSUME NEW p \in Procs,
             \/ write_runtime_execution_record(p) \/ write_runtime_evidence_bundle_index(p)
             \/ load_public_release_candidate_files(p)
             \/ write_benchmark_artifact_manifest(p) \/ StartProbe(p)
      PROVE  /\ DOMAIN file' = Paths /\ DOMAIN job' = Procs
             /\ pc' \in [Procs -> Probes \cup {"idle", "opening", "writing", "reading"}]
             /\ tree' = tree /\ built' \subseteq BuiltRecords
  BY <1>3 DEF repo, Start, Go, ToolsTypeOK, Probes, write_runtime_execution_record,
     write_runtime_evidence_bundle_index, load_public_release_candidate_files,
     write_benchmark_artifact_manifest, StartProbe
<1>4. EditTree => /\ DOMAIN file' = Paths /\ DOMAIN job' = Procs
                  /\ UNCHANGED <<pc, built>> /\ tree' \in Trees
  BY DEF EditTree, Disturbed, ToolsTypeOK, Trees
<1>5. Commit => /\ DOMAIN file' = Paths /\ DOMAIN job' = Procs
                /\ UNCHANGED <<pc, built, tree>>
  BY DEF Commit, Disturbed, ToolsTypeOK
<1>6. EditEvidence => DOMAIN file' = Paths /\ UNCHANGED <<job, pc, built, tree>>
  BY DEF EditEvidence, repo, ToolsTypeOK
<1>7. UNCHANGED vars => UNCHANGED <<file, job, pc, built, tree>>
  BY DEF vars, repo
<1>8. QED
  BY <1>1, <1>2, <1>3, <1>4, <1>5, <1>6, <1>7 DEF Next, ToolsTypeOK

\* One file may have changed, and is genuine.
LEMMA FilesStay ==
  ASSUME ToolsTypeOK, FilesGenuine, [Next]_vars, NEW target,
         \A path \in Paths \ {target} : file'[path] = file[path],
         \A c \in {file'[target]} : Genuine(target, c)'
  PROVE  FilesGenuine'
<1>1. SUFFICES ASSUME NEW path \in Paths, NEW c, c = file'[path] PROVE Genuine(path, c)'
  BY DEF FilesGenuine
<1>2. CASE path = target
  BY <1>1, <1>2
<1>3. CASE path # target
  <2>1. Genuine(path, c)
    BY <1>1, <1>3 DEF FilesGenuine
  <2>2. QED  BY <2>1, GenuineStays
<1>4. QED  BY <1>2, <1>3

\* A file that was emptied says nothing, and so nothing wrong.
LEMMA TornIsGenuine ==
  ASSUME NEW path
  PROVE  Genuine(path, Torn)'
BY DEF Genuine, Torn

\* One changed leaf of a genuine record.
LEMMA RecordEdited ==
  ASSUME ToolsTypeOK, [Next]_vars, EditEvidence, NEW c, GenuineRecord(c),
         NEW leaf \in Edited(c.leaf)
  PROVE  GenuineRecord([c EXCEPT !.leaf = leaf])'
<1>1. PICK l \in Leaves : \E v \in LeafValues[l] \cup {Malformed} : leaf = [c.leaf EXCEPT ![l] = v]
  BY DEF Edited
<1>2. /\ DOMAIN c.leaf = Leaves
      /\ c = [kind |-> "record", leaf |-> c.leaf]
  BY DEF GenuineRecord
<1>3. [c EXCEPT !.leaf = leaf] = [kind |-> "record", leaf |-> leaf]
  BY <1>2
<1>4. DOMAIN leaf = Leaves /\ \A k \in Leaves \ {l} : leaf[k] = c.leaf[k]
  BY <1>1, <1>2
<1>5. OneOff(leaf, c.leaf)
  BY <1>4 DEF OneOff
<1>6. edits \in Nat /\ edits' = edits + 1 /\ built' = built
  BY DEF EditEvidence, ToolsTypeOK
<1>7. edits' = 1 => \E r \in built' : OneOff(leaf, r)
  BY <1>5, <1>6 DEF GenuineRecord
<1>8. edits' # 0
  BY <1>6
<1>9. \A r : OneOff(leaf, r)' <=> OneOff(leaf, r)
  BY DEF OneOff
<1>10. QED  BY <1>3, <1>4, <1>7, <1>8, <1>9 DEF GenuineRecord

\* One changed outcome of a genuine scan.
LEMMA ScanEdited ==
  ASSUME ToolsTypeOK, [Next]_vars, EditEvidence, NEW c, GenuineScan(c), NEW d,
         \/ \E passed \in BOOLEAN : d = [c EXCEPT !.passed = passed, !.edited = TRUE]
         \/ d = [c EXCEPT !.findings_count = 0, !.edited = TRUE]
  PROVE  GenuineScan(d)'
<1> DEFINE sha == c.sha
           old == c.passed
           found == c.findings_count
           quiet == c.quiet
           clean == c.clean
           edited == c.edited
<1>1. c = [kind |-> "scan", sha |-> sha, passed |-> old, findings_count |-> found,
           quiet |-> quiet, clean |-> clean, edited |-> edited]
  BY DEF GenuineScan
<1>0. /\ c.sha = sha /\ c.quiet = quiet /\ c.clean = clean
      /\ c.passed = old /\ c.findings_count = found
  OBVIOUS
<1> HIDE DEF sha, old, found, quiet, clean, edited
<1>2. PICK passed, count :
        /\ d = [kind |-> "scan", sha |-> sha, passed |-> passed, findings_count |-> count,
                quiet |-> quiet, clean |-> clean, edited |-> TRUE]
        /\ passed \in BOOLEAN
        /\ (passed = old /\ count = 0) \/ count = found
  <2>1. c.passed \in BOOLEAN /\ c.passed = old
    BY <1>0 DEF GenuineScan
  <2>2. ASSUME NEW passed \in BOOLEAN, d = [c EXCEPT !.passed = passed, !.edited = TRUE]
        PROVE  d = [kind |-> "scan", sha |-> sha, passed |-> passed, findings_count |-> found,
                    quiet |-> quiet, clean |-> clean, edited |-> TRUE]
    BY <1>1, <2>2
  <2>3. ASSUME d = [c EXCEPT !.findings_count = 0, !.edited = TRUE]
        PROVE  d = [kind |-> "scan", sha |-> sha, passed |-> old, findings_count |-> 0,
                    quiet |-> quiet, clean |-> clean, edited |-> TRUE]
    BY <1>1, <2>3
  <2>4. QED  BY <2>1, <2>2, <2>3
<1>3. /\ edits \in Nat /\ edits' = edits + 1 /\ UNCHANGED history
  BY DEF EditEvidence, ToolsTypeOK, repo
<1>4. /\ d.sha = sha /\ d.quiet = quiet /\ d.clean = clean
      /\ d.passed = passed /\ d.findings_count = count /\ d.edited = TRUE
  <2>1. d.sha = sha /\ d.quiet = quiet /\ d.clean = clean /\ d.findings_count = count
    BY <1>2
  <2>2. d.passed = passed
    BY <1>2
  <2>3. d.edited = TRUE
    BY <1>2
  <2>4. QED  BY <2>1, <2>2, <2>3
<1>5. (edits' = 1 => edits = 0) /\ edits' # 0
  <2>1. edits \in Nat /\ edits' = edits + 1
    BY <1>3
  <2>2. QED  BY ONLY <2>1
<1>6. /\ sha \in 1..Len(history) /\ quiet \in BOOLEAN /\ clean \in BOOLEAN
      /\ edits = 0 /\ quiet /\ clean =>
           LET publishable == Unpublishable(history[sha]) = {}
           IN (old <=> publishable) /\ (found = 0 <=> publishable)
  BY <1>0 DEF GenuineScan
<1>7. edits' = 1 /\ quiet /\ clean =>
        (passed /\ count = 0 => Unpublishable(history[sha]) = {})
  BY <1>2, <1>5, <1>6
<1>8. d = [kind |-> "scan", sha |-> d.sha, passed |-> d.passed,
           findings_count |-> d.findings_count,
           quiet |-> d.quiet, clean |-> d.clean, edited |-> d.edited]
  BY <1>2
<1>9. QED  BY <1>2, <1>3, <1>4, <1>5, <1>6, <1>7, <1>8 DEF GenuineScan

\* What write_text() is about to write stays genuine.
LEMMA WriteStays ==
  ASSUME ToolsTypeOK, WritesGenuine, [Next]_vars, NEW p \in Procs,
         pc[p] \in {"opening", "writing"}, NEW path, NEW c,
         path = job[p].target, c = job[p].content
  PROVE  /\ path \in Paths /\ path \in Dirs \X {"record", "bundle", "report", "scan", "manifest"}
         /\ Genuine(path, c)'
<1>1. path \in Dirs \X {"record", "bundle", "report", "scan", "manifest"} /\ Genuine(path, c)
  BY DEF WritesGenuine
<1>2. path \in Paths
  BY <1>1 DEF Paths
<1>3. QED  BY <1>1, <1>2, GenuineStays

\* Every step leaves every file genuine.
LEMMA FilesNext ==
  ASSUME EvidenceInv, [Next]_vars
  PROVE  FilesGenuine'
<1> USE DEF EvidenceInv
<1>1. CASE UNCHANGED file
  <2>1. SUFFICES ASSUME NEW path \in Paths, NEW c, c = file'[path] PROVE Genuine(path, c)'
    BY DEF FilesGenuine
  <2>2. Genuine(path, c)
    BY <1>1, <2>1 DEF FilesGenuine
  <2>3. QED  BY <2>2, GenuineStays
<1>2. ASSUME NEW p \in Procs, Open(p) PROVE FilesGenuine'
  <2>1. PICK path : path = job[p].target
    OBVIOUS
  <2>2. PICK content : content = job[p].content
    OBVIOUS
  <2>3. pc[p] \in {"opening", "writing"} /\ file' = [file EXCEPT ![path] = Torn]
    BY <1>2, <2>1 DEF Open
  <2>4. path \in Paths
    BY <2>1, <2>2, <2>3, WriteStays
  <2>5. /\ \A other \in Paths \ {path} : file'[other] = file[other]
        /\ file'[path] = Torn
    BY <2>3, <2>4 DEF ToolsTypeOK
  <2>6. \A c \in {file'[path]} : Genuine(path, c)'
    BY <2>5, TornIsGenuine
  <2>7. QED  BY <2>5, <2>6, FilesStay
<1>3. ASSUME NEW p \in Procs, Write(p) PROVE FilesGenuine'
  <2>1. PICK path : path = job[p].target
    OBVIOUS
  <2>2. PICK content : content = job[p].content
    OBVIOUS
  <2>3. pc[p] \in {"opening", "writing"}
        /\ \E c \in {content, Torn} : file' = [file EXCEPT ![path] = c]
    BY <1>3, <2>1, <2>2 DEF Write
  <2>4. path \in Paths /\ Genuine(path, content)'
    BY <2>1, <2>2, <2>3, WriteStays
  <2>5. /\ \A other \in Paths \ {path} : file'[other] = file[other]
        /\ file'[path] \in {content, Torn}
    BY <2>3, <2>4 DEF ToolsTypeOK
  <2>6. \A c \in {file'[path]} : Genuine(path, c)'
    BY <2>4, <2>5, TornIsGenuine
  <2>7. QED  BY <2>5, <2>6, FilesStay
<1>4. ASSUME NEW p \in Procs, StartProbe(p) PROVE FilesGenuine'
  <2>1. PICK dir \in ReportDirs : file' = [file EXCEPT ![<<dir, "metrics">>] = Torn]
    BY <1>4 DEF StartProbe
  <2>2. PICK path : path = <<dir, "metrics">>
    OBVIOUS
  <2>3. path \in Paths
    BY <2>2, ReportDirsAssumption DEF Paths
  <2>4. /\ \A other \in Paths \ {path} : file'[other] = file[other]
        /\ file'[path] = Torn
    BY <2>1, <2>2, <2>3 DEF ToolsTypeOK
  <2>5. \A c \in {file'[path]} : Genuine(path, c)'
    BY <2>4, TornIsGenuine
  <2>6. QED  BY <2>4, <2>5, FilesStay
<1>5. ASSUME NEW p \in Procs, FetchMetrics(p) PROVE FilesGenuine'
  <2>1. PICK path : path = <<job[p].dir, "metrics">>
    OBVIOUS
  <2>2. job[p].dir \in Dirs
    BY <1>5 DEF FetchMetrics, ProbesAlone, ProbeAlone, Probes
  <2>3. path \in Paths
    BY <2>1, <2>2 DEF Paths
  <2>4. PICK names \in Exports :
          file' = [file EXCEPT ![path] =
                    [kind |-> "metrics", probe |-> job[p].id, text |-> Exported(names)]]
    BY <1>5, <2>1 DEF FetchMetrics
  <2>5. /\ \A other \in Paths \ {path} : file'[other] = file[other]
        /\ file'[path].kind = "metrics"
    BY <2>3, <2>4 DEF ToolsTypeOK
  <2>6. \A c \in {file'[path]} : Genuine(path, c)'
    BY <2>1, <2>5 DEF Genuine
  <2>7. QED  BY <2>5, <2>6, FilesStay
<1>6. ASSUME NEW p \in Procs, Bench(p) PROVE FilesGenuine'
  <2>1. PICK path : path = <<job[p].dir, "rows">>
    OBVIOUS
  <2>2. job[p].dir \in Dirs
    BY <1>6 DEF Bench, ProbesAlone, ProbeAlone, Probes
  <2>3. path \in Paths
    BY <2>1, <2>2 DEF Paths
  <2>4. PICK rows \in Benchmarks :
          file' = [file EXCEPT ![path] =
                    [kind |-> "rows", probe |-> job[p].id, rows |-> rows]]
    BY <1>6, <2>1 DEF Bench
  <2>5. /\ \A other \in Paths \ {path} : file'[other] = file[other]
        /\ file'[path].kind = "rows" /\ file'[path].rows = rows
    BY <2>3, <2>4 DEF ToolsTypeOK
  <2>6. rows \in Seq(Row)
    BY BenchmarksAssumption DEF Row
  <2>7. \A c \in {file'[path]} : Genuine(path, c)'
    BY <2>1, <2>5, <2>6 DEF Genuine
  <2>8. QED  BY <2>5, <2>7, FilesStay
<1>7. ASSUME EditEvidence PROVE FilesGenuine'
  <2>1. PICK dir \in Dirs :
          \/ /\ file[<<dir, "record">>].kind = "record"
             /\ \E leaf \in Edited(file[<<dir, "record">>].leaf) :
                  file' = [file EXCEPT ![<<dir, "record">>].leaf = leaf]
          \/ /\ file[<<dir, "scan">>].kind = "scan"
             /\ \/ \E passed \in BOOLEAN :
                     file' = [file EXCEPT ![<<dir, "scan">>].passed = passed,
                                          ![<<dir, "scan">>].edited = TRUE]
                \/ file' = [file EXCEPT ![<<dir, "scan">>].findings_count = 0,
                                        ![<<dir, "scan">>].edited = TRUE]
    BY <1>7 DEF EditEvidence
  <2>2. CASE /\ file[<<dir, "record">>].kind = "record"
             /\ \E leaf \in Edited(file[<<dir, "record">>].leaf) :
                  file' = [file EXCEPT ![<<dir, "record">>].leaf = leaf]
    <3>1. PICK path : path = <<dir, "record">>
      OBVIOUS
    <3>2. path \in Paths
      BY <3>1 DEF Paths
    <3>3. PICK c : c = file[path]
      OBVIOUS
    <3>4. GenuineRecord(c)
      BY <2>2, <3>1, <3>2, <3>3 DEF FilesGenuine, Genuine
    <3>5. PICK leaf \in Edited(c.leaf) : file' = [file EXCEPT ![path].leaf = leaf]
      BY <2>2, <3>1, <3>3
    <3>6. PICK d : d = [c EXCEPT !.leaf = leaf]
      OBVIOUS
    <3>7. /\ \A other \in Paths \ {path} : file'[other] = file[other]
          /\ file'[path] = d
      BY <3>2, <3>3, <3>5, <3>6 DEF ToolsTypeOK
    <3>8. GenuineRecord(d)'
      BY <1>7, <3>4, <3>6, RecordEdited
    <3>9. d.kind = "record"
      BY <3>8 DEF GenuineRecord
    <3>10. Genuine(path, d)'
      BY <3>1, <3>8, <3>9 DEF Genuine
    <3>11. QED  BY <3>7, <3>10, FilesStay
  <2>3. CASE /\ file[<<dir, "scan">>].kind = "scan"
             /\ \/ \E passed \in BOOLEAN :
                     file' = [file EXCEPT ![<<dir, "scan">>].passed = passed,
                                          ![<<dir, "scan">>].edited = TRUE]
                \/ file' = [file EXCEPT ![<<dir, "scan">>].findings_count = 0,
                                        ![<<dir, "scan">>].edited = TRUE]
    <3>1. PICK path : path = <<dir, "scan">>
      OBVIOUS
    <3>2. path \in Paths
      BY <3>1 DEF Paths
    <3>3. PICK c : c = file[path]
      OBVIOUS
    <3>4. GenuineScan(c)
      BY <2>3, <3>1, <3>2, <3>3 DEF FilesGenuine, Genuine
    <3>5. PICK d :
            /\ \/ \E passed \in BOOLEAN : d = [c EXCEPT !.passed = passed, !.edited = TRUE]
               \/ d = [c EXCEPT !.findings_count = 0, !.edited = TRUE]
            /\ file' = [file EXCEPT ![path] = d]
      BY <2>3, <3>1, <3>2, <3>3 DEF ToolsTypeOK
    <3>6. /\ \A other \in Paths \ {path} : file'[other] = file[other]
          /\ file'[path] = d
      BY <3>2, <3>5 DEF ToolsTypeOK
    <3>7. GenuineScan(d)'
      BY <1>7, <3>4, <3>5, ScanEdited
    <3>8. d.kind = "scan"
      BY <3>7 DEF GenuineScan
    <3>9. Genuine(path, d)'
      BY <3>1, <3>7, <3>8 DEF Genuine
    <3>10. QED  BY <3>6, <3>9, FilesStay
  <2>4. QED  BY <2>1, <2>2, <2>3
<1>8. ASSUME NEW p \in Procs,
             \/ ToolEnds(p) \/ write_runtime_execution_record(p)
             \/ write_runtime_evidence_bundle_index(p) \/ BenchFails(p)
             \/ write_backend_contract_report(p) \/ load_public_release_candidate_files(p)
             \/ ReadFile(p) \/ current_git_sha(p) \/ write_benchmark_artifact_manifest(p)
      PROVE  UNCHANGED file
  BY <1>8 DEF ToolEnds, write_runtime_execution_record, write_runtime_evidence_bundle_index,
     BenchFails, write_backend_contract_report, load_public_release_candidate_files,
     ReadFile, current_git_sha, write_benchmark_artifact_manifest
<1>9. EditTree \/ Commit \/ UNCHANGED vars => UNCHANGED file
  BY DEF EditTree, Commit, vars
<1>10. QED
  BY <1>1, <1>2, <1>3, <1>4, <1>5, <1>6, <1>7, <1>8, <1>9 DEF Next

-----------------------------------------------------------------------------
(* Records and bundles.                                                    *)

\* What build_runtime_execution_record() returns repeats itself.
LEMMA BuiltRecord ==
  ASSUME NEW r \in BuiltRecords
  PROVE  /\ DOMAIN r = Leaves
         /\ r["artifact_dir"] \in Dirs
         /\ r["can_execute"] = r["allowed"] /\ r["reason_code"] = r["reason"]
         /\ r["preflight_backend"] = r["manifest_backend"]
<1>1. PICK in \in Inputs :
        r = build_runtime_execution_record(in[1], in[2], in[3], in[4])
  BY DEF BuiltRecords
<1>2. in[3] \in Dirs
  BY DEF Inputs
<1>3. QED
  BY <1>1, <1>2 DEF build_runtime_execution_record, Leaves, LeafValues

\* The check of a load finds any one change of the verdict.
LEMMA AcceptedTellsTheSame ==
  ASSUME NEW r \in BuiltRecords, NEW leaf, OneOff(leaf, r),
         _canonical_runtime_execution_record(leaf)
  PROVE  SameVerdict(leaf, r)
<1>1. PICK l \in Leaves : \A k \in Leaves \ {l} : leaf[k] = r[k]
  BY DEF OneOff
<1>2. /\ leaf["can_execute"] = leaf["allowed"] /\ leaf["reason_code"] = leaf["reason"]
      /\ leaf["preflight_backend"] = leaf["manifest_backend"]
  BY DEF _canonical_runtime_execution_record, Consistent
<1>3. {"can_execute", "allowed", "reason_code", "reason", "preflight_backend",
       "manifest_backend", "artifact_dir", "log_dir"} \subseteq Leaves
  BY DEF Leaves, LeafValues
<1>4. leaf["can_execute"] = r["can_execute"]
  BY <1>1, <1>2, <1>3, BuiltRecord
<1>5. leaf["reason_code"] = r["reason_code"]
  BY <1>1, <1>2, <1>3, BuiltRecord
<1>6. leaf["manifest_backend"] = r["manifest_backend"]
  BY <1>1, <1>2, <1>3, BuiltRecord
<1>7. leaf["artifact_dir"] = r["artifact_dir"] \/ leaf["log_dir"] = r["log_dir"]
  BY <1>1, <1>3
<1>8. QED  BY <1>4, <1>5, <1>6, <1>7 DEF SameVerdict, Verdict

\* A bundle index may be written for what is in memory or was accepted.
LEMMA LoadableIsGenuine ==
  ASSUME EvidenceInv, NEW leaf, Loadable(leaf)
  PROVE  /\ leaf["artifact_dir"] \in Dirs
         /\ edits <= 1 => \E r \in built : SameVerdict(leaf, r)
<1>1. CASE leaf \in built
  <2>1. SameVerdict(leaf, leaf)
    BY DEF SameVerdict
  <2>2. leaf \in BuiltRecords
    BY <1>1 DEF EvidenceInv, ToolsTypeOK
  <2>3. QED  BY <1>1, <2>1, <2>2, BuiltRecord
<1>2. ASSUME NEW dir \in Dirs, file[<<dir, "record">>] = [kind |-> "record", leaf |-> leaf],
             _canonical_runtime_execution_record(leaf)
      PROVE  /\ leaf["artifact_dir"] \in Dirs
             /\ edits <= 1 => \E r \in built : SameVerdict(leaf, r)
  <2>1. PICK path : path = <<dir, "record">>
    OBVIOUS
  <2>2. path \in Paths
    BY <2>1 DEF Paths
  <2>3. PICK c : c = [kind |-> "record", leaf |-> leaf]
    OBVIOUS
  <2>4. GenuineRecord(c) /\ c.leaf = leaf
    BY <1>2, <2>1, <2>2, <2>3 DEF EvidenceInv, FilesGenuine, Genuine
  <2>5. edits \in Nat /\ built \subseteq BuiltRecords
    BY DEF EvidenceInv, ToolsTypeOK
  <2>6. ASSUME edits <= 1 PROVE \E r \in built : OneOff(leaf, r)
    <3>1. CASE edits = 0
      <4>1. leaf \in built
        BY <2>4, <3>1 DEF GenuineRecord
      <4>2. OneOff(leaf, leaf)
        BY DEF OneOff, Leaves, LeafValues
      <4>3. QED  BY <4>1, <4>2
    <3>2. CASE edits = 1
      BY <2>4, <3>2 DEF GenuineRecord
    <3>3. QED  BY <2>5, <2>6, <3>1, <3>2
  <2>7. edits <= 1 => \E r \in built : SameVerdict(leaf, r)
    BY <1>2, <2>5, <2>6, AcceptedTellsTheSame
  <2>8. leaf["artifact_dir"] \in Dirs
    BY <1>2 DEF _canonical_runtime_execution_record, Consistent
  <2>9. QED  BY <2>7, <2>8
<1>3. QED  BY <1>1, <1>2 DEF Loadable

-----------------------------------------------------------------------------
(* Scans.                                                                  *)

\* Nothing is found in the files that are there exactly when none of them is
\* one that should not be published.
LEMMA NothingFound ==
  ASSUME tree \in Trees
  PROVE  UNION {FindingsOf(f, tree[f]) : f \in Present(tree)} = {}
           <=> Unpublishable(tree) = {}
<1>1. ASSUME NEW f \in Present(tree)
      PROVE  FindingsOf(f, tree[f]) = {} <=> ~(f \in Forbidden \/ tree[f] = "bad")
  BY DEF FindingsOf
<1>2. QED  BY <1>1 DEF Unpublishable

\* The report that current_git_sha() completes is genuine.
LEMMA ScanReported ==
  ASSUME EvidenceInv, NEW p \in Procs, current_git_sha(p), NEW c, c = job'[p].content
  PROVE  GenuineScan(c)'
<1> DEFINE found == job[p].findings
           scanned == scan_public_release_files(found)
<1>1. /\ pc[p] = "reading" /\ job[p].todo = {}
      /\ UNCHANGED <<tree, history, edits>>
      /\ c = [kind |-> "scan", sha |-> HEAD, passed |-> scanned.passed,
              findings_count |-> scanned.findings_count,
              quiet |-> job[p].quiet, clean |-> (tree = history[HEAD]), edited |-> FALSE]
  BY DEF current_git_sha, Go, ToWrite, repo, bounds, EvidenceInv, ToolsTypeOK
<1>2. /\ job[p].quiet \in BOOLEAN /\ IsFiniteSet(found)
      /\ job[p].quiet => found = FoundIn({})
  BY <1>1 DEF EvidenceInv, ScansUnderWay, ScanUnderWay
<1>3. scanned.passed = (found = {}) /\ scanned.findings_count = Cardinality(found)
  BY DEF scan_public_release_files
<1>4. Cardinality(found) = 0 <=> found = {}
  <2> HIDE DEF found
  <2>1. QED  BY <1>2, FS_EmptySet
<1>5. job[p].quiet => (found = {} <=> Unpublishable(tree) = {})
  <2>1. FoundIn({}) = UNION {FindingsOf(f, tree[f]) : f \in Present(tree)}
    BY DEF FoundIn
  <2>2. QED  BY <1>2, <2>1, NothingFound DEF EvidenceInv, ToolsTypeOK
<1>6. HEAD \in 1..Len(history) /\ edits' = edits /\ history' = history
  BY <1>1 DEF HEAD, EvidenceInv, ToolsTypeOK
<1> DEFINE quiet == job[p].quiet
           clean == tree = history[HEAD]
           count == scanned.findings_count
           passed == scanned.passed
<1>7. /\ c = [kind |-> "scan", sha |-> c.sha, passed |-> c.passed,
              findings_count |-> c.findings_count,
              quiet |-> c.quiet, clean |-> c.clean, edited |-> c.edited]
      /\ c.sha = HEAD /\ c.findings_count = count
      /\ c.passed = passed /\ c.quiet = quiet /\ c.clean = clean /\ c.edited = FALSE
  <2>1. c = [kind |-> "scan", sha |-> HEAD, passed |-> passed, findings_count |-> count,
             quiet |-> quiet, clean |-> clean, edited |-> FALSE]
    BY <1>1
  <2> HIDE DEF quiet, clean, count, passed
  <2>2. QED  BY <2>1
<1>8. /\ quiet \in BOOLEAN /\ clean \in BOOLEAN /\ passed \in BOOLEAN
      /\ quiet /\ clean => /\ passed <=> Unpublishable(history[HEAD]) = {}
                           /\ count = 0 <=> Unpublishable(history[HEAD]) = {}
  BY <1>2, <1>3, <1>4, <1>5
<1> HIDE DEF quiet, clean, count, passed
<1>9. QED  BY <1>6, <1>7, <1>8 DEF GenuineScan

-----------------------------------------------------------------------------
(* What the tools are about to write.                                      *)

Written == {"record", "bundle", "report", "scan", "manifest"}

\* Only those in P may have got something new to write, and that is genuine.
LEMMA WritesStay ==
  ASSUME EvidenceInv, [Next]_vars, NEW P,
         \A q \in Procs \ P :
           pc'[q] = pc[q] /\ (pc[q] \in {"opening", "writing"} => job'[q] = job[q]),
         \A q \in P : pc'[q] \in {"opening", "writing"} =>
           \A path \in {job'[q].target}, c \in {job'[q].content} :
             path \in Dirs \X Written /\ Genuine(path, c)'
  PROVE  WritesGenuine'
<1>1. SUFFICES ASSUME NEW q \in Procs, pc'[q] \in {"opening", "writing"},
                      NEW path, path = job'[q].target, NEW c, c = job'[q].content
               PROVE  path \in Dirs \X Written /\ Genuine(path, c)'
  BY DEF WritesGenuine, Written
<1>2. CASE q \in P
  BY <1>1, <1>2
<1>3. CASE q \notin P
  <2>1. pc[q] \in {"opening", "writing"} /\ job'[q] = job[q]
    BY <1>1, <1>3
  <2>2. path = job[q].target /\ c = job[q].content
    BY <1>1, <2>1
  <2>3. QED  BY <2>1, <2>2, WriteStays DEF EvidenceInv, Written
<1>4. QED  BY <1>2, <1>3

\* Go() changes one process.
LEMMA GoesAlone ==
  ASSUME ToolsTypeOK, NEW p \in Procs, NEW label, NEW newjob, Go(p, label, newjob)
  PROVE  /\ pc'[p] = label /\ job'[p] = newjob
         /\ \A q \in Procs \ {p} : pc'[q] = pc[q] /\ job'[q] = job[q]
BY DEF Go, ToolsTypeOK

\* A process that goes on to write something genuine.
LEMMA GoesToWrite ==
  ASSUME EvidenceInv, [Next]_vars, NEW p \in Procs, NEW path \in Dirs \X Written, NEW c,
         Go(p, "opening", ToWrite(path, c)), Genuine(path, c)'
  PROVE  WritesGenuine'
<1>1. PICK newjob : newjob = ToWrite(path, c)
  OBVIOUS
<1>2. newjob.target = path /\ newjob.content = c
  BY <1>1 DEF ToWrite
<1>3. /\ job'[p] = newjob
      /\ \A q \in Procs \ {p} : pc'[q] = pc[q] /\ job'[q] = job[q]
  BY <1>1, GoesAlone DEF EvidenceInv
<1>4. \A target \in {job'[p].target}, content \in {job'[p].content} :
        target \in Dirs \X Written /\ Genuine(target, content)'
  BY <1>2, <1>3
<1> DEFINE P == {p}
<1>5. /\ \A q \in Procs \ P : pc'[q] = pc[q] /\ job'[q] = job[q]
      /\ \A q \in P : \A target \in {job'[q].target}, content \in {job'[q].content} :
           target \in Dirs \X Written /\ Genuine(target, content)'
  BY <1>3, <1>4
<1> HIDE DEF P
<1>6. QED  BY <1>5, WritesStay

\* The report that write_backend_contract_report() completes is genuine.
LEMMA ReportSummarised ==
  ASSUME EvidenceInv, NEW p \in Procs, write_backend_contract_report(p),
         NEW c, c = job'[p].content
  PROVE  /\ job[p].dir \in Dirs /\ c.kind = "report" /\ GenuineReport(c)
         /\ Go(p, "opening", ToWrite(<<job[p].dir, "report">>, c))
<1>1. PICK metrics : metrics = file[<<job[p].dir, "metrics">>]
  OBVIOUS
<1>2. PICK rows : rows = file[<<job[p].dir, "rows">>]
  OBVIOUS
<1>3. PICK text : text = IF metrics.kind = "metrics" THEN metrics.text ELSE [name \in {} |-> <<>>]
  OBVIOUS
<1>4. PICK d :
        d = [kind |-> "report",
             metrics |-> summarize_vllm_mlx_metrics(text),
             benchmark |-> build_benchmark_summary(rows.rows),
             probe |-> job[p].id, alone |-> job[p].alone,
             metrics_of |-> IF metrics.kind = "metrics" THEN metrics.probe ELSE 0,
             rows_of |-> rows.probe, rows |-> rows.rows]
  OBVIOUS
<1>5. /\ pc[p] = "summarising" /\ rows.kind = "rows" /\ Summarisable(rows.rows)
      /\ Go(p, "opening", ToWrite(<<job[p].dir, "report">>, d))
  BY <1>1, <1>2, <1>3, <1>4 DEF write_backend_contract_report
<1>6. c = d
  <2>1. job'[p] = ToWrite(<<job[p].dir, "report">>, d)
    BY <1>5 DEF Go, EvidenceInv, ToolsTypeOK
  <2>2. QED  BY <2>1 DEF ToWrite
<1>7. job[p].dir \in Dirs /\ (job[p].alone => OwnMetrics(p, job[p].dir))
  BY <1>5 DEF EvidenceInv, ProbesAlone, ProbeAlone, Probes
<1>8. rows.rows \in Seq(Row) /\ rows.rows # <<>>
  <2>1. PICK path : path = <<job[p].dir, "rows">>
    OBVIOUS
  <2>2. path \in Paths /\ rows = file[path]
    BY <1>2, <1>7, <2>1 DEF Paths
  <2>3. Genuine(path, rows)
    BY <2>2 DEF EvidenceInv, FilesGenuine
  <2>4. QED  BY <1>5, <2>3 DEF Genuine, Summarisable
<1>9. /\ d.kind = "report" /\ d.rows = rows.rows
      /\ d.benchmark = build_benchmark_summary(rows.rows)
      /\ d.alone = job[p].alone /\ d.probe = job[p].id /\ d.rows_of = rows.probe
      /\ d.metrics = summarize_vllm_mlx_metrics(text)
      /\ d.metrics_of = IF metrics.kind = "metrics" THEN metrics.probe ELSE 0
  BY <1>4
<1>10. ASSUME job[p].alone
       PROVE  /\ d.metrics_of = d.probe /\ d.rows_of = d.probe
              /\ d.metrics.requests \in Nat
              /\ d.metrics.requests + d.benchmark.run_count <= served
  <2>1. /\ metrics.kind = "metrics" /\ metrics.probe = job[p].id
        /\ rows.probe = job[p].id
        /\ Requests(metrics) \in Nat /\ Requests(metrics) + Len(rows.rows) <= served
    BY <1>1, <1>2, <1>5, <1>7, <1>10 DEF OwnMetrics
  <2>2. d.metrics.requests = Requests(metrics)
    BY <1>3, <1>9, <2>1 DEF Requests
  <2>3. d.benchmark.run_count = Len(rows.rows)
    BY <1>9 DEF build_benchmark_summary
  <2>4. QED  BY <1>9, <2>1, <2>2, <2>3
<1>11. GenuineReport(d)
  BY <1>8, <1>9, <1>10 DEF GenuineReport
<1>12. QED  BY <1>5, <1>6, <1>7, <1>9, <1>11

\* The manifest that vouches for a stored scan is genuine.
LEMMA ManifestVouches ==
  ASSUME EvidenceInv, NEW dir \in Dirs, NEW scan, scan = file[<<dir, "scan">>],
         scan.kind = "scan", _validated_no_leak_scan(scan),
         NEW c, c = [kind |-> "manifest", sha |-> HEAD, scan |-> scan]
  PROVE  GenuineManifest(c)
<1>1. GenuineScan(scan)
  <2>1. PICK path : path = <<dir, "scan">>
    OBVIOUS
  <2>2. path \in Paths /\ scan = file[path]
    BY <2>1 DEF Paths
  <2>3. QED  BY <2>2 DEF EvidenceInv, FilesGenuine, Genuine
<1>2. scan.passed /\ scan.findings_count = 0
  BY DEF _validated_no_leak_scan
<1>3. HEAD \in 1..Len(history) /\ edits \in Nat
  BY DEF HEAD, EvidenceInv, ToolsTypeOK
<1>4. ASSUME edits <= 1, scan.quiet, scan.clean
      PROVE  Unpublishable(history[scan.sha]) = {}
  <2>1. CASE edits = 0
    BY <1>1, <1>2, <1>4, <2>1 DEF GenuineScan
  <2>2. CASE edits = 1
    BY <1>1, <1>2, <1>4, <2>2 DEF GenuineScan
  <2>3. QED  BY <1>3, <1>4, <2>1, <2>2
<1>5. c.sha = HEAD /\ c.scan = scan
  OBVIOUS
<1>6. QED  BY <1>3, <1>4, <1>5 DEF GenuineManifest

\* Every step leaves what is about to be written genuine.
LEMMA WritesNext ==
  ASSUME EvidenceInv, [Next]_vars
  PROVE  WritesGenuine'
<1>0. /\ ToolsTypeOK
      /\ Dirs \X Written \subseteq Paths
  BY DEF EvidenceInv, Paths, Written
<1>1. ASSUME NEW p \in Procs, Open(p) PROVE WritesGenuine'
  <2>1. PICK path : path = job[p].target
    OBVIOUS
  <2>2. PICK c : c = job[p].content
    OBVIOUS
  <2>3. /\ pc[p] \in {"opening", "writing"} /\ job'[p] = job[p]
        /\ \A q \in Procs \ {p} : pc'[q] = pc[q] /\ job'[q] = job[q]
    BY <1>1 DEF Open, Go, EvidenceInv, ToolsTypeOK
  <2>4. path \in Dirs \X Written /\ Genuine(path, c)'
    BY <2>1, <2>2, <2>3, WriteStays DEF EvidenceInv, Written
  <2>5. \A target \in {job'[p].target}, content \in {job'[p].content} :
          target \in Dirs \X Written /\ Genuine(target, content)'
    BY <2>1, <2>2, <2>3, <2>4
  <2> DEFINE P == {p}
  <2>6. /\ \A q \in Procs \ P : pc'[q] = pc[q] /\ job'[q] = job[q]
        /\ \A q \in P : \A target \in {job'[q].target}, content \in {job'[q].content} :
             target \in Dirs \X Written /\ Genuine(target, content)'
    BY <2>3, <2>5
  <2> HIDE DEF P
  <2>7. QED  BY <2>6, WritesStay
<1>2. ASSUME NEW p \in Procs, write_runtime_execution_record(p) PROVE WritesGenuine'
  <2>1. PICK leaf \in BuiltRecords :
          /\ Start(p, "opening",
               ToWrite(<<leaf["artifact_dir"], "record">>, [kind |-> "record", leaf |-> leaf]))
          /\ built' = built \cup {leaf}
    BY <1>2 DEF write_runtime_execution_record
  <2>2. PICK path : path = <<leaf["artifact_dir"], "record">>
    OBVIOUS
  <2>3. PICK c : c = [kind |-> "record", leaf |-> leaf]
    OBVIOUS
  <2>4. leaf["artifact_dir"] \in Dirs /\ DOMAIN leaf = Leaves
    BY BuiltRecord
  <2>5. OneOff(leaf, leaf)
    BY DEF OneOff, Leaves, LeafValues
  <2>6. GenuineRecord(c)'
    <3>1. c.leaf = leaf /\ leaf \in built'
      BY <2>1, <2>3
    <3>2. c = [kind |-> "record", leaf |-> c.leaf] /\ DOMAIN c.leaf = Leaves
      BY <2>3, <2>4
    <3>3. OneOff(leaf, leaf)'
      BY <2>5 DEF OneOff
    <3>4. QED  BY <3>1, <3>2, <3>3 DEF GenuineRecord
  <2>7. Genuine(path, c)'
    BY <2>2, <2>3, <2>6 DEF Genuine
  <2>8. Go(p, "opening", ToWrite(path, c))
    BY <2>1, <2>2, <2>3 DEF Start
  <2>9. path \in Dirs \X Written
    BY <2>2, <2>4 DEF Written
  <2>10. QED  BY <2>7, <2>8, <2>9, GoesToWrite
<1>3. ASSUME NEW p \in Procs, write_runtime_evidence_bundle_index(p) PROVE WritesGenuine'
  <2>1. PICK leaf \in built \cup StoredLeaves :
          /\ Loadable(leaf)
          /\ Start(p, "opening",
               ToWrite(<<leaf["artifact_dir"], "bundle">>, [kind |-> "bundle", leaf |-> leaf]))
          /\ UNCHANGED built
    BY <1>3 DEF write_runtime_evidence_bundle_index
  <2>2. PICK path : path = <<leaf["artifact_dir"], "bundle">>
    OBVIOUS
  <2>3. PICK c : c = [kind |-> "bundle", leaf |-> leaf]
    OBVIOUS
  <2>4. /\ leaf["artifact_dir"] \in Dirs
        /\ edits <= 1 => \E r \in built : SameVerdict(leaf, r)
    BY <2>1, LoadableIsGenuine
  <2>5. Genuine(path, c)
    BY <2>2, <2>3, <2>4 DEF Genuine, GenuineBundle
  <2>6. Genuine(path, c)'
    BY <1>0, <2>5, GenuineStays
  <2>7. Go(p, "opening", ToWrite(path, c))
    BY <2>1, <2>2, <2>3 DEF Start
  <2>8. path \in Dirs \X Written
    BY <2>2, <2>4 DEF Written
  <2>9. QED  BY <2>6, <2>7, <2>8, GoesToWrite
<1>4. ASSUME NEW p \in Procs, write_backend_contract_report(p) PROVE WritesGenuine'
  <2>1. PICK c : c = job'[p].content
    OBVIOUS
  <2>2. PICK path : path = <<job[p].dir, "report">>
    OBVIOUS
  <2>3. /\ job[p].dir \in Dirs /\ c.kind = "report" /\ GenuineReport(c)
        /\ Go(p, "opening", ToWrite(path, c))
    BY <1>4, <2>1, <2>2, ReportSummarised
  <2>4. Genuine(path, c)
    BY <2>2, <2>3 DEF Genuine
  <2>5. Genuine(path, c)'
    BY <1>0, <2>4, GenuineStays
  <2>6. path \in Dirs \X Written
    BY <2>2, <2>3 DEF Written
  <2>7. QED  BY <2>3, <2>5, <2>6, GoesToWrite
<1>5. ASSUME NEW p \in Procs, current_git_sha(p) PROVE WritesGenuine'
  <2>1. PICK c : c = job'[p].content
    OBVIOUS
  <2>2. PICK path : path = <<job[p].dir, "scan">>
    OBVIOUS
  <2>3. GenuineScan(c)'
    BY <1>5, <2>1, ScanReported
  <2>4. c.kind = "scan"
    BY <2>3 DEF GenuineScan
  <2>5. Genuine(path, c)'
    BY <2>2, <2>3, <2>4 DEF Genuine
  <2>6. /\ pc[p] = "reading"
        /\ \E d : Go(p, "opening", ToWrite(path, d))
    BY <1>5, <2>2 DEF current_git_sha
  <2>7. PICK d : Go(p, "opening", ToWrite(path, d))
    BY <2>6
  <2>8. d = c
    BY <1>0, <2>1, <2>7 DEF Go, ToWrite, ToolsTypeOK
  <2>9. path \in Dirs \X Written
    BY <2>2, <2>6 DEF Written, EvidenceInv, ScansUnderWay, ScanUnderWay
  <2>10. QED  BY <2>5, <2>7, <2>8, <2>9, GoesToWrite
<1>6. ASSUME NEW p \in Procs, write_benchmark_artifact_manifest(p) PROVE WritesGenuine'
  <2>1. PICK dir \in ReportDirs :
          /\ file[<<dir, "scan">>].kind = "scan"
          /\ _validated_no_leak_scan(file[<<dir, "scan">>])
          /\ Start(p, "opening", ToWrite(<<dir, "manifest">>,
               [kind |-> "manifest", sha |-> HEAD, scan |-> file[<<dir, "scan">>]]))
    BY <1>6 DEF write_benchmark_artifact_manifest
  <2>2. PICK path : path = <<dir, "manifest">>
    OBVIOUS
  <2>3. PICK scan : scan = file[<<dir, "scan">>]
    OBVIOUS
  <2>4. PICK c : c = [kind |-> "manifest", sha |-> HEAD, scan |-> scan]
    OBVIOUS
  <2>5. GenuineManifest(c)
    BY <2>1, <2>3, <2>4, ManifestVouches, ReportDirsAssumption
  <2>6. Genuine(path, c)
    BY <2>2, <2>4, <2>5 DEF Genuine
  <2>7. Genuine(path, c)'
    BY <1>0, <2>6, GenuineStays
  <2>8. Go(p, "opening", ToWrite(path, c))
    BY <2>1, <2>2, <2>3, <2>4 DEF Start
  <2>9. path \in Dirs \X Written
    BY <2>2, ReportDirsAssumption DEF Written
  <2>10. QED  BY <2>7, <2>8, <2>9, GoesToWrite
<1>7. ASSUME NEW p \in Procs, StartProbe(p) PROVE WritesGenuine'
  <2> DEFINE P == {p}
  <2>1. /\ \A q \in Procs \ P :
             pc'[q] = pc[q] /\ (pc[q] \in {"opening", "writing"} => job'[q] = job[q])
        /\ \A q \in P : pc'[q] \notin {"opening", "writing"}
    BY <1>0, <1>7 DEF StartProbe, Probing, ToolsTypeOK
  <2> HIDE DEF P
  <2>2. QED  BY <2>1, WritesStay
<1>8. ASSUME NEW p \in Procs,
             \/ Write(p) \/ ToolEnds(p) \/ FetchMetrics(p) \/ Bench(p) \/ BenchFails(p)
             \/ load_public_release_candidate_files(p) \/ ReadFile(p)
      PROVE  WritesGenuine'
  <2> DEFINE P == {p}
  <2>1. \E label \in {"idle", "benching", "summarising", "reading"} : \E newjob :
          Go(p, label, newjob)
    BY <1>8 DEF Write, ToolEnds, FetchMetrics, Bench, BenchFails, ReadFile, Start,
       load_public_release_candidate_files
  <2>2. /\ \A q \in Procs \ P : pc'[q] = pc[q] /\ job'[q] = job[q]
        /\ \A q \in P : pc'[q] \notin {"opening", "writing"}
    BY <1>0, <2>1, GoesAlone
  <2> HIDE DEF P
  <2>3. QED  BY <2>2, WritesStay
<1>9. ASSUME EditTree \/ Commit \/ EditEvidence \/ UNCHANGED vars PROVE WritesGenuine'
  <2> DEFINE P == {}
  <2>1. \A q \in Procs \ P :
          pc'[q] = pc[q] /\ (pc[q] \in {"opening", "writing"} => job'[q] = job[q])
    BY <1>9 DEF EditTree, Commit, EditEvidence, vars, Disturbed
  <2>2. \A q \in P : FALSE
    OBVIOUS
  <2> HIDE DEF P
  <2>3. QED  BY <2>1, <2>2, WritesStay
<1>10. QED
  BY <1>1, <1>2, <1>3, <1>4, <1>5, <1>6, <1>7, <1>8, <1>9 DEF Next

-----------------------------------------------------------------------------
(* Probes.                                                                 *)

\* A probe goes on alone if nobody joins it and nobody touches its files.
LEMMA ProbeStays ==
  ASSUME EvidenceInv, [Next]_vars, NEW p \in Procs, ProbeAlone(p),
         pc'[p] = pc[p], job'[p] = job[p], NEW dir, dir = job[p].dir,
         pc[p] \in Probes /\ job[p].alone =>
           /\ file'[<<dir, "metrics">>] = file[<<dir, "metrics">>]
           /\ file'[<<dir, "rows">>] = file[<<dir, "rows">>]
           /\ \A q \in Procs \ {p} : Probing(q, dir)' => Probing(q, dir)
  PROVE  ProbeAlone(p)'
<1>1. SUFFICES ASSUME pc[p] \in Probes, job[p].alone
               PROVE  (\A q \in Procs \ {p} : ~Probing(q, dir)') /\ OwnMetrics(p, dir)'
  BY DEF ProbeAlone
<1>2. served \in Nat /\ served' \in Nat /\ served <= served'
  BY Grows DEF EvidenceInv, ToolsTypeOK
<1>3. dir \in Dirs /\ OwnMetrics(p, dir) /\ \A q \in Procs \ {p} : ~Probing(q, dir)
  BY <1>1 DEF ProbeAlone
<1>4. PICK rows : rows = file[<<dir, "rows">>]
  OBVIOUS
<1>5. rows.kind = "rows" => Len(rows.rows) \in Nat
  <2>1. PICK path : path = <<dir, "rows">>
    OBVIOUS
  <2>2. path \in Paths /\ rows = file[path]
    BY <1>3, <1>4, <2>1 DEF Paths
  <2>3. rows.kind = "rows" => rows.rows \in Seq(Row)
    BY <2>2 DEF EvidenceInv, FilesGenuine, Genuine
  <2>4. QED  BY <2>3
<1>6. OwnMetrics(p, dir)'
  BY <1>1, <1>2, <1>3, <1>4, <1>5 DEF OwnMetrics
<1>7. QED  BY <1>1, <1>3, <1>6

\* Processes outside P stay where they are, those in P do not probe.
LEMMA ProbesStay ==
  ASSUME EvidenceInv, [Next]_vars, NEW P,
         \A q \in Procs \ P : pc'[q] = pc[q] /\ (pc[q] \in Probes => job'[q] = job[q]),
         \A q \in P : pc'[q] \notin Probes,
         \A dir \in Dirs : /\ file'[<<dir, "metrics">>] = file[<<dir, "metrics">>]
                           /\ file'[<<dir, "rows">>] = file[<<dir, "rows">>]
  PROVE  ProbesAlone'
<1>1. SUFFICES ASSUME NEW p \in Procs, pc'[p] \in Probes PROVE ProbeAlone(p)'
  BY DEF ProbesAlone, ProbeAlone
<1>2. pc'[p] = pc[p] /\ job'[p] = job[p] /\ ProbeAlone(p)
  BY <1>1 DEF EvidenceInv, ProbesAlone
<1>3. PICK dir : dir = job[p].dir
  OBVIOUS
<1>4. dir \in Dirs
  BY <1>1, <1>2, <1>3 DEF ProbeAlone
<1>5. \A q \in Procs \ {p} : Probing(q, dir)' => Probing(q, dir)
  BY DEF Probing, Probes
<1>6. QED  BY <1>2, <1>3, <1>4, <1>5, ProbeStays

\* A probe starts: those that it meets are no longer alone.
LEMMA ProbeStarts ==
  ASSUME EvidenceInv, [Next]_vars, NEW p \in Procs, StartProbe(p)
  PROVE  ProbesAlone'
<1>0. PICK dir \in ReportDirs :
        LET others == {q \in Procs : Probing(q, dir)}
            probe == [tool |-> "probe", dir |-> dir, id |-> starts + 1, alone |-> others = {}]
        IN /\ pc[p] = "idle"
           /\ pc' = [pc EXCEPT ![p] = "fetching"]
           /\ job' = [q \in Procs |->
                IF q = p THEN probe
                ELSE IF q \in others THEN [job[q] EXCEPT !.alone = FALSE] ELSE job[q]]
           /\ file' = [file EXCEPT ![<<dir, "metrics">>] = Torn]
  BY DEF StartProbe
<1> DEFINE others == {q \in Procs : Probing(q, dir)}
           probe == [tool |-> "probe", dir |-> dir, id |-> starts + 1, alone |-> others = {}]
<1>1. /\ others = {q \in Procs : Probing(q, dir)}
      /\ probe = [tool |-> "probe", dir |-> dir, id |-> starts + 1, alone |-> others = {}]
      /\ pc[p] = "idle"
      /\ pc' = [pc EXCEPT ![p] = "fetching"]
      /\ job' = [q \in Procs |->
           IF q = p THEN probe
           ELSE IF q \in others THEN [job[q] EXCEPT !.alone = FALSE] ELSE job[q]]
      /\ file' = [file EXCEPT ![<<dir, "metrics">>] = Torn]
  BY <1>0
<1> HIDE DEF others, probe
<1>2. dir \in Dirs /\ ToolsTypeOK
  BY ReportDirsAssumption DEF EvidenceInv
<1>3. /\ pc'[p] = "fetching" /\ job'[p] = probe
      /\ \A q \in Procs \ {p} : pc'[q] = pc[q]
  BY <1>1, <1>2 DEF ToolsTypeOK
<1>4. \A q \in Procs \ others : q # p => job'[q] = job[q]
  BY <1>1
<1>5. ASSUME NEW q \in others
      PROVE  /\ q \in Procs /\ pc[q] \in Probes /\ q # p
             /\ job'[q] = [tool |-> "probe", dir |-> job[q].dir, id |-> job[q].id,
                           alone |-> FALSE]
             /\ job[q].dir = dir /\ job'[q].dir = dir
  <2>1. q \in Procs /\ pc[q] \in Probes /\ q # p /\ job[q].dir = dir
    BY <1>1, <1>5 DEF Probing, Probes
  <2>2. ProbeAlone(q)
    BY <2>1 DEF EvidenceInv, ProbesAlone
  <2>3. job'[q] = [job[q] EXCEPT !.alone = FALSE]
    BY <1>1, <1>5, <2>1
  <2> DEFINE j == job[q]
             d == j.dir
             id == j.id
             alone == j.alone
  <2>4. j = [tool |-> "probe", dir |-> d, id |-> id, alone |-> alone]
    BY <2>1, <2>2 DEF ProbeAlone
  <2> HIDE DEF j, d, id, alone
  <2>5. job'[q] = [j EXCEPT !.alone = FALSE]
    BY <2>3 DEF j
  <2>6. job'[q] = [tool |-> "probe", dir |-> d, id |-> id, alone |-> FALSE]
    BY <2>4, <2>5
  <2>7. job'[q].dir = d
    BY <2>6
  <2>8. QED  BY <2>1, <2>6, <2>7 DEF j, d, id
<1>6. SUFFICES ASSUME NEW q \in Procs, pc'[q] \in Probes PROVE ProbeAlone(q)'
  BY DEF ProbesAlone, ProbeAlone
<1>7. CASE q = p
  <2>1. /\ probe = [tool |-> "probe", dir |-> probe.dir, id |-> probe.id,
                    alone |-> probe.alone]
        /\ probe.dir = dir /\ probe.alone = (others = {})
    BY <1>1
  <2>2. ASSUME others = {}, NEW r \in Procs \ {p} PROVE ~Probing(r, dir)'
    <3>1. ~Probing(r, dir) /\ r \notin others /\ r # p
      BY <1>1, <2>2
    <3>2. pc'[r] = pc[r] /\ job'[r] = job[r]
      BY <1>3, <1>4, <3>1
    <3>3. QED  BY <3>1, <3>2 DEF Probing
  <2>3. OwnMetrics(p, dir)'
    BY <1>3 DEF OwnMetrics
  <2>4. job'[p] = probe /\ probe.alone \in BOOLEAN /\ dir \in Dirs
    BY <1>2, <1>3, <2>1
  <2> HIDE DEF probe, others
  <2>5. QED  BY <1>7, <2>1, <2>2, <2>3, <2>4 DEF ProbeAlone
<1>8. CASE q \in others
  <2> DEFINE d == job[q].dir
             id == job[q].id
  <2>1. job'[q] = [tool |-> "probe", dir |-> d, id |-> id, alone |-> FALSE] /\ d = dir
    BY <1>5, <1>8
  <2> HIDE DEF d, id
  <2>2. /\ job'[q] = [tool |-> "probe", dir |-> job'[q].dir, id |-> job'[q].id,
                      alone |-> job'[q].alone]
        /\ job'[q].dir = dir /\ job'[q].alone = FALSE
    BY <2>1
  <2>3. QED  BY <1>2, <2>2 DEF ProbeAlone
<1>9. CASE q # p /\ q \notin others
  <2>1. pc'[q] = pc[q] /\ job'[q] = job[q] /\ ProbeAlone(q)
    BY <1>3, <1>4, <1>9 DEF EvidenceInv, ProbesAlone
  <2>2. PICK own : own = job[q].dir
    OBVIOUS
  <2>3. own # dir /\ own \in Dirs
    BY <1>1, <1>6, <1>9, <2>1, <2>2 DEF Probing, Probes, ProbeAlone
  <2>4. /\ file'[<<own, "metrics">>] = file[<<own, "metrics">>]
        /\ file'[<<own, "rows">>] = file[<<own, "rows">>]
    BY <1>1, <1>2, <2>3 DEF ToolsTypeOK, Paths
  <2>5. ASSUME NEW r \in Procs \ {q}, Probing(r, own)' PROVE Probing(r, own)
    <3>1. r # p
      BY <1>1, <1>3, <2>3, <2>5 DEF Probing
    <3>2. CASE r \in others
      <4>1. job'[r].dir = dir
        BY <1>5, <3>2
      <4>2. QED  BY <2>3, <2>5, <4>1 DEF Probing
    <3>3. CASE r \notin others
      BY <1>3, <1>4, <2>5, <3>1, <3>3 DEF Probing
    <3>4. QED  BY <3>2, <3>3
  <2>6. QED  BY <2>1, <2>2, <2>4, <2>5, ProbeStays
<1>10. QED  BY <1>7, <1>8, <1>9

\* A probe that is not p and alone is in another directory than p.
LEMMA AloneElsewhere ==
  ASSUME EvidenceInv, NEW p \in Procs, pc[p] \in Probes, NEW q \in Procs, q # p,
         pc[q] \in Probes, job[q].alone
  PROVE  job[q].dir \in Dirs /\ job[q].dir # job[p].dir
BY DEF EvidenceInv, ProbesAlone, ProbeAlone, Probing, Probes

\* A probe that goes on, and writes one of its files at most.
LEMMA ProbeGoesOn ==
  ASSUME EvidenceInv, [Next]_vars, NEW p \in Procs, pc[p] \in Probes,
         NEW label \in Probes, Go(p, label, job[p]),
         \A dir \in Dirs \ {job[p].dir} :
           /\ file'[<<dir, "metrics">>] = file[<<dir, "metrics">>]
           /\ file'[<<dir, "rows">>] = file[<<dir, "rows">>],
         job[p].alone => \A dir \in {job[p].dir} : OwnMetrics(p, dir)'
  PROVE  ProbesAlone'
<1>1. /\ pc'[p] = label /\ job'[p] = job[p]
      /\ \A q \in Procs \ {p} : pc'[q] = pc[q] /\ job'[q] = job[q]
  <2>1. PICK j : j = job[p]
    OBVIOUS
  <2>2. QED  BY <2>1, GoesAlone DEF EvidenceInv
<1>2. \A q \in Procs, dir \in Dirs : Probing(q, dir)' => Probing(q, dir)
  BY <1>1 DEF Probing, Probes
<1>3. SUFFICES ASSUME NEW q \in Procs, pc'[q] \in Probes PROVE ProbeAlone(q)'
  BY DEF ProbesAlone, ProbeAlone
<1>4. CASE q = p
  <2>1. ProbeAlone(p)
    BY DEF EvidenceInv, ProbesAlone
  <2>2. QED  BY <1>1, <1>2, <1>4, <2>1 DEF ProbeAlone
<1>5. CASE q # p
  <2>1. pc'[q] = pc[q] /\ job'[q] = job[q] /\ ProbeAlone(q)
    BY <1>1, <1>5 DEF EvidenceInv, ProbesAlone
  <2>2. PICK dir : dir = job[q].dir
    OBVIOUS
  <2>3. job[q].alone => dir \in Dirs /\ dir # job[p].dir
    BY <1>3, <1>5, <2>1, <2>2, AloneElsewhere
  <2>4. QED  BY <1>2, <2>1, <2>2, <2>3, ProbeStays
<1>6. QED  BY <1>4, <1>5

\* The counter of a metrics text is what the server had served, or is missing.
LEMMA CounterExported ==
  ASSUME NEW names
  PROVE  summarize_vllm_mlx_metrics(Exported(names)).requests \in {0, served}
<1> DEFINE text == Exported(names)
<1>1. DOMAIN text = names /\ \A name \in names :
        text[name] = <<IF name = RequestsMetric THEN served ELSE 0>>
  BY DEF Exported
<1>2. CASE RequestsMetric \in names
  <2>1. text[RequestsMetric] = <<served>>
    BY <1>1, <1>2
  <2>2. _sample_value(<<served>>) = served
    BY DEF _sample_value
  <2> HIDE DEF text
  <2>3. summarize_vllm_mlx_metrics(text).requests = served
    BY <1>1, <1>2, <2>1, <2>2 DEF summarize_vllm_mlx_metrics
  <2>4. QED  BY <2>3 DEF text
<1>3. CASE RequestsMetric \notin names
  <2> HIDE DEF text
  <2>1. summarize_vllm_mlx_metrics(text).requests = 0
    BY <1>1, <1>3 DEF summarize_vllm_mlx_metrics
  <2>2. QED  BY <2>1 DEF text
<1>4. QED  BY <1>2, <1>3

\* Every step leaves a probe that is alone its own files.
LEMMA ProbesNext ==
  ASSUME EvidenceInv, [Next]_vars
  PROVE  ProbesAlone'
<1>0. ToolsTypeOK /\ served \in Nat
  BY DEF EvidenceInv, ToolsTypeOK
<1>1. ASSUME NEW p \in Procs, StartProbe(p) PROVE ProbesAlone'
  BY <1>1, ProbeStarts
<1>2. ASSUME NEW p \in Procs, FetchMetrics(p) PROVE ProbesAlone'
  <2>1. PICK dir : dir = job[p].dir
    OBVIOUS
  <2>2. PICK names \in Exports :
          file' = [file EXCEPT ![<<dir, "metrics">>] =
                    [kind |-> "metrics", probe |-> job[p].id, text |-> Exported(names)]]
    BY <1>2, <2>1 DEF FetchMetrics
  <2>3. PICK c : c = [kind |-> "metrics", probe |-> job[p].id, text |-> Exported(names)]
    OBVIOUS
  <2>4. /\ pc[p] = "fetching" /\ Go(p, "benching", job[p]) /\ served' = served
        /\ pc'[p] = "benching" /\ job'[p] = job[p]
    BY <1>0, <1>2 DEF FetchMetrics, Go, ToolsTypeOK
  <2>5. dir \in Dirs
    BY <2>1, <2>4 DEF EvidenceInv, ProbesAlone, ProbeAlone, Probes
  <2>6. /\ \A other \in Dirs \ {dir} :
             /\ file'[<<other, "metrics">>] = file[<<other, "metrics">>]
             /\ file'[<<other, "rows">>] = file[<<other, "rows">>]
        /\ file'[<<dir, "metrics">>] = c
    BY <1>0, <2>2, <2>3, <2>5 DEF ToolsTypeOK, Paths
  <2>7. /\ c.kind = "metrics" /\ c.probe = job[p].id
        /\ Requests(c) \in {0, served}
    BY <2>3, CounterExported DEF Requests
  <2>8. Requests(c) \in Nat /\ Requests(c) <= served
    BY <1>0, <2>7
  <2>9. OwnMetrics(p, dir)'
    <3>1. Requests(file'[<<dir, "metrics">>]) = Requests(c)
      BY <2>6
    <3>2. QED  BY <2>4, <2>6, <2>7, <2>8, <3>1 DEF OwnMetrics, Requests
  <2>10. pc[p] \in Probes /\ "benching" \in Probes
    BY <2>4 DEF Probes
  <2>11. QED  BY <2>1, <2>4, <2>6, <2>9, <2>10, ProbeGoesOn
<1>3. ASSUME NEW p \in Procs, Bench(p) PROVE ProbesAlone'
  <2>1. PICK dir : dir = job[p].dir
    OBVIOUS
  <2>2. PICK rows \in Benchmarks :
          /\ served' = served + Len(rows)
          /\ file' = [file EXCEPT ![<<dir, "rows">>] =
                       [kind |-> "rows", probe |-> job[p].id, rows |-> rows]]
    BY <1>3, <2>1 DEF Bench
  <2>3. PICK c : c = [kind |-> "rows", probe |-> job[p].id, rows |-> rows]
    OBVIOUS
  <2>4. /\ pc[p] = "benching" /\ Go(p, "summarising", job[p])
        /\ pc'[p] = "summarising" /\ job'[p] = job[p]
    BY <1>0, <1>3 DEF Bench, Go, ToolsTypeOK
  <2>5. ProbeAlone(p)
    BY DEF EvidenceInv, ProbesAlone
  <2>6. dir \in Dirs /\ (job[p].alone => OwnMetrics(p, dir))
    BY <2>1, <2>4, <2>5 DEF ProbeAlone, Probes
  <2>7. /\ \A other \in Dirs \ {dir} :
             /\ file'[<<other, "metrics">>] = file[<<other, "metrics">>]
             /\ file'[<<other, "rows">>] = file[<<other, "rows">>]
        /\ file'[<<dir, "metrics">>] = file[<<dir, "metrics">>]
        /\ file'[<<dir, "rows">>] = c
    BY <1>0, <2>2, <2>3, <2>6 DEF ToolsTypeOK, Paths
  <2>8. c.kind = "rows" /\ c.probe = job[p].id /\ c.rows = rows
    BY <2>3
  <2>9. Len(rows) \in Nat
    BY BenchmarksAssumption
  <2>10. PICK metrics : metrics = file[<<dir, "metrics">>]
    OBVIOUS
  <2>11. ASSUME job[p].alone PROVE OwnMetrics(p, dir)'
    <3>1. /\ metrics.kind = "metrics" /\ metrics.probe = job[p].id
          /\ Requests(metrics) \in Nat /\ Requests(metrics) <= served
      BY <2>4, <2>6, <2>10, <2>11 DEF OwnMetrics
    <3>2. /\ Requests(metrics) <= served'
          /\ Requests(metrics) + Len(c.rows) <= served'
      BY <1>0, <2>2, <2>8, <2>9, <3>1
    <3>3. file'[<<dir, "metrics">>] = metrics
      BY <2>7, <2>10
    <3>4. QED  BY <2>4, <2>7, <2>8, <3>1, <3>2, <3>3 DEF OwnMetrics, Requests
  <2>12. pc[p] \in Probes /\ "summarising" \in Probes
    BY <2>4 DEF Probes
  <2>13. QED  BY <2>1, <2>4, <2>7, <2>11, <2>12, ProbeGoesOn
<1>4. ASSUME NEW p \in Procs, Open(p) \/ Write(p) PROVE ProbesAlone'
  <2>1. PICK path : path = job[p].target
    OBVIOUS
  <2>2. PICK c : c = job[p].content
    OBVIOUS
  <2>3. /\ pc[p] \in {"opening", "writing"}
        /\ \E d : file' = [file EXCEPT ![path] = d]
    BY <1>4, <2>1 DEF Open, Write
  <2>4. path \in Dirs \X Written
    BY <2>1, <2>2, <2>3, WriteStays DEF EvidenceInv, Written
  <2>5. \A dir \in Dirs : /\ file'[<<dir, "metrics">>] = file[<<dir, "metrics">>]
                          /\ file'[<<dir, "rows">>] = file[<<dir, "rows">>]
    <3>1. \A dir \in Dirs : <<dir, "metrics">> # path /\ <<dir, "rows">> # path
      BY <2>4 DEF Written
    <3>2. QED  BY <1>0, <2>3, <3>1 DEF ToolsTypeOK, Paths
  <2> DEFINE P == {p}
  <2>6. /\ \A q \in Procs \ P : pc'[q] = pc[q] /\ job'[q] = job[q]
        /\ \A q \in P : pc'[q] \notin Probes
    BY <1>0, <1>4 DEF Open, Write, Go, ToolsTypeOK, Probes
  <2> HIDE DEF P
  <2>7. QED  BY <2>5, <2>6, ProbesStay
<1>5. ASSUME NEW p \in Procs,
             \/ ToolEnds(p) \/ write_runtime_execution_record(p)
             \/ write_runtime_evidence_bundle_index(p) \/ BenchFails(p)
             \/ write_backend_contract_report(p) \/ load_public_release_candidate_files(p)
             \/ ReadFile(p) \/ current_git_sha(p) \/ write_benchmark_artifact_manifest(p)
      PROVE  ProbesAlone'
  <2>1. UNCHANGED file
    BY <1>5 DEF ToolEnds, write_runtime_execution_record, write_runtime_evidence_bundle_index,
       BenchFails, write_backend_contract_report, load_public_release_candidate_files,
       ReadFile, current_git_sha, write_benchmark_artifact_manifest
  <2>2. \E label \in {"idle", "opening", "reading"} : \E newjob : Go(p, label, newjob)
    BY <1>5 DEF ToolEnds, write_runtime_execution_record, write_runtime_evidence_bundle_index,
       BenchFails, write_backend_contract_report, load_public_release_candidate_files,
       ReadFile, current_git_sha, write_benchmark_artifact_manifest, Start
  <2> DEFINE P == {p}
  <2>3. /\ \A q \in Procs \ P : pc'[q] = pc[q] /\ job'[q] = job[q]
        /\ \A q \in P : pc'[q] \notin Probes
    BY <1>0, <2>2, GoesAlone DEF Probes
  <2> HIDE DEF P
  <2>4. QED  BY <2>1, <2>3, ProbesStay
<1>6. ASSUME EditTree \/ Commit \/ EditEvidence \/ UNCHANGED vars PROVE ProbesAlone'
  <2>1. \A dir \in Dirs : /\ file'[<<dir, "metrics">>] = file[<<dir, "metrics">>]
                          /\ file'[<<dir, "rows">>] = file[<<dir, "rows">>]
    BY <1>0, <1>6 DEF EditTree, Commit, EditEvidence, vars, ToolsTypeOK, Paths
  <2> DEFINE P == {}
  <2>2. /\ \A q \in Procs \ P : pc'[q] = pc[q] /\ (pc[q] \in Probes => job'[q] = job[q])
        /\ \A q \in P : pc'[q] \notin Probes
    BY <1>6 DEF EditTree, Commit, EditEvidence, vars, Disturbed, Probes
  <2> HIDE DEF P
  <2>3. QED  BY <2>1, <2>2, ProbesStay
<1>7. QED  BY <1>1, <1>2, <1>3, <1>4, <1>5, <1>6 DEF Next

-----------------------------------------------------------------------------
(* Scans under way.                                                        *)

\* One file more has been read.
LEMMA FoundInOneMore ==
  ASSUME NEW todo \in SUBSET Files, NEW f \in todo
  PROVE  FoundIn(todo \ {f}) =
           IF tree[f] = "absent" THEN FoundIn(todo) ELSE FoundIn(todo) \cup FindingsOf(f, tree[f])
<1>1. CASE tree[f] = "absent"
  <2>1. Present(tree) \ (todo \ {f}) = Present(tree) \ todo
    BY <1>1 DEF Present
  <2>2. QED  BY <1>1, <2>1 DEF FoundIn
<1>2. CASE tree[f] # "absent"
  <2>1. Present(tree) \ (todo \ {f}) = (Present(tree) \ todo) \cup {f}
    BY <1>2 DEF Present
  <2>2. QED  BY <1>2, <2>1 DEF FoundIn
<1>3. QED  BY <1>1, <1>2

\* A file has finitely many findings, and so they can be counted.
LEMMA FindingsFinite ==
  ASSUME NEW f, NEW text
  PROVE  IsFiniteSet(FindingsOf(f, text))
<1>1. \A S, T : IsFiniteSet(S) /\ IsFiniteSet(T) => IsFiniteSet(S \cup T)
  BY FS_Union
<1>2. IsFiniteSet({}) /\ IsFiniteSet({<<"forbidden_tracked_path", f>>})
      /\ IsFiniteSet({<<"text", f>>})
  BY FS_EmptySet, FS_Singleton
<1>3. QED  BY <1>1, <1>2 DEF FindingsOf

\* A scan that has read another file.
LEMMA ScanReads ==
  ASSUME EvidenceInv, NEW p \in Procs, ReadFile(p)
  PROVE  ScanUnderWay(p)'
<1>1. ScanUnderWay(p) /\ pc[p] = "reading" /\ ToolsTypeOK
  BY DEF EvidenceInv, ScansUnderWay, ReadFile
<1> DEFINE j == job[p]
           dir == j.dir
           todo == j.todo
           findings == j.findings
           quiet == j.quiet
<1>2. /\ j = [tool |-> "scan", dir |-> dir, todo |-> todo, findings |-> findings,
              quiet |-> quiet]
      /\ dir \in Dirs /\ quiet \in BOOLEAN /\ todo \subseteq Files /\ IsFiniteSet(findings)
      /\ quiet => findings = FoundIn(todo)
  BY <1>1 DEF ScanUnderWay
<1>3. PICK f \in todo :
        Go(p, "reading", [j EXCEPT
             !.todo = @ \ {f},
             !.findings = IF tree[f] = "absent" THEN @ ELSE @ \cup FindingsOf(f, tree[f])])
  BY DEF ReadFile
<1> DEFINE found == IF tree[f] = "absent" THEN findings ELSE findings \cup FindingsOf(f, tree[f])
<1>4. tree' = tree
  BY DEF ReadFile, repo
<1> HIDE DEF dir, todo, findings, quiet
<1>5. j.todo = todo /\ j.findings = findings
  BY DEF todo, findings
<1> HIDE DEF j
<1>6. [j EXCEPT !.todo = @ \ {f},
                !.findings = IF tree[f] = "absent" THEN @ ELSE @ \cup FindingsOf(f, tree[f])]
      = [tool |-> "scan", dir |-> dir, todo |-> todo \ {f}, findings |-> found, quiet |-> quiet]
  <2> DEFINE rest == todo \ {f}
             k == [j EXCEPT !.todo = rest]
  <2>1. k = [tool |-> "scan", dir |-> dir, todo |-> rest, findings |-> findings,
             quiet |-> quiet]
    <3> HIDE DEF rest
    <3>1. QED  BY <1>2
  <2> HIDE DEF k
  <2>2. [k EXCEPT !.findings = found]
        = [tool |-> "scan", dir |-> dir, todo |-> rest, findings |-> found, quiet |-> quiet]
    <3> HIDE DEF rest, found
    <3>1. QED  BY <2>1
  <2>3. QED  BY <1>5, <2>2 DEF k
<1>7. job'[p] = [tool |-> "scan", dir |-> dir, todo |-> todo \ {f}, findings |-> found,
                 quiet |-> quiet]
  BY <1>1, <1>3, <1>6 DEF Go, ToolsTypeOK
<1>8. IsFiniteSet(found)
  <2>1. \A S, T : IsFiniteSet(S) /\ IsFiniteSet(T) => IsFiniteSet(S \cup T)
    BY FS_Union
  <2>2. QED  BY <1>2, <2>1, FindingsFinite
<1>9. quiet => found = FoundIn(todo \ {f})
  BY <1>2, FoundInOneMore
<1>10. \A t : FoundIn(t)' = FoundIn(t)
  BY <1>4 DEF FoundIn, Present
<1> DEFINE rest == todo \ {f}
<1>11. rest \subseteq Files /\ (quiet => found = FoundIn(rest))
  BY <1>2, <1>9
<1> HIDE DEF rest, found
<1>12. /\ job'[p] = [tool |-> "scan", dir |-> job'[p].dir, todo |-> job'[p].todo,
                     findings |-> job'[p].findings, quiet |-> job'[p].quiet]
       /\ job'[p].dir = dir /\ job'[p].todo = rest /\ job'[p].findings = found
       /\ job'[p].quiet = quiet
  <2>1. job'[p] = [tool |-> "scan", dir |-> dir, todo |-> rest, findings |-> found,
                   quiet |-> quiet]
    BY <1>7 DEF rest, found
  <2>2. QED  BY <2>1
<1>13. QED  BY <1>2, <1>8, <1>10, <1>11, <1>12 DEF ScanUnderWay

\* Other processes' scans go on; a change of the tree disturbs them.
LEMMA ScansNext ==
  ASSUME EvidenceInv, [Next]_vars
  PROVE  ScansUnderWay'
<1>0. ToolsTypeOK /\ ScansUnderWay
  BY DEF EvidenceInv
<1>1. ASSUME NEW p \in Procs, pc'[p] = pc[p], job'[p] = job[p], tree' = tree
      PROVE  ScanUnderWay(p)'
  <2>1. ScanUnderWay(p)
    BY <1>0 DEF ScansUnderWay
  <2>2. \A t : FoundIn(t)' = FoundIn(t)
    BY <1>1 DEF FoundIn, Present
  <2>3. QED  BY <1>1, <2>1, <2>2 DEF ScanUnderWay
<1>2. ASSUME NEW p \in Procs, tree' = tree,
             \A q \in Procs \ {p} : pc'[q] = pc[q] /\ (pc[q] = "reading" => job'[q] = job[q]),
             ScanUnderWay(p)'
      PROVE  ScansUnderWay'
  <2>1. ASSUME NEW q \in Procs \ {p} PROVE ScanUnderWay(q)'
    <3>1. CASE pc[q] = "reading"
      BY <1>1, <1>2, <3>1
    <3>2. CASE pc[q] # "reading"
      BY <1>2, <3>2 DEF ScanUnderWay
    <3>3. QED  BY <3>1, <3>2
  <2>2. QED  BY <1>2, <2>1 DEF ScansUnderWay
<1>3. ASSUME NEW p \in Procs,
             \/ Open(p) \/ Write(p) \/ ToolEnds(p)
             \/ write_runtime_execution_record(p) \/ write_runtime_evidence_bundle_index(p)
             \/ FetchMetrics(p) \/ Bench(p) \/ BenchFails(p)
             \/ write_backend_contract_report(p) \/ current_git_sha(p)
             \/ write_benchmark_artifact_manifest(p)
      PROVE  ScansUnderWay'
  <2>1. tree' = tree
    BY <1>3 DEF Open, Write, ToolEnds, write_runtime_execution_record,
       write_runtime_evidence_bundle_index, FetchMetrics, Bench, BenchFails,
       write_backend_contract_report, current_git_sha, write_benchmark_artifact_manifest, repo
  <2>2. \E label \in {"idle", "opening", "writing", "benching", "summarising"} : \E newjob :
          Go(p, label, newjob)
    BY <1>3 DEF Open, Write, ToolEnds, write_runtime_execution_record,
       write_runtime_evidence_bundle_index, FetchMetrics, Bench, BenchFails,
       write_backend_contract_report, current_git_sha, write_benchmark_artifact_manifest, Start
  <2>3. /\ \A q \in Procs \ {p} : pc'[q] = pc[q] /\ job'[q] = job[q]
        /\ pc'[p] # "reading"
    BY <1>0, <2>2, GoesAlone
  <2>4. ScanUnderWay(p)'
    BY <2>3 DEF ScanUnderWay
  <2>5. QED  BY <1>2, <2>1, <2>3, <2>4
<1>4. ASSUME NEW p \in Procs, StartProbe(p) PROVE ScansUnderWay'
  <2>1. /\ tree' = tree
        /\ \A q \in Procs \ {p} : pc'[q] = pc[q] /\ (pc[q] = "reading" => job'[q] = job[q])
        /\ pc'[p] # "reading"
    BY <1>0, <1>4 DEF StartProbe, Probing, ToolsTypeOK, repo
  <2>2. ScanUnderWay(p)'
    BY <2>1 DEF ScanUnderWay
  <2>3. QED  BY <1>2, <2>1, <2>2
<1>5. ASSUME NEW p \in Procs, load_public_release_candidate_files(p) PROVE ScansUnderWay'
  <2>1. PICK dir \in ReportDirs :
          Go(p, "reading", [tool |-> "scan", dir |-> dir, todo |-> Candidates,
                            findings |-> {}, quiet |-> TRUE])
    BY <1>5 DEF load_public_release_candidate_files, Start
  <2>2. tree' = tree
    BY <1>5 DEF load_public_release_candidate_files, repo
  <2>3. PICK files : files = Candidates
    OBVIOUS
  <2>4. PICK j : j = [tool |-> "scan", dir |-> dir, todo |-> files,
                      findings |-> {}, quiet |-> TRUE]
    OBVIOUS
  <2>5. /\ pc'[p] = "reading" /\ job'[p] = j
        /\ \A q \in Procs \ {p} : pc'[q] = pc[q] /\ job'[q] = job[q]
    BY <1>0, <2>1, <2>4, <2>3, GoesAlone
  <2>6. /\ j = [tool |-> "scan", dir |-> j.dir, todo |-> j.todo, findings |-> j.findings,
                quiet |-> j.quiet]
        /\ j.dir = dir /\ j.todo = files /\ j.findings = {} /\ j.quiet = TRUE
    BY <2>4
  <2>7. files \subseteq Files /\ FoundIn(files)' = {}
    BY <2>2, <2>3 DEF Candidates, Present, FoundIn
  <2>8. ScanUnderWay(p)'
    BY <2>5, <2>6, <2>7, FS_EmptySet, ReportDirsAssumption DEF ScanUnderWay
  <2>9. QED  BY <1>2, <2>2, <2>5, <2>8
<1>6. ASSUME NEW p \in Procs, ReadFile(p) PROVE ScansUnderWay'
  <2>1. \A q \in Procs \ {p} : pc'[q] = pc[q] /\ job'[q] = job[q]
    BY <1>0, <1>6 DEF ReadFile, Go, ToolsTypeOK
  <2>2. tree' = tree
    BY <1>6 DEF ReadFile, repo
  <2>3. QED  BY <1>2, <1>6, <2>1, <2>2, ScanReads
<1>7. ASSUME EditTree \/ Commit PROVE ScansUnderWay'
  <2>1. pc' = pc /\ job' = Disturbed
    BY <1>7 DEF EditTree, Commit
  <2>2. SUFFICES ASSUME NEW p \in Procs, pc[p] = "reading" PROVE ScanUnderWay(p)'
    BY <2>1 DEF ScansUnderWay, ScanUnderWay
  <2> DEFINE j == job[p]
             dir == j.dir
             todo == j.todo
             findings == j.findings
             quiet == j.quiet
  <2>3. /\ j = [tool |-> "scan", dir |-> dir, todo |-> todo, findings |-> findings,
                quiet |-> quiet]
        /\ dir \in Dirs /\ todo \subseteq Files /\ IsFiniteSet(findings)
    BY <1>0, <2>2 DEF ScansUnderWay, ScanUnderWay
  <2>4. job'[p] = [j EXCEPT !.quiet = FALSE]
    BY <2>1, <2>2 DEF Disturbed
  <2> HIDE DEF j, dir, todo, findings, quiet
  <2>5. job'[p] = [tool |-> "scan", dir |-> dir, todo |-> todo, findings |-> findings,
                   quiet |-> FALSE]
    BY <2>3, <2>4
  <2>6. /\ job'[p] = [tool |-> "scan", dir |-> job'[p].dir, todo |-> job'[p].todo,
                      findings |-> job'[p].findings, quiet |-> job'[p].quiet]
        /\ job'[p].dir = dir /\ job'[p].todo = todo /\ job'[p].findings = findings
        /\ job'[p].quiet = FALSE
    BY <2>5
  <2>7. QED  BY <2>3, <2>6 DEF ScanUnderWay
<1>8. ASSUME EditEvidence \/ UNCHANGED vars PROVE ScansUnderWay'
  <2>1. UNCHANGED <<pc, job, tree>>
    BY <1>8 DEF EditEvidence, vars, repo
  <2>2. QED  BY <1>1, <2>1 DEF ScansUnderWay
<1>9. QED  BY <1>3, <1>4, <1>5, <1>6, <1>7, <1>8 DEF Next

-----------------------------------------------------------------------------
(* The theorems.                                                           *)

\* There is no file and no tool at first.
LEMMA EvidenceInit == Init => EvidenceInv
<1> SUFFICES ASSUME Init PROVE EvidenceInv
  OBVIOUS
<1>1. ToolsTypeOK
  <2>1. PICK commit \in FirstTrees : history = <<commit>>
    BY DEF Init
  <2>2. commit \in Trees /\ tree \in Trees
    BY <2>1, FirstTreesAssumption DEF Init
  <2>3. history \in Seq(Trees) /\ history # <<>>
    <3> HIDE DEF Trees
    <3>1. QED  BY <2>1, <2>2
  <2>4. QED  BY <2>2, <2>3 DEF Init, ToolsTypeOK
<1>2. FilesGenuine
  BY DEF Init, FilesGenuine, Genuine, Absent
<1>3. WritesGenuine /\ ProbesAlone /\ ScansUnderWay
  BY DEF Init, WritesGenuine, ProbesAlone, ProbeAlone, ScansUnderWay, ScanUnderWay, Probes
<1>4. QED  BY <1>1, <1>2, <1>3 DEF EvidenceInv

\* Every step keeps the invariant.
LEMMA EvidenceNext == EvidenceInv /\ [Next]_vars => EvidenceInv'
<1> SUFFICES ASSUME EvidenceInv, [Next]_vars PROVE EvidenceInv'
  OBVIOUS
<1>1. ToolsTypeOK'
  BY ToolsTypeNext DEF EvidenceInv
<1>2. FilesGenuine'
  BY FilesNext
<1>3. WritesGenuine'
  BY WritesNext
<1>4. ProbesAlone'
  BY ProbesNext
<1>5. ScansUnderWay'
  BY ScansNext
<1>6. QED  BY <1>1, <1>2, <1>3, <1>4, <1>5 DEF EvidenceInv

\* Every file, every write and every tool under way is as EvidenceInv says.
LEMMA EvidenceInvariant == Spec => []EvidenceInv
<1>1. QED  BY EvidenceInit, EvidenceNext, PTL DEF Spec

\* The file of a kind in a directory is genuine.
LEMMA HeldIsGenuine ==
  ASSUME EvidenceInv, NEW dir \in Dirs,
         NEW kind \in {"bundle", "report", "scan", "manifest"}, Holds(dir, kind)
  PROVE  /\ kind = "bundle" => GenuineBundle(dir, file[<<dir, kind>>])
         /\ kind = "report" => GenuineReport(file[<<dir, kind>>])
         /\ kind = "scan" => GenuineScan(file[<<dir, kind>>])
         /\ kind = "manifest" => GenuineManifest(file[<<dir, kind>>])
<1>1. PICK path : path = <<dir, kind>>
  OBVIOUS
<1>2. PICK c : c = file[path]
  OBVIOUS
<1>3. path \in Paths /\ path[1] = dir /\ c.kind = kind
  BY <1>1, <1>2 DEF Paths, Holds
<1>4. Genuine(path, c)
  BY <1>2, <1>3 DEF EvidenceInv, FilesGenuine
<1>5. QED  BY <1>1, <1>2, <1>3, <1>4 DEF Genuine

\* Bundle indexes tell the verdict of a record that was built, however processes
\* write over each other and die, and whatever one edit of a stored record.
THEOREM BundlesAlwaysAsBuilt == Spec => []BundlesAsBuilt
<1>1. ASSUME EvidenceInv, edits <= 1, NEW dir \in Dirs, Holds(dir, "bundle")
      PROVE  GenuineBundle(dir, file[<<dir, "bundle">>])
  BY <1>1, HeldIsGenuine
<1>2. EvidenceInv => BundlesAsBuilt
  BY <1>1 DEF BundlesAsBuilt, GenuineBundle, SameVerdict
<1>3. QED  BY <1>2, EvidenceInvariant, PTL

\* A contract report of a probe that met no other in its directory is about that
\* probe's own metrics and rows, and does not count its own requests.
THEOREM ReportsAlwaysOfOneProbe == Spec => []ReportsOfOneProbe
<1>1. ASSUME EvidenceInv, NEW dir \in Dirs, Holds(dir, "report")
      PROVE  GenuineReport(file[<<dir, "report">>])
  BY <1>1, HeldIsGenuine
<1>2. EvidenceInv => ReportsOfOneProbe
  BY <1>1 DEF ReportsOfOneProbe, GenuineReport
<1>3. QED  BY <1>2, EvidenceInvariant, PTL

\* The percentile of every report is the nearest rank of its latencies, for rows
\* of any number: the index is in the list and is neither one too high nor low.
THEOREM PercentilesAlwaysNearestRank == Spec => []PercentilesAreNearestRank
<1>1. ASSUME EvidenceInv, NEW dir \in Dirs, Holds(dir, "report")
      PROVE  LET report == file[<<dir, "report">>]
                 values == Latencies(report.rows)
                 p95 == report.benchmark.e2e_p95
             IN /\ \E i \in DOMAIN values : values[i] = p95
                /\ 100 * Cardinality(AtMost(values, p95)) >= 95 * Len(values)
                /\ 100 * Cardinality(Below(values, p95)) < 95 * Len(values)
  <2>1. PICK report : report = file[<<dir, "report">>]
    OBVIOUS
  <2>2. /\ report.rows \in Seq(Row) /\ report.rows # <<>>
        /\ report.benchmark = build_benchmark_summary(report.rows)
    BY <1>1, <2>1, HeldIsGenuine DEF GenuineReport
  <2>3. PICK values : values = Latencies(report.rows)
    OBVIOUS
  <2>4. values \in Seq(Int) /\ values # <<>>
    <3>1. PICK rows \in Seq(Row) : rows = report.rows /\ rows # <<>>
      BY <2>2
    <3>2. /\ values = [i \in DOMAIN rows |-> rows[i].latency]
          /\ DOMAIN rows = 1..Len(rows)
      <4>1. values = Latencies(rows)
        BY <2>3, <3>1
      <4>2. QED  BY <4>1, LenProperties DEF Latencies
    <3>3. Len(rows) \in Nat /\ \A i \in 1..Len(rows) : rows[i].latency \in Int
      <4>1. Len(rows) \in Nat /\ \A i \in 1..Len(rows) : rows[i] \in Row
        BY LenProperties
      <4>2. \A row \in Row : row.latency \in Int
        BY DEF Row
      <4>3. QED  BY <4>1, <4>2
    <3>4. values = [i \in 1..Len(rows) |-> rows[i].latency]
      BY <3>2
    <3>5. values \in Seq(Int) /\ Len(values) = Len(rows)
      BY <3>3, <3>4
    <3>6. Len(rows) # 0
      BY <3>1, EmptySeq
    <3>7. QED  BY <3>5, <3>6, EmptySeq
  <2>5. report.benchmark.e2e_p95 = _percentile(values, 95)
    BY <2>2, <2>3 DEF build_benchmark_summary
  <2>6. PICK p95 : p95 = report.benchmark.e2e_p95
    OBVIOUS
  <2>7. 95 \in 1..100 /\ p95 = _percentile(values, 95)
    BY <2>5, <2>6
  <2>8. /\ \E i \in DOMAIN values : values[i] = p95
        /\ 100 * Cardinality(AtMost(values, p95)) >= 95 * Len(values)
        /\ 100 * Cardinality(Below(values, p95)) < 95 * Len(values)
    <3> DEFINE Ranks(some, h, p) ==
                 /\ \E i \in DOMAIN some : some[i] = p
                 /\ 100 * Cardinality(AtMost(some, p)) >= h * Len(some)
                 /\ 100 * Cardinality(Below(some, p)) < h * Len(some)
    <3>1. \A some \in Seq(Int), h \in 1..100 : \A p :
             some # <<>> /\ p = _percentile(some, h) => Ranks(some, h, p)
      BY NearestRank
    <3> HIDE DEF Ranks
    <3>2. Ranks(values, 95, p95)
      BY <2>4, <2>7, <3>1
    <3>3. QED  BY <3>2 DEF Ranks
  <2>9. QED  BY <2>1, <2>3, <2>6, <2>8
<1>2. EvidenceInv => PercentilesAreNearestRank
  BY <1>1 DEF PercentilesAreNearestRank
<1>3. QED  BY <1>2, EvidenceInvariant, PTL

\* An undisturbed scan of a clean tree passes exactly when the commit it names
\* has nothing unpublishable.
THEOREM ScansAlwaysMatchCommits == Spec => []ScansMatchCommits
<1>1. ASSUME EvidenceInv, NEW dir \in Dirs, Holds(dir, "scan")
      PROVE  GenuineScan(file[<<dir, "scan">>])
  BY <1>1, HeldIsGenuine
<1>2. EvidenceInv => ScansMatchCommits
  BY <1>1 DEF ScansMatchCommits, GenuineScan
<1>3. QED  BY <1>2, EvidenceInvariant, PTL

\* A manifest that vouches for such a scan of its own commit names a publishable
\* one, whatever one edit of a stored scan.
THEOREM ManifestsAlwaysNamePublishable == Spec => []ManifestsNamePublishable
<1>1. ASSUME EvidenceInv, NEW dir \in Dirs, Holds(dir, "manifest")
      PROVE  GenuineManifest(file[<<dir, "manifest">>])
  BY <1>1, HeldIsGenuine
<1>2. EvidenceInv => ManifestsNamePublishable
  BY <1>1 DEF ManifestsNamePublishable, GenuineManifest
<1>3. QED  BY <1>2, EvidenceInvariant, PTL
=============================================================================
