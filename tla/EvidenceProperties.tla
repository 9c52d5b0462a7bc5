------------------------- MODULE EvidenceProperties -------------------------
(***************************************************************************)
(* What a reader of the files under artifacts/runtime/ may rely on.        *)
(***************************************************************************)
EXTENDS EvidenceTools

Holds(dir, kind) == file[<<dir, kind>>].kind = kind

\* What a record means: whether which backend may run which model, and why.
Verdict(leaf) ==
  [can_execute |-> leaf["can_execute"], reason_code |-> leaf["reason_code"],
   backend |-> leaf["manifest_backend"]]

\* A bundle index has the verdict of a record that was built, for a log in the
\* bundle's directory, although processes write over each other, die half way,
\* and one value of one stored record is changed by hand: each part of the
\* verdict is stored twice and the load compares them.  The directory is not:
\* a changed one is accepted if the log is still inside.
BundlesAsBuilt ==
  edits <= 1 =>
    \A dir \in Dirs : Holds(dir, "bundle") =>
      LET leaf == file[<<dir, "bundle">>].leaf
      IN /\ leaf["artifact_dir"] = dir
         /\ \E r \in built :
              /\ Verdict(r) = Verdict(leaf)
              /\ leaf["artifact_dir"] = r["artifact_dir"] \/ leaf["log_dir"] = r["log_dir"]

\* A contract report of a probe that met no other in its directory is about
\* that probe's own metrics and rows, whatever earlier probes left there when
\* they failed, and its counter does not include the probe's own requests: the
\* metrics are fetched before the benchmark.
ReportsOfOneProbe ==
  \A dir \in Dirs : Holds(dir, "report") /\ file[<<dir, "report">>].alone =>
    LET report == file[<<dir, "report">>]
    IN /\ report.metrics_of = report.probe
       /\ report.rows_of = report.probe
       /\ report.metrics.requests + report.benchmark.run_count <= served

\* e2e_p95 is the least latency that 95 of 100 rows do not exceed: a latency of
\* the rows, the greatest for fewer than twenty of them and not from then on.
PercentilesAreNearestRank ==
  \A dir \in Dirs : Holds(dir, "report") =>
    LET report == file[<<dir, "report">>]
        values == Latencies(report.rows)
        p95 == report.benchmark.e2e_p95
    IN /\ \E i \in DOMAIN values : values[i] = p95
       /\ 100 * Cardinality(AtMost(values, p95)) >= 95 * Len(values)
       /\ 100 * Cardinality(Below(values, p95)) < 95 * Len(values)

\* A scan passes exactly when the commit it names has nothing unpublishable, if
\* the tree had nothing uncommitted and was left alone while the scan read it
\* and asked for HEAD.  Nothing else ties the report to the commit: the files
\* are those of the work tree.
ScansMatchCommits ==
  \A dir \in Dirs : Holds(dir, "scan") =>
    LET scan == file[<<dir, "scan">>]
    IN scan.quiet /\ scan.clean /\ ~scan.edited =>
         (scan.passed <=> Unpublishable(history[scan.sha]) = {})

\* A benchmark manifest names a publishable commit, if the scan it vouches for
\* was such a one of the same commit, even if the scan's outcome was changed in
\* one place: it is stored twice.
ManifestsNamePublishable ==
  edits <= 1 =>
    \A dir \in Dirs : Holds(dir, "manifest") =>
      LET manifest == file[<<dir, "manifest">>]
      IN manifest.scan.quiet /\ manifest.scan.clean /\ manifest.scan.sha = manifest.sha =>
           Unpublishable(history[manifest.sha]) = {}
=============================================================================
