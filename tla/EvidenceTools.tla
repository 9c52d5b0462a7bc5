--------------------------- MODULE EvidenceTools ---------------------------
(***************************************************************************)
(* The tools that leave evidence under artifacts/runtime/, as processes in *)
(* one checkout: execution records and bundle indexes                      *)
(* (runtime_artifacts.py), contract probes (probe-vllm-mlx-contract.sh and *)
(* backend_contracts.py), release scans (validate-public-release.py and    *)
(* release_readiness.py) and benchmark manifests (backend_contracts.py).   *)
(*                                                                         *)
(* A step is one access to a file, to git or to the model server.  Every   *)
(* tool writes with write_text(), which truncates the file and then writes *)
(* it.  A process may end at any point: it raises, fails under `set -e`,   *)
(* or is killed.                                                           *)
(***************************************************************************)
EXTENDS RuntimeEvidence, BackendContracts, ReleaseReadiness

CONSTANTS
  Procs,
  ReportDirs,  \* the directories that probes, scans and manifests use
  Exports,     \* the sets of required metrics that a server may export
  FirstTrees,  \* what the work tree and the first commit may be
  Benchmarks,  \* the lists of rows that a benchmark may write
  MaxStarts,   \* bound on the tools started
  MaxChanges,  \* bound on edits of the work tree and commits
  MaxEdits     \* bound on edits of evidence by hand

ASSUME ReportDirsAssumption == ReportDirs \subseteq Dirs
ASSUME FirstTreesAssumption == FirstTrees \subseteq Trees
ASSUME ExportsAssumption == Exports \subseteq SUBSET RequiredMetrics

\* Latencies are floats, of which only the order matters: integers stand for them.
ASSUME BenchmarksAssumption ==
  Benchmarks \subseteq Seq([latency : Int, validated : BOOLEAN, wellformed : BOOLEAN])

VARIABLES
  file,     \* file[path]: its content
  tree,     \* the work tree
  history,  \* the trees of the commits; the last one is HEAD
  served,   \* requests the model server has served
  pc,       \* pc[p]: where process p is, "idle" when no tool runs in it
  job,      \* job[p]: what the tool has in memory
  starts, changes, edits,
  built     \* execution records built so far (history)

repo == <<tree, history>>
bounds == <<starts, changes, edits>>
vars == <<file, repo, served, pc, job, bounds, built>>

Paths == Dirs \X {"record", "bundle", "metrics", "rows", "report", "scan", "manifest"}
Absent == [kind |-> "absent"]
Torn == [kind |-> "torn"]
NoJob == [tool |-> "none"]
HEAD == Len(history)

Init ==
  /\ file = [path \in Paths |-> Absent]
  /\ tree \in FirstTrees
  /\ \E commit \in FirstTrees : history = <<commit>>
  /\ served = 0
  /\ pc = [p \in Procs |-> "idle"]
  /\ job = [p \in Procs |-> NoJob]
  /\ starts = 0 /\ changes = 0 /\ edits = 0
  /\ built = {}

Go(p, label, newjob) ==
  /\ pc' = [pc EXCEPT ![p] = label]
  /\ job' = [job EXCEPT ![p] = newjob]

\* p starts a tool, which gets as far as label.
Start(p, label, newjob) ==
  /\ pc[p] = "idle"
  /\ starts < MaxStarts
  /\ starts' = starts + 1
  /\ Go(p, label, newjob)
  /\ UNCHANGED <<changes, edits>>

ToWrite(path, content) == [tool |-> "write", target |-> path, content |-> content]

\* write_text() opens the file for writing, which empties it.
Open(p) ==
  /\ pc[p] = "opening"
  /\ file' = [file EXCEPT ![job[p].target] = Torn]
  /\ Go(p, "writing", job[p])
  /\ UNCHANGED <<repo, served, bounds, built>>

\* The text goes to the start of the file, and a longer one that another
\* process has written there in between keeps its end.
Write(p) ==
  /\ pc[p] = "writing"
  /\ \E content \in {job[p].content}
         \cup (IF file[job[p].target] = Torn THEN {} ELSE {Torn}) :
       file' = [file EXCEPT ![job[p].target] = content]
  /\ Go(p, "idle", NoJob)
  /\ UNCHANGED <<repo, served, bounds, built>>

\* The process raises, fails or is killed.
ToolEnds(p) ==
  /\ pc[p] # "idle"
  /\ Go(p, "idle", NoJob)
  /\ UNCHANGED <<file, repo, served, bounds, built>>
-----------------------------------------------------------------------------
\* Execution records and bundle indexes

write_runtime_execution_record(p) ==
  \E leaf \in BuiltRecords :
    /\ Start(p, "opening",
         ToWrite(<<leaf["artifact_dir"], "record">>, [kind |-> "record", leaf |-> leaf]))
    /\ built' = built \cup {leaf}
    /\ UNCHANGED <<file, repo, served>>

\* A record in memory, or the one that load_runtime_execution_record() accepts.
Loadable(leaf) ==
  \/ leaf \in built
  \/ /\ \E dir \in Dirs : file[<<dir, "record">>] = [kind |-> "record", leaf |-> leaf]
     /\ _canonical_runtime_execution_record(leaf)

StoredLeaves ==
  {file[<<dir, "record">>].leaf :
     dir \in {d \in Dirs : file[<<d, "record">>].kind = "record"}}

write_runtime_evidence_bundle_index(p) ==
  \E leaf \in built \cup StoredLeaves :
    /\ Loadable(leaf)
    /\ Start(p, "opening",
         ToWrite(<<leaf["artifact_dir"], "bundle">>, [kind |-> "bundle", leaf |-> leaf]))
    /\ UNCHANGED <<file, repo, served, built>>
-----------------------------------------------------------------------------
\* The contract probe

Probing(p, dir) == pc[p] \in {"fetching", "benching", "summarising"} /\ job[p].dir = dir

\* The redirection of curl's output empties the metrics file.  A probe that
\* meets another one in its directory is not alone, nor is the other.
StartProbe(p) ==
  \E dir \in ReportDirs :
    LET others == {q \in Procs : Probing(q, dir)}
        probe == [tool |-> "probe", dir |-> dir, id |-> starts + 1, alone |-> others = {}]
    IN /\ pc[p] = "idle"
       /\ starts < MaxStarts
       /\ starts' = starts + 1
       /\ pc' = [pc EXCEPT ![p] = "fetching"]
       /\ job' = [q \in Procs |->
            IF q = p THEN probe
            ELSE IF q \in others THEN [job[q] EXCEPT !.alone = FALSE] ELSE job[q]]
       /\ file' = [file EXCEPT ![<<dir, "metrics">>] = Torn]
       /\ UNCHANGED <<repo, served, changes, edits, built>>

Exported(names) ==
  [name \in names |-> <<IF name = RequestsMetric THEN served ELSE 0>>]

FetchMetrics(p) ==
  /\ pc[p] = "fetching"
  /\ \E names \in Exports :
       file' = [file EXCEPT ![<<job[p].dir, "metrics">>] =
         [kind |-> "metrics", probe |-> job[p].id, text |-> Exported(names)]]
  /\ Go(p, "benching", job[p])
  /\ UNCHANGED <<repo, served, bounds, built>>

\* Mutant: a benchmark that fails does not end the probe.
BenchFailsUnnoticed(p) ==
  /\ pc[p] = "benching"
  /\ \E rows \in Benchmarks : served' = served + Len(rows)
  /\ Go(p, "summarising", job[p])
  /\ UNCHANGED <<file, repo, bounds, built>>

\* bench-serve sends its requests and fails.
BenchFails(p) ==
  /\ pc[p] = "benching"
  /\ \E rows \in Benchmarks : served' = served + Len(rows)
  /\ Go(p, "idle", NoJob)
  /\ UNCHANGED <<file, repo, bounds, built>>

\* bench-serve sends its requests and writes the rows.
Bench(p) ==
  /\ pc[p] = "benching"
  /\ \E rows \in Benchmarks :
       /\ served' = served + Len(rows)
       /\ file' = [file EXCEPT ![<<job[p].dir, "rows">>] =
            [kind |-> "rows", probe |-> job[p].id, rows |-> rows]]
  /\ Go(p, "summarising", job[p])
  /\ UNCHANGED <<repo, bounds, built>>

\* The two files are read one after the other; one step stands for both, since
\* only another probe in the directory writes them.  It raises if the rows are
\* torn; a metrics text that was emptied has no samples.
write_backend_contract_report(p) ==
  LET metrics == file[<<job[p].dir, "metrics">>]
      rows == file[<<job[p].dir, "rows">>]
      text == IF metrics.kind = "metrics" THEN metrics.text ELSE [name \in {} |-> <<>>]
  IN /\ pc[p] = "summarising"
     /\ rows.kind = "rows" /\ Summarisable(rows.rows)
     /\ Go(p, "opening", ToWrite(<<job[p].dir, "report">>,
          [kind |-> "report",
           metrics |-> summarize_vllm_mlx_metrics(text),
           benchmark |-> build_benchmark_summary(rows.rows),
           \* history: the probe, and where the two halves come from
           probe |-> job[p].id, alone |-> job[p].alone,
           metrics_of |-> IF metrics.kind = "metrics" THEN metrics.probe ELSE 0,
           rows_of |-> rows.probe, rows |-> rows.rows]))
     /\ UNCHANGED <<file, repo, served, bounds, built>>
-----------------------------------------------------------------------------
\* The release scan and the benchmark manifest

\* Mutant: git ls-files without --cached.
NewFiles == Present(tree) \ Present(history[HEAD])

\* git ls-files: what the index has or is new.  Whatever the index has besides,
\* or lacks, is gone from the work tree or new in it; nothing there is ignored.
Candidates == Present(history[HEAD]) \cup Present(tree)

load_public_release_candidate_files(p) ==
  \E dir \in ReportDirs :
    /\ Start(p, "reading", [tool |-> "scan", dir |-> dir, todo |-> Candidates,
                            findings |-> {}, quiet |-> TRUE])
    /\ UNCHANGED <<file, repo, served, built>>

\* A file that is gone is skipped.
ReadFile(p) ==
  /\ pc[p] = "reading"
  /\ \E f \in job[p].todo :
       Go(p, "reading", [job[p] EXCEPT
         !.todo = @ \ {f},
         !.findings = IF tree[f] = "absent" THEN @ ELSE @ \cup FindingsOf(f, tree[f])])
  /\ UNCHANGED <<file, repo, served, bounds, built>>

\* Only now is HEAD asked for; then the report is complete.
current_git_sha(p) ==
  /\ pc[p] = "reading" /\ job[p].todo = {}
  /\ LET report == scan_public_release_files(job[p].findings)
     IN Go(p, "opening", ToWrite(<<job[p].dir, "scan">>,
          [kind |-> "scan", sha |-> HEAD, passed |-> report.passed,
           findings_count |-> report.findings_count,
           \* history: nothing changed since the listing; nothing was uncommitted
           quiet |-> job[p].quiet, clean |-> tree = history[HEAD], edited |-> FALSE]))
  /\ UNCHANGED <<file, repo, served, bounds, built>>

\* The caller tells the manifest of the scan what the report says.
write_benchmark_artifact_manifest(p) ==
  \E dir \in ReportDirs :
    LET scan == file[<<dir, "scan">>]
    IN /\ scan.kind = "scan"
       /\ _validated_no_leak_scan(scan)
       /\ Start(p, "opening", ToWrite(<<dir, "manifest">>,
            [kind |-> "manifest", sha |-> HEAD, scan |-> scan]))
       /\ UNCHANGED <<file, repo, served, built>>
-----------------------------------------------------------------------------
\* Around the tools

Disturbed ==
  [p \in Procs |->
     IF pc[p] = "reading" THEN [job[p] EXCEPT !.quiet = FALSE] ELSE job[p]]

EditTree ==
  /\ changes < MaxChanges
  /\ changes' = changes + 1
  /\ \E f \in Files, text \in Texts \cup {"absent"} :
       tree' = [tree EXCEPT ![f] = text]
  /\ job' = Disturbed
  /\ UNCHANGED <<file, history, served, pc, starts, edits, built>>

Commit ==
  /\ changes < MaxChanges
  /\ changes' = changes + 1
  /\ tree # history[HEAD]
  /\ history' = Append(history, tree)
  /\ job' = Disturbed
  /\ UNCHANGED <<file, tree, served, pc, starts, edits, built>>

\* A stored record, or the outcome of a stored scan, edited by hand.
EditEvidence ==
  /\ edits < MaxEdits
  /\ edits' = edits + 1
  /\ \E dir \in Dirs :
       \/ /\ file[<<dir, "record">>].kind = "record"
          /\ \E leaf \in Edited(file[<<dir, "record">>].leaf) :
               file' = [file EXCEPT ![<<dir, "record">>].leaf = leaf]
       \/ /\ file[<<dir, "scan">>].kind = "scan"
          /\ \/ \E passed \in BOOLEAN :
                  file' = [file EXCEPT ![<<dir, "scan">>].passed = passed,
                                       ![<<dir, "scan">>].edited = TRUE]
             \/ file' = [file EXCEPT ![<<dir, "scan">>].findings_count = 0,
                                     ![<<dir, "scan">>].edited = TRUE]
  /\ UNCHANGED <<repo, served, pc, job, starts, changes, built>>

Next ==
  \/ \E p \in Procs :
       \/ Open(p) \/ Write(p) \/ ToolEnds(p)
       \/ write_runtime_execution_record(p)
       \/ write_runtime_evidence_bundle_index(p)
       \/ StartProbe(p) \/ FetchMetrics(p) \/ Bench(p) \/ BenchFails(p)
       \/ write_backend_contract_report(p)
       \/ load_public_release_candidate_files(p) \/ ReadFile(p)
       \/ current_git_sha(p)
       \/ write_benchmark_artifact_manifest(p)
  \/ EditTree \/ Commit \/ EditEvidence

Spec == Init /\ [][Next]_vars
=============================================================================
