-------------------------- MODULE RuntimeEvidence --------------------------
(***************************************************************************)
(* runtime_artifacts.py: what makes an execution record, and which stored  *)
(* records are accepted again.                                             *)
(*                                                                         *)
(* A record is JSON nested in JSON; here it is one function from its       *)
(* leaves to values, since the checks compare leaves.  What the evidence   *)
(* manifest only requires to be well formed (git_sha, command, host,       *)
(* runtime_config, ports) is the one leaf "payload".  A path is the        *)
(* directory that it lies in; a directory may lie in another.              *)
(***************************************************************************)
CONSTANTS
  Backends,  \* pairs of a backend id and a model id
  Reasons,   \* reason codes of a preflight decision
  Dirs,      \* directories under artifacts/runtime/
  Inside,    \* Inside[dir]: the directories that dir is in, dir among them
  Malformed  \* any value of a leaf that its own check refuses

ASSUME InsideAssumption ==
  /\ Inside \in [Dirs -> SUBSET Dirs]
  /\ \A dir \in Dirs : dir \in Inside[dir]

ASSUME MalformedAssumption ==
  /\ Malformed \notin BOOLEAN
  /\ Malformed \notin Backends
  /\ Malformed \notin Reasons
  /\ Malformed \notin Dirs
  /\ Malformed \notin {"current", "well formed"}

\* The values that a leaf of a valid record can have.
LeafValues ==
  [record_schema     |-> {"current"},
   can_execute       |-> BOOLEAN,
   reason_code       |-> Reasons,
   preflight_schema  |-> {"current"},
   preflight_backend |-> Backends,
   allowed           |-> BOOLEAN,
   reason            |-> Reasons,
   manifest_schema   |-> {"current"},
   payload           |-> {"well formed"},
   manifest_backend  |-> Backends,
   artifact_dir      |-> Dirs,
   log_dir           |-> Dirs]

Leaves == DOMAIN LeafValues
Decisions == [allowed : BOOLEAN, reason : Reasons]

\* Whether build_runtime_execution_record() returns for the preflight report
\* and the evidence manifest whose leaves these are, or raises.
Consistent(leaf) ==
  /\ leaf["preflight_schema"] = "current"
  /\ leaf["manifest_schema"] = "current"
  /\ leaf["payload"] = "well formed"
  /\ leaf["artifact_dir"] \in Dirs
  /\ leaf["log_dir"] \in Dirs /\ leaf["artifact_dir"] \in Inside[leaf["log_dir"]]
  /\ leaf["manifest_backend"] \in Backends
  /\ leaf["preflight_backend"] = leaf["manifest_backend"]
  /\ leaf["allowed"] \in BOOLEAN
  /\ leaf["reason"] \in Reasons

build_runtime_execution_record(decision, backend, dir, log) ==
  [record_schema     |-> "current",
   can_execute       |-> decision.allowed,
   reason_code       |-> decision.reason,
   preflight_schema  |-> "current",
   preflight_backend |-> backend,
   allowed           |-> decision.allowed,
   reason            |-> decision.reason,
   manifest_schema   |-> "current",
   payload           |-> "well formed",
   manifest_backend  |-> backend,
   artifact_dir      |-> dir,
   log_dir           |-> log]

\* What is built from: a decision, a backend, and a log inside the directory.
Inputs ==
  {in \in Decisions \X Backends \X Dirs \X Dirs : in[3] \in Inside[in[4]]}

BuiltRecords ==
  {build_runtime_execution_record(in[1], in[2], in[3], in[4]) : in \in Inputs}

\* Mutant: the decision is taken from the record without the preflight report.
AcceptsAnyDecision(leaf) ==
  /\ leaf["record_schema"] = "current"
  /\ Consistent(leaf)
  /\ leaf["reason_code"] = leaf["reason"]

\* Whether _canonical_runtime_execution_record() returns; then it returns a
\* record of the same leaves.
_canonical_runtime_execution_record(leaf) ==
  /\ leaf["record_schema"] = "current"
  /\ Consistent(leaf)
  /\ leaf["can_execute"] = leaf["allowed"]
  /\ leaf["reason_code"] = leaf["reason"]

\* One leaf of a stored record changed by hand.
Edited(leaf) ==
  UNION {{[leaf EXCEPT ![l] = v] : v \in LeafValues[l] \cup {Malformed}} :
           l \in Leaves}
=============================================================================
