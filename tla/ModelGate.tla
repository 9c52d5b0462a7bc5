------------------------------ MODULE ModelGate ------------------------------
(***************************************************************************)
(* scripts/run-vllm-mlx-backend.sh between its start and its server: the   *)
(* gate of model_catalog.py over the preflight of runtime_guard.py, for    *)
(* several starts that share a checkout and one report file.               *)
(*                                                                         *)
(* Memory is in ticks of 1/10000 GiB, ten of which are the last digit that *)
(* round(..., 3) keeps.                                                    *)
(***************************************************************************)
EXTENDS Integers

CONSTANTS
  Starts,   \* starts of the script, concurrent or one after the other
  Models,   \* ids the variable MODEL_ID may name
  Needs,    \* Needs[m]: the four memory estimates of a model in the catalog
  Ceiling,  \* memory_ceiling_gib
  NoReport  \* there is no report file, or one that was cut short

Catalog == DOMAIN Needs

ASSUME CatalogAssumption ==
  Catalog \subseteq Models /\ \A m \in Catalog : Needs[m] \in [1 .. 4 -> Int]
ASSUME CeilingAssumption == Ceiling \in Nat

VARIABLES
  gitignore,  \* which cache patterns .gitignore has
  pc,         \* pc[s]: where start s is
  env,        \* env[s]: its MODEL_ID, and how the approval variable reads
  decision,   \* decision[s]: reason code of its gate
  report      \* the content of MODEL_DOWNLOAD_GATE_REPORT

gateVars == <<gitignore, pc, env, decision, report>>

CacheIgnorePatterns == {"model-cache/", "models/"}
Approvals == {"true", "false", "unreadable"}
Environments == [model : Models, approved : Approvals]
Passed == "model_download_gate_passed"
Codes ==
  {"model_not_in_catalog", "runtime_cache_not_ignored",
   "invalid_memory_estimate", "runtime_not_authorized",
   "memory_ceiling_exceeded", Passed}

Exact(m) == Needs[m][1] + Needs[m][2] + Needs[m][3] + Needs[m][4]

\* What round() may return: the binary sum of an exact tie is next to it, on
\* either side.
estimated_total_gib(m) ==
  {t \in {10 * (Exact(m) \div 10), 10 * (Exact(m) \div 10) + 10} :
     t - Exact(m) \in -5 .. 5}

_has_negative_memory_estimate(m) == \E i \in 1 .. 4 : Needs[m][i] < 0

\* Mutant: a plan that was not authorized is refused for its memory.
preflight_memory_first(m, approved, total) ==
  IF _has_negative_memory_estimate(m) THEN "invalid_memory_estimate"
  ELSE IF total > Ceiling THEN "memory_ceiling_exceeded"
  ELSE IF ~approved THEN "runtime_not_authorized"
  ELSE "runtime_preflight_passed"

evaluate_runtime_preflight(m, approved, total) ==
  IF _has_negative_memory_estimate(m) THEN "invalid_memory_estimate"
  ELSE IF ~approved THEN "runtime_not_authorized"
  ELSE IF total > Ceiling THEN "memory_ceiling_exceeded"
  ELSE "runtime_preflight_passed"

build_model_download_gate_report(m, approved) ==
  IF m \notin Catalog THEN {"model_not_in_catalog"}
  ELSE IF ~(CacheIgnorePatterns \subseteq gitignore)
  THEN {"runtime_cache_not_ignored"}
  ELSE LET preflight == {evaluate_runtime_preflight(m, approved, total) :
                           total \in estimated_total_gib(m)}
       IN  {IF code = "runtime_preflight_passed" THEN Passed ELSE code :
              code \in preflight}

GateInit ==
  /\ gitignore \in SUBSET CacheIgnorePatterns
  /\ pc = [s \in Starts |-> "idle"]
  /\ env \in [Starts -> Environments]
  /\ decision = [s \in Starts |-> ""]
  /\ report = NoReport
-----------------------------------------------------------------------------
Goto(s, from, to) == pc[s] \in from /\ pc' = [pc EXCEPT ![s] = to]

\* The script is started, perhaps again, with some environment.
Start(s, environment) ==
  /\ Goto(s, {"idle", "exited"}, "gating")
  /\ env' = [env EXCEPT ![s] = environment]
  /\ decision' = [decision EXCEPT ![s] = ""]
  /\ UNCHANGED <<gitignore, report>>

\* main() reads the approval and .gitignore, and decides.
Decide(s) ==
  /\ env[s].approved # "unreadable"
  /\ Goto(s, {"gating"}, "decided")
  /\ \E code \in build_model_download_gate_report(env[s].model,
                                                  env[s].approved = "true") :
       decision' = [decision EXCEPT ![s] = code]
  /\ UNCHANGED <<gitignore, env, report>>

Reported(s) == [model |-> env[s].model, code |-> decision[s]]

\* _parse_bool() raises, a file cannot be read or written, or the process is
\* killed: the gate ends with an error and `set -e` ends the script.  Once it is
\* decided the report may be as it was, truncated, or written.
GateRaises(s) ==
  /\ Goto(s, {"gating", "decided"}, "exited")
  /\ report' \in {report} \cup
       IF pc[s] = "decided" THEN {NoReport, Reported(s)} ELSE {}
  /\ UNCHANGED <<gitignore, env, decision>>

\* Mutant: the script ignores the status of the gate.
WriteReportAndGoOn(s) ==
  /\ Goto(s, {"decided"}, "cleared")
  /\ report' = Reported(s)
  /\ UNCHANGED <<gitignore, env, decision>>

\* Mutant: only a refusal is reported.
WriteReportOfRefusal(s) ==
  /\ Goto(s, {"decided"}, IF decision[s] = Passed THEN "cleared" ELSE "exited")
  /\ report' = IF decision[s] = Passed THEN report
               ELSE Reported(s)
  /\ UNCHANGED <<gitignore, env, decision>>

\* The report is written, over that of any other start, and the exit status is
\* 0 or 2; `set -e` ends the script on 2.
WriteReport(s) ==
  /\ Goto(s, {"decided"}, IF decision[s] = Passed THEN "cleared" ELSE "exited")
  /\ report' = Reported(s)
  /\ UNCHANGED <<gitignore, env, decision>>

\* The script's last command.
Serve(s) ==
  /\ Goto(s, {"cleared"}, "serving")
  /\ UNCHANGED <<gitignore, env, decision, report>>

ServerEnds(s) ==
  /\ Goto(s, {"serving"}, "exited")
  /\ UNCHANGED <<gitignore, env, decision, report>>

\* The checkout's .gitignore changes.
EditGitignore ==
  /\ gitignore' \in SUBSET CacheIgnorePatterns
  /\ UNCHANGED <<pc, env, decision, report>>

GateNext ==
  \/ EditGitignore
  \/ \E s \in Starts :
       \/ \E environment \in Environments : Start(s, environment)
       \/ Decide(s)
       \/ GateRaises(s)
       \/ WriteReport(s)
       \/ Serve(s)
       \/ ServerEnds(s)

GateSpec == GateInit /\ [][GateNext]_gateVars
-----------------------------------------------------------------------------
\* Type correctness of the gate and of the starts that pass it.
GateTypeOK ==
  /\ gitignore \subseteq CacheIgnorePatterns
  /\ pc \in [Starts ->
            {"idle", "gating", "decided", "cleared", "serving", "exited"}]
  /\ env \in [Starts -> Environments]
  /\ decision \in [Starts -> Codes \cup {""}]
  /\ report \in [model : Models, code : Codes] \cup {NoReport}

\* What passing the gate is meant to say of a model: it is in the catalog, the
\* operator approved it, and its estimates are sizes that fit under the ceiling,
\* exactly and not only when rounded, but for half a unit of the last digit.
Cleared(environment) ==
  /\ environment.model \in Catalog
  /\ environment.approved = "true"
  /\ \A i \in 1 .. 4 : Needs[environment.model][i] >= 0
  /\ Exact(environment.model) <= Ceiling + 5

\* No server runs, or is about to, that the gate should have refused, whatever
\* other starts, failures of the gate and edits of the checkout come between.
ServersCleared ==
  \A s \in Starts : pc[s] \in {"cleared", "serving"} => Cleared(env[s])

\* A refusal names what is wrong with the start, and only one that was approved
\* learns about memory: evaluate_runtime_preflight asks for authorization first,
\* after the estimates themselves.
RefusalsExplained ==
  \A s \in Starts : LET m == env[s].model IN
    /\ decision[s] = "model_not_in_catalog" => m \notin Catalog
    /\ decision[s] = "runtime_not_authorized" => env[s].approved = "false"
    /\ decision[s] = "invalid_memory_estimate" =>
         \E i \in 1 .. 4 : Needs[m][i] < 0
    /\ decision[s] = "memory_ceiling_exceeded" =>
         env[s].approved = "true" /\ Exact(m) > Ceiling - 5

\* The report on disk is that of the server that runs, as long as no other start
\* of the script was made: main() writes it before the server is started.  With
\* other starts it may be theirs.
SoleServerReported ==
  \A s \in Starts :
    pc[s] = "serving" /\ (\A t \in Starts \ {s} : pc[t] = "idle") =>
      report = [model |-> env[s].model, code |-> Passed]
=============================================================================
