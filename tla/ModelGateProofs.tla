-------------------------- MODULE ModelGateProofs --------------------------
(***************************************************************************)
(* Proofs about the gate, for any catalog, any estimates, any ceiling and  *)
(* any number of starts.                                                   *)
(***************************************************************************)
EXTENDS ModelGate, TLAPS

\* round() moves a total by half a unit of its last digit at most.
LEMMA Rounding ==
  ASSUME NEW m \in Catalog, NEW total \in estimated_total_gib(m)
  PROVE  /\ Exact(m) \in Int /\ total \in Int
         /\ Exact(m) <= total + 5 /\ total <= Exact(m) + 5
<1>1. Exact(m) \in Int
  BY CatalogAssumption DEF Exact
<1>2. QED  BY <1>1 DEF estimated_total_gib

Explained(code, environment) ==
  LET m == environment.model IN
  /\ code = Passed => Cleared(environment)
  /\ code = "model_not_in_catalog" => m \notin Catalog
  /\ code = "runtime_not_authorized" => environment.approved = "false"
  /\ code = "invalid_memory_estimate" => \E i \in 1 .. 4 : Needs[m][i] < 0
  /\ code = "memory_ceiling_exceeded" =>
       environment.approved = "true" /\ Exact(m) > Ceiling - 5

\* Every code the gate may return says what is so.
LEMMA GateExplains ==
  ASSUME NEW e \in Environments, e.approved # "unreadable",
         NEW code \in build_model_download_gate_report(e.model, e.approved = "true")
  PROVE  code \in Codes /\ Explained(code, e)
<1> DEFINE m == e.model
           approved == e.approved = "true"
<1>1. CASE m \notin Catalog
  BY <1>1 DEF build_model_download_gate_report, Codes, Explained, Passed
<1>2. CASE m \in Catalog /\ ~(CacheIgnorePatterns \subseteq gitignore)
  BY <1>2 DEF build_model_download_gate_report, Codes, Explained, Passed
<1>3. CASE m \in Catalog /\ CacheIgnorePatterns \subseteq gitignore
  <2>1. PICK total \in estimated_total_gib(m) :
          LET preflight == evaluate_runtime_preflight(m, approved, total)
          IN  code = IF preflight = "runtime_preflight_passed"
                     THEN Passed ELSE preflight
    BY <1>3 DEF build_model_download_gate_report
  <2>2. /\ Exact(m) \in Int /\ total \in Int
        /\ Exact(m) <= total + 5 /\ total <= Exact(m) + 5
    BY <1>3, Rounding
  <2>3. \A i \in 1 .. 4 : Needs[m][i] \in Int
    BY <1>3, CatalogAssumption
  <2>4. e.approved \in {"true", "false"}
    BY DEF Environments, Approvals
  <2>5. CASE _has_negative_memory_estimate(m)
    BY <2>1, <2>5 DEF evaluate_runtime_preflight, _has_negative_memory_estimate,
       Codes, Explained, Passed
  <2>6. CASE ~_has_negative_memory_estimate(m) /\ ~approved
    BY <2>1, <2>4, <2>6 DEF evaluate_runtime_preflight, Codes, Explained, Passed
  <2>7. CASE ~_has_negative_memory_estimate(m) /\ approved /\ total > Ceiling
    <3>1. Exact(m) > Ceiling - 5
      BY <2>2, <2>7, CeilingAssumption
    <3>2. code = "memory_ceiling_exceeded"
      BY <2>1, <2>7 DEF evaluate_runtime_preflight
    <3>3. QED  BY <2>7, <3>1, <3>2 DEF Codes, Explained, Passed
  <2>8. CASE ~_has_negative_memory_estimate(m) /\ approved /\ ~(total > Ceiling)
    <3>1. Exact(m) <= Ceiling + 5
      BY <2>2, <2>8, CeilingAssumption
    <3>2. code = Passed
      BY <2>1, <2>8 DEF evaluate_runtime_preflight
    <3>3. \A i \in 1 .. 4 : Needs[m][i] >= 0
      BY <2>3, <2>8 DEF _has_negative_memory_estimate
    <3>4. Cleared(e)
      BY <1>3, <2>8, <3>1, <3>3 DEF Cleared
    <3>5. QED  BY <3>2, <3>4 DEF Codes, Explained, Passed
  <2>9. QED  BY <2>5, <2>6, <2>7, <2>8
<1>4. QED  BY <1>1, <1>2, <1>3

\* Inductive: what a start has decided holds of its environment, and only a
\* decision to pass clears it.
DecisionInv ==
  \A s \in Starts :
    /\ Explained(decision[s], env[s])
    /\ pc[s] = "decided" => decision[s] # ""
    /\ pc[s] \in {"cleared", "serving"} => decision[s] = Passed

\* Nothing is decided at first.
LEMMA GateInitial == GateInit => GateTypeOK /\ DecisionInv
BY DEF GateInit, GateTypeOK, DecisionInv, Explained, Passed

\* Every step keeps the types, and decisions explained by what was found.
LEMMA GateInductive ==
  ASSUME GateTypeOK, DecisionInv, [GateNext]_gateVars
  PROVE  GateTypeOK' /\ DecisionInv'
<1> USE DEF GateTypeOK, Goto
<1>1. CASE EditGitignore
  BY <1>1 DEF EditGitignore, DecisionInv
<1>2. ASSUME NEW s \in Starts, NEW environment \in Environments,
             Start(s, environment)
      PROVE  GateTypeOK' /\ DecisionInv'
  <2>1. Explained("", environment)
    BY DEF Explained, Passed
  <2>2. QED  BY <1>2, <2>1 DEF Start, DecisionInv
<1>3. ASSUME NEW s \in Starts, Decide(s)
      PROVE  GateTypeOK' /\ DecisionInv'
  <2>1. PICK code \in build_model_download_gate_report(env[s].model,
                                                     env[s].approved = "true") :
          decision' = [decision EXCEPT ![s] = code]
    BY <1>3 DEF Decide
  <2>2. code \in Codes /\ Explained(code, env[s])
    BY <1>3, GateExplains DEF Decide
  <2>3. code # ""
    BY <2>2 DEF Codes, Passed
  <2>4. QED  BY <1>3, <2>1, <2>2, <2>3 DEF Decide, DecisionInv
<1>4. ASSUME NEW s \in Starts, Serve(s) \/ ServerEnds(s)
      PROVE  GateTypeOK' /\ DecisionInv'
  BY <1>4 DEF Serve, ServerEnds, DecisionInv
<1>5. ASSUME NEW s \in Starts, GateRaises(s) \/ WriteReport(s)
      PROVE  GateTypeOK' /\ DecisionInv'
  <2>1. pc[s] = "decided" => Reported(s) \in [model : Models, code : Codes]
    BY DEF DecisionInv, Environments, Reported
  <2>2. CASE GateRaises(s)
    BY <2>1, <2>2 DEF GateRaises, DecisionInv
  <2>3. CASE WriteReport(s)
    BY <2>1, <2>3 DEF WriteReport, DecisionInv
  <2>4. QED  BY <1>5, <2>2, <2>3
<1>6. CASE UNCHANGED gateVars
  BY <1>6 DEF gateVars, DecisionInv
<1>7. QED  BY <1>1, <1>2, <1>3, <1>4, <1>5, <1>6 DEF GateNext

\* No server runs that the gate should have refused: its model is in the catalog,
\* approved, and needs no more than the ceiling and half a rounding unit.
THEOREM ServersAlwaysCleared == GateSpec => [](GateTypeOK /\ ServersCleared)
<1>1. GateTypeOK /\ DecisionInv => ServersCleared
  BY DEF DecisionInv, ServersCleared, Explained
<1>2. GateTypeOK /\ DecisionInv /\ [GateNext]_gateVars
        => GateTypeOK' /\ DecisionInv'
  BY GateInductive
<1>3. QED  BY <1>1, <1>2, GateInitial, PTL DEF GateSpec

\* A refusal names what is wrong with the start, in the order of the checks.
THEOREM RefusalsAlwaysExplained == GateSpec => []RefusalsExplained
<1>1. DecisionInv => RefusalsExplained
  BY DEF DecisionInv, RefusalsExplained, Explained
<1>2. GateTypeOK /\ DecisionInv /\ [GateNext]_gateVars
        => GateTypeOK' /\ DecisionInv'
  BY GateInductive
<1>3. QED  BY <1>1, <1>2, GateInitial, PTL DEF GateSpec

-----------------------------------------------------------------------------
(* The report on disk.                                                     *)

AloneMade(s) == \A t \in Starts \ {s} : pc[t] = "idle"

\* Inductive: the report is that of the start past the gate, if no other start
\* was made; a start that was made is never idle again.
ReportInv ==
  \A s \in Starts :
    AloneMade(s) /\ pc[s] \in {"cleared", "serving"} => report = Reported(s)

\* A start that made reports alone is cleared with its own.
LEMMA ReportNext ==
  ASSUME GateTypeOK, ReportInv, [GateNext]_gateVars
  PROVE  ReportInv'
<1> SUFFICES ASSUME NEW s \in Starts, AloneMade(s)', pc'[s] \in {"cleared", "serving"}
             PROVE  report' = Reported(s)'
  BY DEF ReportInv
<1>1. AloneMade(s) /\ pc[s] \in {"cleared", "serving"} => report = Reported(s)
  BY DEF ReportInv
<1>2. CASE EditGitignore \/ UNCHANGED gateVars
  BY <1>1, <1>2 DEF EditGitignore, gateVars, AloneMade, Reported
<1>3. ASSUME NEW t \in Starts \ {s},
             \/ \E environment \in Environments : Start(t, environment)
             \/ Decide(t) \/ GateRaises(t) \/ WriteReport(t) \/ Serve(t) \/ ServerEnds(t)
      PROVE  FALSE
  <2>1. pc'[t] # "idle"
    BY <1>3 DEF Start, Decide, GateRaises, WriteReport, Serve, ServerEnds, Goto, GateTypeOK
  <2>2. QED  BY <2>1 DEF AloneMade
<1>4. ASSUME \/ \E environment \in Environments : Start(s, environment)
             \/ Decide(s) \/ GateRaises(s) \/ ServerEnds(s)
      PROVE  FALSE
  BY <1>4 DEF Start, Decide, GateRaises, ServerEnds, Goto, GateTypeOK
<1>5. CASE WriteReport(s)
  BY <1>5 DEF WriteReport, Reported
<1>6. CASE Serve(s)
  <2>1. pc[s] = "cleared" /\ \A t \in Starts \ {s} : pc'[t] = pc[t]
    BY <1>6 DEF Serve, Goto, GateTypeOK
  <2>2. report = Reported(s)
    BY <1>1, <2>1 DEF AloneMade
  <2>3. QED  BY <1>6, <2>2 DEF Serve, Reported
<1>7. QED  BY <1>2, <1>3, <1>4, <1>5, <1>6 DEF GateNext

\* While a server runs and no other start was ever made, the report on disk is
\* the one that cleared it: main() writes it before the script goes on.
THEOREM SoleServerAlwaysReported == GateSpec => []SoleServerReported
<1>1. GateInit => ReportInv
  BY DEF GateInit, ReportInv
<1>2. DecisionInv /\ ReportInv => SoleServerReported
  BY DEF DecisionInv, ReportInv, SoleServerReported, AloneMade, Reported
<1>3. GateTypeOK /\ DecisionInv /\ [GateNext]_gateVars
        => GateTypeOK' /\ DecisionInv'
  BY GateInductive
<1>4. GateTypeOK /\ ReportInv /\ [GateNext]_gateVars => ReportInv'
  BY ReportNext
<1>5. QED  BY <1>1, <1>2, <1>3, <1>4, GateInitial, PTL DEF GateSpec
=============================================================================
