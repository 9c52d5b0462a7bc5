---------------------------- MODULE StreamLedger ----------------------------
(***************************************************************************)
(* What /v1/chat/completions with stream = true promises an operator who   *)
(* reads the counters: a stream that was opened ends once, as completed,   *)
(* failed or cancelled, and the counter of its outcome moves in that very  *)
(* step and in no other.                                                   *)
(***************************************************************************)
EXTENDS Naturals, FiniteSets

CONSTANTS Streams, Models, NoModel

VARIABLES
  owner,         \* owner[s]: the model stream s was opened for
  outcome,       \* outcome[s]
  errors,        \* errors[m]: failed streams of model m
  cancellations  \* cancellations[m]: cancelled streams of model m

vars == <<owner, outcome, errors, cancellations>>

Outcomes == {"unopened", "open", "completed", "failed", "cancelled"}

TypeOK ==
  /\ owner \in [Streams -> Models \cup {NoModel}]
  /\ outcome \in [Streams -> Outcomes]
  /\ errors \in [Models -> Nat]
  /\ cancellations \in [Models -> Nat]

Init ==
  /\ owner = [s \in Streams |-> NoModel]
  /\ outcome = [s \in Streams |-> "unopened"]
  /\ errors = [m \in Models |-> 0]
  /\ cancellations = [m \in Models |-> 0]

Open(s, m) ==
  /\ outcome[s] = "unopened"
  /\ outcome' = [outcome EXCEPT ![s] = "open"]
  /\ owner' = [owner EXCEPT ![s] = m]
  /\ UNCHANGED <<errors, cancellations>>

End(s, result) ==
  /\ outcome[s] = "open"
  /\ outcome' = [outcome EXCEPT ![s] = result]
  /\ UNCHANGED owner

Complete(s) == End(s, "completed") /\ UNCHANGED <<errors, cancellations>>

Fail(s) ==
  /\ End(s, "failed")
  /\ errors' = [errors EXCEPT ![owner[s]] = @ + 1]
  /\ UNCHANGED cancellations

Cancel(s) ==
  /\ End(s, "cancelled")
  /\ cancellations' = [cancellations EXCEPT ![owner[s]] = @ + 1]
  /\ UNCHANGED errors

Next ==
  \E s \in Streams :
    \/ \E m \in Models : Open(s, m)
    \/ Complete(s)
    \/ Fail(s)
    \/ Cancel(s)

Spec == Init /\ [][Next]_vars

\* Every counter is the number of streams it stands for.
Accounted ==
  \A m \in Models :
    /\ errors[m] =
         Cardinality({s \in Streams : outcome[s] = "failed" /\ owner[s] = m})
    /\ cancellations[m] =
         Cardinality({s \in Streams : outcome[s] = "cancelled" /\ owner[s] = m})
=============================================================================
