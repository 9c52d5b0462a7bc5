----------------------------- MODULE MCServing -----------------------------
(* Serving on a handful of requests for one allowed and one other model.   *)
EXTENDS ServingProperties, TLC

CONSTANTS r1, r2, allowed, other

MCModels == {allowed, other}
MCAllowlist == {allowed}
TwoRequests == {r1, r2}
EveryKind == AllKinds
MCTokenCounts == {0, 2}

Symmetry == Permutations(Requests)
=============================================================================
