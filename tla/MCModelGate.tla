----------------------------- MODULE MCModelGate -----------------------------
(* Two starts; models that fit, that are within rounding of the ceiling on  *)
(* either side, that do not fit, that are misestimated and unknown.         *)
EXTENDS ModelGate, TLC

CONSTANTS s1, s2, small, tight, over, large, wrong, unknown

MCStarts == {s1, s2}
MCModels == {small, tight, over, large, wrong, unknown}
Estimate(weights) == <<weights, 20, 10, 5>>
MCNeeds ==
  small :> Estimate(12) @@ tight :> Estimate(70) @@ over :> Estimate(72)
  @@ large :> Estimate(140) @@ wrong :> Estimate(-40)

Symmetry == Permutations(Starts)
=============================================================================
