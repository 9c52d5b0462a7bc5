----------------------------- MODULE MCCluster -----------------------------
(* Three nodes, one of them also malformed, and two models.                *)
EXTENDS Cluster

CONSTANTS small, large

TwoModels == {small, large}

MCNode(id, models, queue, up) ==
  [node_id |-> id, models |-> models, queue_depth |-> queue,
   ready |-> up, healthy |-> TRUE, wellformed |-> TRUE]

\* Equal queues, a node that is down, one with another model, and one that is
\* not well formed.
MCNodes ==
  {MCNode(1, {small}, 0, TRUE), MCNode(1, {small}, 1, TRUE),
   MCNode(2, {small}, 0, TRUE), MCNode(2, {small, large}, 1, FALSE),
   MCNode(3, {large, small}, 1, TRUE),
   [MCNode(3, {large}, 0, TRUE) EXCEPT !.healthy = FALSE],
   [MCNode(2, {small}, 0, TRUE) EXCEPT !.wellformed = FALSE]}

\* A fallback that was none, and a node that may be gone or unknown.
MCClaims ==
  {[node_id |-> 2, model_id |-> small, fallback |-> TRUE],
   [node_id |-> 3, model_id |-> small, fallback |-> FALSE]}
=============================================================================
