-------------------------- MODULE MCAdapterServing --------------------------
(* A stream and another request for one model, over a single connection.   *)
EXTENDS AdapterServingProperties, TLC

CONSTANTS r1, r2, model

MCModels == {model}
MCRequests == {r1, r2}
MCKinds == {"ready", "models", "chat", "stream"}

\* Bounds: r2 is never a stream, and a stream of more than one chunk is alone.
MCNext ==
  /\ AdapterNext
  /\ req'[r2].kind # "stream"
  /\ Content(r1)' <= 1 \/ pc'[r2] = "new"
MCSpec == AdapterInit /\ [][MCNext]_adapterVars
MCFairSpec == MCSpec /\ AdapterFairness
=============================================================================
