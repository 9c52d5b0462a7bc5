---------------------------- MODULE MCFakeServing ----------------------------
(* Two requests over two prompts; one allowed model is not the backend's.  *)
EXTENDS FakeServing, TLC

CONSTANTS r1, r2, short, long, mine, foreign

MCModels == {mine, foreign}
OnlyMine == {mine}
MCRequests == {r1, r2}
MCPrompts == {short, long}
MCWords == [p \in MCPrompts |-> IF p = short THEN 1 ELSE 2]
MCKinds == {"chat", "stream", "models", "ready"}

Symmetry == Permutations(MCRequests)
=============================================================================
