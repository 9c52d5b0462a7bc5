-------------------------- MODULE MCBatchedBackend --------------------------
(* Two prompts of one and two words, the backend's model and another one.  *)
EXTENDS BatchedBackendProperties

CONSTANTS short, long, mine, other

MCPrompts == {short, long}
MCWords == [p \in MCPrompts |-> IF p = short THEN 1 ELSE 2]
MCBatchModels == {mine, other}
=============================================================================
