--------------------------- MODULE MCLocalRuntime ---------------------------
(* A few pids, a shell that starts the runtime and one that runs down.     *)
EXTENDS LocalRuntimeProperties, TLC

CONSTANTS p1, p2, p3, up, down

ThreePids == {p1, p2, p3}
TwoPids == {p1, p2}
OneStarter == {up}
OneStopper == {down}

Symmetry == Permutations(Pids)
=============================================================================
