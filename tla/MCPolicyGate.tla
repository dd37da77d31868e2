--------------------------- MODULE MCPolicyGate ---------------------------
(* Instances of PolicyGate for TLC.                                        *)
EXTENDS PolicyGate, TLC

CONSTANTS p1, p2, p3

Symmetry == Permutations(Procs)
===========================================================================
