--------------------------- MODULE MCEthereumSend ---------------------------
(* Instances of EthereumSend for TLC.                                      *)
EXTENDS EthereumSend, TLC

CONSTANTS p1, p2

Symmetry == Permutations(Procs)
=============================================================================
