----------------------------- MODULE MCMPCTools -----------------------------
(* Instances of MPCTools for TLC.                                          *)
EXTENDS MPCTools

AsCoded == Plain
Everything == Paths
=============================================================================
