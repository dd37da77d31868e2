------------------------------ MODULE MCMPCNode ------------------------------
(* Instances of MPCNode for TLC.                                           *)
EXTENDS MPCNode, TLC

CONSTANTS j1, j2

Symmetry == Permutations(Jobs)

(* Which callers were told of a completion bears on no step of the nodes.   *)
View == <<srv, en, booting, job, sids, made, crashes, use>>

AsCoded == Plain
Everything == Paths

AllKinds == {"sign", "dkg", "reshare"}
TwoJobs == [nodes |-> {1, 2}, kinds |-> AllKinds, jobs |-> 2, crashes |-> 0]
ThreeNodes == [nodes |-> {1, 2, 3}, kinds |-> {"sign"}, jobs |-> 1, crashes |-> 0]
WithCrash == [nodes |-> {1, 2}, kinds |-> AllKinds, jobs |-> 1, crashes |-> 1]

SafetyUses == {TwoJobs, ThreeNodes, WithCrash}
TwoSigners == [nodes |-> {1, 2}, kinds |-> {"sign"}, jobs |-> 2, crashes |-> 0]

LivenessUses == {WithCrash, TwoSigners}
=============================================================================
