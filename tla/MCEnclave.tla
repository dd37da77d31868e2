----------------------------- MODULE MCEnclave -----------------------------
(* Instances of Enclave: the ways a node's enclave is used.                *)
EXTENDS Enclave

CONSTANTS p1, p2

SignOps == {"initialize", "sign_start", "sign_round1", "add_commitment", "sign_round2", "sign_abort"}
KeyOps == {"initialize", "dkg_start", "dkg_part1", "dkg_part2", "dkg_part3", "refresh_apply"}

EveryPair == Sids \X Msgs
OnePerSession == {<<1, 1>>, <<2, 2>>}

Signing == [callers |-> Callers, ops |-> SignOps, requests |-> OnePerSession, crashes |-> 0]
SigningInTurn == [callers |-> {p1}, ops |-> SignOps, requests |-> EveryPair, crashes |-> 1]
KeysInTurn == [callers |-> {p1}, ops |-> KeyOps, requests |-> {}, crashes |-> 2]

AllUses == {Signing, SigningInTurn, KeysInTurn}
JustKeys == {KeysInTurn}
============================================================================
