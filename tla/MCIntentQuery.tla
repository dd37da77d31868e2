---------------------------- MODULE MCIntentQuery ----------------------------
(* Instances of IntentQuery for TLC.                                       *)
EXTENDS IntentQuery

TwoChains == <<[chain |-> "ethereum", raw |-> 5], [chain |-> "solana", raw |-> 3]>>
=============================================================================
