-------------------------- MODULE MCIntentService --------------------------
(* Small instances of IntentService for TLC. *)
EXTENDS IntentRefinement

CONSTANTS i1, i2, w1, w2, alice, bob, carol

OneSig == [i \in Intents |-> 1]
TwoSigs == [i \in Intents |-> 2]

AllSolana == [i \in Intents |-> "solana"]
AllNative == [i \in Intents |-> "native"]

\* i1 is a native transfer on Ethereum approved by its creator alone, i2 a token
\* transfer on Solana that needs a second approval.
TwoChains == [i \in Intents |-> IF i = i1 THEN "ethereum" ELSE "solana"]
TwoTokens == [i \in Intents |-> IF i = i1 THEN "native" ELSE "spl"]
MixedSigs == [i \in Intents |-> IF i = i1 THEN 1 ELSE 2]
============================================================================
