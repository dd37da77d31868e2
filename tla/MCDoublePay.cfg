CONSTANTS
    i1 = i1
    i2 = i2
    w1 = w1
    w2 = w2
    alice = alice
    bob = bob
    carol = carol
    NoTx = NoTx
    NoIntent = NoIntent
    Intents = {i1}
    Workers = {w1, w2}
    Approvers = {alice, bob, carol}
    RequiredSigs <- OneSig
    Chain <- AllSolana
    Token <- AllNative
    TokenFields = {}
    Expirable = {}
    MaxRetries = 1
    MaxRef = 1
    MaxCrashes = 0
SPECIFICATION Spec
INVARIANTS OnePaymentPerAttempt
CHECK_DEADLOCK FALSE
