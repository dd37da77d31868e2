CONSTANTS
    i1 = i1
    i2 = i2
    w1 = w1
    w2 = w2
    alice = alice
    bob = bob
    carol = carol
    NoTx = NoTx
    NoIntent = NoIntent
    Intents = {i1, i2}
    Workers = {w1}
    Approvers = {alice, bob}
    RequiredSigs <- MixedSigs
    Chain <- TwoChains
    Token <- TwoTokens
    TokenFields = {i2}
    Expirable = {i1, i2}
    MaxRetries = 2
    MaxRef = 2
    MaxCrashes = 1
SPECIFICATION Spec
  
PROPERTIES ImplementsLifecycle
CHECK_DEADLOCK FALSE
