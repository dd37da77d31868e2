CONSTANTS
    w1 = w1
    w2 = w2
    p1 = p1
    p2 = p2
    NoWallet = NoWallet
    NoPassword = NoPassword
    pw1 = pw1
    pw2 = pw2
    Passwords = {pw1, pw2}
    Wallets = {w1}
    Legacy = {w1}
    Workers = {p1, p2}
    MaxIndex = 1
    MaxKeys = 3
    MaxTroubles = 1
SPECIFICATION Spec
INVARIANTS KeyHeld DeletedNotListed  AccountsHaveKeys
SYMMETRY Symmetry
VIEW View
CHECK_DEADLOCK FALSE
