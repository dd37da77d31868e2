SPECIFICATION Spec
CONSTANTS
    Procs = {p1, p2}
    Kinds = {"native", "erc20", "estimate"}
    Gwei = 10
    Values = {0, 5, 6}
    GasLimits = {21000}
    Funds = 966005
    Tokens = 7
    BaseFees = {1, 20}
    MaxMoves = 1
    MaxFaults = 1
    SignsDynamic = TRUE
    p1 = p1
    p2 = p2
INVARIANTS FeeCapSound SentWasAccepted CheckCovers RejectedOnlyByRival
SYMMETRY Symmetry
CHECK_DEADLOCK FALSE
