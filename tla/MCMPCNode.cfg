SPECIFICATION Spec
CONSTANTS
    Nodes = {1, 2, 3}
    Jobs = {j1, j2}
    Uses <- SafetyUses
    MaxRetries = 2
    Served <- Everything
    QuotePrefix = 15
    Threshold = 2
    TotalNodes = 3
    Msg = "m"
    Provisioned = TRUE
    j1 = j1
    j2 = j2
INVARIANTS QuorumSigned SigningEnds
PROPERTIES CulpritLeaves 
VIEW View
SYMMETRY Symmetry
CHECK_DEADLOCK FALSE
