SPECIFICATION FairSpec
CONSTANTS
    Nodes = {1, 2, 3}
    Served <- Everything
    QuotePrefix = 14
    Tools = {1}
    Programs = {"dkg", "refresh", "sign", "status", "key"}
    Threshold = 2
    TotalNodes = 3
    ShareLoaded = TRUE
    MaxFaults = 1
INVARIANTS NoSignatureFromErrors
PROPERTIES ToolsEnd
CHECK_DEADLOCK FALSE
