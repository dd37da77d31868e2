SPECIFICATION Spec
CONSTANTS
    Procs = {p1, p2}
    Kinds = {"execute", "prove", "verify"}
    MaxAmount = 2
    Limit = 2
    CliLimits = {1, 3}
    MaxFaults = 1
    p1 = p1
    p2 = p2
    p3 = p3
INVARIANTS AloneProvesOwn GateAdmitsWithinLimit 
SYMMETRY Symmetry
CHECK_DEADLOCK FALSE
