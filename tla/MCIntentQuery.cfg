SPECIFICATION Spec
CONSTANTS
    MaxIntents = 3
    Wallets = {"w1"}
    Statuses = {"sent", "permanent_fail"}
    MaxTime = 2
    MaxChanges = 4
    Offsets = {0}
    Limits = {0, 1}
    Sorts = {"created_at", "updated_at"}
    Orders = {"asc", "desc"}
    MaxInt = 99
    Accounts <- TwoChains
    MaxFaults = 1
INVARIANTS ListIsSorted  
CHECK_DEADLOCK FALSE
