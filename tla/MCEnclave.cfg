SPECIFICATION Spec
CONSTANTS
    p1 = p1
    p2 = p2
    Callers = {p1, p2}
    Sids = {1, 2}
    Msgs = {1, 2}
    Batches = {1, 2}
    Uses <- AllUses
    IdWidths = {4, 16}
    ReplayCap = 1000
    ReplayDrop = 100
    MaxStarts = 2
    MaxFaults = 1
INVARIANTS SignsStartedMessage OneMessagePerNonce KeyOfItsSession DiskIsCurrent 
PROPERTIES SignsOnce
