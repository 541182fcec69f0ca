\* An operation of two entries, and a trim that takes the first of them.
CONSTANTS
    L = L
    F1 = F1
    F2 = F2
    WriteIds = {w}
    NoId = NoId
    Retain = 2
    Leader = L
    Followers <- OneCopy
    Upstream <- OfLeader
    BatchSize = 2
    MaxEntries = 4
    MaxOp = 2
    MaxFaults = 0
SPECIFICATION Spec
INVARIANT KeptWritesAreRemembered
CHECK_DEADLOCK FALSE
