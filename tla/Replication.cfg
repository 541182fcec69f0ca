\* A copy and a copy of that copy.  Four entries, in operations of one or two,
\* of which two are kept: a follower can be overtaken by the trim, and a trim
\* can part an operation.  Two faults: a connection lost, a failed apply, and
\* a crash of either end, two of them in either order.
CONSTANTS
    L = L
    F1 = F1
    F2 = F2
    WriteIds = {w}
    NoId = NoId
    Retain = 2
    Leader = L
    Followers <- TwoCopies
    Upstream <- Chain
    BatchSize = 2
    MaxEntries = 4
    MaxOp = 2
    MaxFaults = 2
SPECIFICATION FairSpec
INVARIANTS TypeOK CopiesFollow NoGaps RetriesAreAnswered WrittenOnce StopsOnlyWhenBehind
PROPERTIES Refines CatchesUp
CHECK_DEADLOCK FALSE
