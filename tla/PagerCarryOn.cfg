SPECIFICATION CarryOnSpec
CONSTANTS
    MaxPages = 5
    PerPage = 2
    MaxTx = 3
    Readers = {}
    WorstCrash = TRUE
INVARIANT ListedPagesAreNotLive
CHECK_DEADLOCK FALSE
