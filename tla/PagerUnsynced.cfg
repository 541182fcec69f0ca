\* A meta page that was written and not synced.
CONSTANTS
    MaxPages = 6
    PerPage = 2
    MaxTx = 3
    Readers = {}
    WorstCrash = TRUE
SPECIFICATION UnsyncedSpec
INVARIANT CrashSafe
