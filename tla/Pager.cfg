SPECIFICATION WatchSpec
CONSTANTS
    MaxPages = 5
    PerPage = 1
    MaxTx = 3
    Readers = {r1}
    WorstCrash = TRUE
VIEW InView
INVARIANTS TypeOK NothingAckedIsLost OneOwner SnapshotsHold CleanMark CrashSafe OrderlyAccounts
PROPERTY Refines
