\* Launches, quits, crashes and updates of two processes.
SPECIFICATION FairSpec
CONSTANTS
    p1 = p1
    p2 = p2
    Procs = {p1, p2}
    UserKey = FALSE
    MutexMayFail = TRUE
INVARIANTS
    TypeOK
    OnlyUpdatesOpenASecondCopy
    NothingOutlives
PROPERTIES
    SignalIsTaken
\* Every process of Procs ends at last.
CHECK_DEADLOCK FALSE
