SPECIFICATION FairSpec
CONSTANTS
    NoDir = NoDir
    Call = {1, 2, 3}
    Process = {1, 2, 3}
    proc <- OneEach
    host <- SameHost
    MayDie = {1, 2}
    WaitPolls = 1
    IoErrors = TRUE
INVARIANTS ForkNeedsDeparture TmpAccounted
PROPERTIES AcquireDecides
CHECK_DEADLOCK FALSE
