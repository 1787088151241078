SPECIFICATION FairSpec
CONSTANTS
    Nobody = Nobody
    Call = {1, 2, 3}
    Process = {1, 2, 3}
    proc <- OneEach
    host <- TwoHosts
    MayDie = {1, 2}
    Strict = {2, 3}
    WaitPolls = 1
    GracePolls = 2
    IoErrors = TRUE
    MaxFaults = 1
INVARIANTS ForkNeedsRace
PROPERTIES BestEffortDecides SurvivorAcquires
CHECK_DEADLOCK FALSE
