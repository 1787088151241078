SPECIFICATION Spec
CONSTANTS
    call <- AllCalls
    Call = {"s1", "s2", "c", "l1", "l2", "r", "e", "d1", "d2", "d3", "a", "x1", "x2", "rc", "f"}
    Scenes <- AllScenes
    Handle = {"h1", "h2"}
    Gate = {1, 2}
    None = none
    Op = {"o"}
    Enforced = TRUE
    RequireApproval = TRUE
    MaxFails = 1
    MaxCrashes = 1
CHECK_DEADLOCK FALSE
INVARIANTS TypeOK StartAgrees ReleasedOnce AllowIsCovered PerformedOnce AckedIsReadable
PROPERTIES ImplementsRunLog
