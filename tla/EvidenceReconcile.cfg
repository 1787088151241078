SPECIFICATION Spec
CONSTANTS
    call <- ExecuteCalls
    Call = {"x1", "x2", "rc", "f"}
    Handle = {"h1", "h2"}
    Gate = {1}
    None = none
    Op = {"o"}
    Enforced = TRUE
    RequireApproval = FALSE
    Scenes <- ReconcileScenes
    MaxFails = 0
    MaxCrashes = 0
CHECK_DEADLOCK FALSE
INVARIANTS UnresolvedReconciles
