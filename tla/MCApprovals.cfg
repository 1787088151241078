SPECIFICATION Spec
CONSTANTS
    Request = {"g1", "g2", "q1", "p1", "p2", "p3", "p4", "p5"}
    asking <- Asking
    Command = {"deny1", "always1", "once2", "never2", "allowA", "denyAll", "clearA", "saveT", "saveB", "removeT", "migrate", "no2", "yes3", "yes4", "yes5", "confirm4", "release", "rollback"}
    command <- Commands
    Tool = {"t", "experiment", "candidate", "canary"}
    Lane = {"a", "b"}
    Wild = "*"
    None = None
    LedgerTail = 2
    Scenes <- AllScenes
    MayDie = {"g1", "saveT", "p3"}
INVARIANTS AllowTraces SecondNeedsRace OutcomeIsDecided GlobalKept ExplicitAbove StagesAgree
CHECK_DEADLOCK FALSE
