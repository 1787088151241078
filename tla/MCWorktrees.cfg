SPECIFICATION Spec
CONSTANTS
    Sid = {"a", "b", "f"}
    Lane = {"l"}
    Main = "l"
    Nobody = Nobody
    Aid = {1, 2, 3, 4, 5}
    Foreign = {1, 5}
    LocalAids = {2, 3, 4}
    Proc = {"p", "q", "r"}
    Scenes <- AllPairs
    MayDie = {"p"}
INVARIANTS OneEpoch EndJustified OtherActiveSpared NoLockCycle
PROPERTIES RemovalIsIntended ReleaseLeavesNoWorktree
