SPECIFICATION Spec
CONSTANTS
    Sid = {"a", "b", "d", "e", "np", "nq"}
    Lane = {"l", "auto", "np", "nq"}
    Nobody = Nobody
    Proc = {"p", "q"}
    Claude = {"c1", "c2"}
    Scenes <- AllPairs
    MayDie = {"p"}
    Fallback <- OwnLane
INVARIANTS RecordsAgree DecisionsHold NoLockCycle
PROPERTIES NoNewOrphan NoBystanderEvicted ClaimIsSole LiveSessionKept
