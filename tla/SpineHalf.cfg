SPECIFICATION Spec
CONSTANTS
    NoLine = NoLine
    Nobody = Nobody
    Anchor = Anchor
    Writer = {}
    Bounded = {}
    Initer = {i1, i2}
    Stamper = {s1}
    Reader = {}
    Absents <- OneScene
    Old = {"old1", "old2"}
    OldLogs <- OnlyTwo
    MaxSeg = 2
    MayDie = {i1}
    MayTear = {}
INVARIANTS HalfMigrationMarked
CHECK_DEADLOCK FALSE
