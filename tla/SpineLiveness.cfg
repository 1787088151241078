SPECIFICATION FairSpec
CONSTANTS
    NoLine = NoLine
    Nobody = Nobody
    Anchor = Anchor
    Writer = {"w1", "w2"}
    Bounded = {}
    Initer = {"i1", "i2", "i3"}
    Stamper = {}
    Reader = {}
    Absents <- ThreeScenes
    Old = {"old1", "old2"}
    OldLogs <- OnlyTwo
    MaxSeg = 4
    MayDie = {"w1", "i1", "i3"}
    MayTear = {}
PROPERTIES AppendDecides MigrationResumes
CHECK_DEADLOCK FALSE
