SPECIFICATION Spec
CONSTANTS
    NoLine = NoLine
    Nobody = Nobody
    Anchor = Anchor
    Writer = {"w1", "w2", "w3"}
    Bounded = {"w2"}
    Initer = {"i1", "i2", "i3"}
    Stamper = {"s1"}
    Reader = {"r1"}
    Absents <- SevenScenes
    Old = {"old1", "old2"}
    OldLogs <- EmptyOrTwo
    MaxSeg = 2
    MayDie = {"w3", "i1"}
    MayTear = {"w2", "w3", "i3", Anchor}
INVARIANTS ChainUnbroken NoStrandedFlat ReadSound AnchorsOrSync
PROPERTIES ImplementsLog RefusalJustified
CHECK_DEADLOCK FALSE
