SPECIFICATION FairSpec
CONSTANTS
    WHEELSIZE = 2
    To = {t1, t2}
    NoTo = NoTo
    Cpu = {c1}
    Primary = c1
    AddTicks <- LevelTicks
    AdjTicks <- LevelAdj
    MaxLag = 1
INVARIANTS
    TypeOK
    BucketMovesInTime
PROPERTIES
    NotEarly
    DueRuns
