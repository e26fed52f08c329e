SPECIFICATION FairSpec
CONSTANTS
    p1 = p1
    p2 = p2
    p3 = p3
    p4 = p4
    Thread = {p1, p2, p3, p4}
    NoThread = NoThread
    Main = p1
    Workloads <- All
INVARIANTS
    TypeOK
    CountExact
    SingleSound
PROPERTIES
    StopSurvives
    Completes
CHECK_DEADLOCK FALSE
