SPECIFICATION FairSpec
CONSTANTS
    Task = {t1, t2}
    NoTask = NoTask
    Thread = {w1, w2}
    Caller = {a1}
    Kinds <- TwoOrMpsafe
    CreateFails = TRUE
INVARIANTS
    TypeOK
    RunningCounts
    NoBoredThread
    NoLostTask
    DestroySafe
PROPERTIES
    Progress
\* A taskq_destroy() that never returns is what Progress is about.
CHECK_DEADLOCK FALSE
