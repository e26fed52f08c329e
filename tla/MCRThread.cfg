SPECIFICATION FairSpec
CONSTANTS
    t1 = t1
    t2 = t2
    t3 = t3
    Thread = {t1, t2, t3}
    NoThread = NoThread
    NoChan = NoChan
    NoIdent = NoIdent
    MaxCount = 2
    MaxValue = 2
    Workloads <- All
INVARIANTS
    TypeOK
    Exclusion
    QueuesSound
    SignalConsumed
    NobodyForgotten
PROPERTY HandoverCompletes
