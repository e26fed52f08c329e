SPECIFICATION FairSpec
CONSTANTS
    Proc = {p1, p2}
    NoProc = NoProc
    rwl = rwl
    Chan = {rwl}
    NoChan = NoChan
    Signals = {"INT"}
    FlagSets <- FailFlags
INVARIANTS
    TypeOK
    WordMatchesHolders
    NoStrayWaiterBits
    NoLostWakeup
    NoPanic
PROPERTIES
    ImplementsLock
    SleeperWakes
