SPECIFICATION Spec
CONSTANTS
    Proc = {p1, p2}
    NoProc = NoProc
    rwl = rwl
    Chan = {rwl}
    NoChan = NoChan
    Signals = {"STOP", "CONT", "INT", "KILL"}
    FlagSets <- SleepFlags
SYMMETRY Threads
INVARIANTS
    LockSound
CONSTRAINT InterruptOrKill
