SPECIFICATION Spec
CONSTANTS
    Cpu = {c1, c2}
    NoCpu = NoCpu
    TICKETS = 2
    IPL_TTY = 2
    ipl = 1
    Intr = {1, 2}
    MpLevel = {0, 1, 2}
    MtxLevel = {0, 1}
    MaxDepth = 2
    MaxTicket = 3
SYMMETRY Cpus
INVARIANTS
    TypeOK
    KernelLockSound
    MutexExclusive
    NoPanic
    IplRestored
    LockOrder
