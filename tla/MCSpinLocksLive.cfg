SPECIFICATION FiniteSpec
CONSTANTS
    Cpu = {c1, c2}
    NoCpu = NoCpu
    TICKETS = 2
    IPL_TTY = 2
    ipl = 1
    Intr = {2}
    MpLevel = {0, 2}
    MtxLevel = {0}
    MaxDepth = 1
    MaxTicket = 2
    MaxIntr = 1
PROPERTIES
    EveryoneIsServed
\* Waiting for ever is what EveryoneIsServed is about.
CHECK_DEADLOCK FALSE
