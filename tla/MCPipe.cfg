SPECIFICATION Spec
CONSTANTS
    p1 = p1
    p2 = p2
    p3 = p3
    p4 = p4
    Proc = {p1, p2, p3, p4}
    NoProc = NoProc
    NoChan = NoChan
    PIPE_SIZE = 3
    BIG_PIPE_SIZE = 4
    PIPE_BUF = 2
    LIMITBIGPIPES = 1
    Workloads <- All
    Signalled = {p1, p3}
    Faulty = {p1, p3}
INVARIANTS
    TypeOK
    DataIntact
    ResourcesSafe
    NobodyForgotten
