SPECIFICATION FairSpec
CONSTANTS
    Proc = {p1, p2}
    NoProc = NoProc
    rwl = rwl
    Chan = {rwl}
    NoChan = NoChan
    Signals = {"STOP", "CONT"}
    FlagSets <- IntrFlags
PROPERTIES SleeperWakes
