SPECIFICATION FairSpec
CONSTANTS
    Procs = {p1, p2}
    Conns = {c1}
    NoProc = NoProc
    Empty = Empty
    MaxCrashes = 0
CHECK_DEADLOCK FALSE
PROPERTY KeepsConnections
