SPECIFICATION FairSpec
CONSTANTS
    Procs = {p1, p2, p3}
    Conns = {c1}
    NoProc = NoProc
    Empty = Empty
    MaxCrashes = 1
INVARIANTS
    TypeOK
    SharedFilesAgree
PROPERTIES
    NoGap
    UpgradeEnds
CHECK_DEADLOCK FALSE
