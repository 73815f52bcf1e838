SPECIFICATION Spec
CONSTANTS
    n1 = n1
    n2 = n2
    t1 = t1
    t2 = t2
    Clients = {c1, c2}
    Names = {n1, n2}
    NoName = NoName
    Targets = {t1, t2}
    NoTarget = NoTarget
    Absent = Absent
    FileConfigs <- Edits
INVARIANTS
    FollowsLatest
    ClientsHandled
PROPERTY
    SwitchesStick
CHECK_DEADLOCK FALSE
