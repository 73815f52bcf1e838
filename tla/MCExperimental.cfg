SPECIFICATION FairSpec
CONSTANTS
    d1 = d1
    d2 = d2
    d3 = d3
    d4 = d4
    ip1 = ip1
    ip2 = ip2
    p1 = p1
    p2 = p2
    c1 = c1
    c2 = c2
    Datagrams = {d1, d2, d3, d4}
    IPs = {ip1, ip2}
    Ports = {p1, p2}
    Pings = {d3, d4}
    Short = {d2, d4}
    Conns = {c1, c2}
    From <- MCFrom
    To <- MCTo
    Cases <- MCCases
    None = None
    Mixed = Mixed
    Trimmed = Trimmed
INVARIANTS
    TypeOK
    PacketsIntact
    AnswersToSameIP
PROPERTIES
    KeptUpstream
    BacklogServed
CHECK_DEADLOCK FALSE
