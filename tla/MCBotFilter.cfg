SPECIFICATION LimiterSpec
CONSTANTS
    a1 = a1
    a2 = a2
    a3 = a3
    i1 = i1
    i2 = i2
    Addrs = {a1, a2, a3}
    Ips = {i1, i2}
    FilterIpFromAddr <- KeyOf
    Names = {n1, n2}
    NoName = NoName
    RateLimit = 2
    RateLimitDuration = 2
    UnverifyFactor = 2
    RateBanListCooldown = 5
    MaxAge = 7
SYMMETRY Symmetry
INVARIANTS
    AdmitsAtMostLimit
    OneNameRefusedOnce
PROPERTY
    LimitingLiftsOnTime
