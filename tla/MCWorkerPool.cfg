SPECIFICATION FairPoolSpec
CONSTANTS
    f1 = f1
    f2 = f2
    d1 = d1
    d2 = d2
    D2 = D2
    ToLower <- LowerCase
    Ids = {f1, f2}
    Domains = {d1, d2, D2}
    Settings = {s1, s2}
    Backends = {b1, b2}
    Layouts <- FixedLayouts
    NoConfig = NoConfig
    NoId = NoId
    NoBackend = NoBackend
    NumWorkers = 2
    Goroutines = {g1}
    ReqCap = 1
    NoRequester = NoRequester
INVARIANTS
    WorkersOnRunning
    RequestsAccounted
    RoutesToRunning
    RoutesMatchLayout
PROPERTIES
    ImplementsGracePeriod
    WorkersReturn
    UpdateEnds
