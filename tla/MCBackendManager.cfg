SPECIFICATION Spec
CONSTANTS
    Ids = {f1, f2, f3}
    Domains = {d1, d2}
    ToLower <- SameCase
    Settings = {s1, s2}
    Backends = {b1, b2, b3, b4}
    Layouts <- AllLayouts
    NoConfig = NoConfig
    NoId = NoId
    NoBackend = NoBackend
SYMMETRY BackendSymmetry
INVARIANTS
    BackendsTracked
    BackendsMatchLayout
    OwnersAgree
PROPERTY
    KeptRoutesStable
