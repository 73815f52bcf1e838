SPECIFICATION FairSpec
CONSTANTS
    plain = plain
    offline = offline
    cached = cached
    limited = limited
    unlisted = unlisted
    Capital = Capital
    Conns = {c1, c2}
    Slots = 1
    Addresses <- SomeAddresses
    Lower <- ToLower
    Files <- SomeFiles
    NoServer = NoServer
    NilCatalog = NilCatalog
INVARIANTS
    TypeOK
    RunsEndWell
PROPERTY
    BacklogServed
CHECK_DEADLOCK FALSE
