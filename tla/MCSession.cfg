SPECIFICATION FairSpec
CONSTANTS
    Client = Client
    Server = Server
    CacheStatus = FALSE
    RealIP = FALSE
    SendProxyProtocol = TRUE
    MaxSent = 3
INVARIANT
    NoSpuriousClose
PROPERTIES
    LastWords
    EndTogether
CHECK_DEADLOCK FALSE
