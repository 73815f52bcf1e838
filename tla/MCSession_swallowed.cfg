SPECIFICATION Spec
CONSTANTS
    Client = Client
    Server = Server
    CacheStatus = FALSE
    RealIP = FALSE
    SendProxyProtocol = FALSE
    MaxSent = 3
INVARIANT NothingSwallowed
CHECK_DEADLOCK FALSE
