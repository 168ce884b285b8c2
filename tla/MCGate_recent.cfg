SPECIFICATION GateSpec
CONSTANTS
    Requests = {q1}
    Callers <- Hooks
    Kinds <- Clients
    None = none
    OIDCLive = FALSE
    PostureTTL = 2
    MaxTime = 3
    MaxStamp = 2
    MaxStates = 2
INVARIANTS
    
    CacheIsTheFile
    DataIsGated
