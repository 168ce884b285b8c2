SPECIFICATION FairSpec
CONSTANTS
    Requests = {r1, r2}
    Overrides = {on}
    Unset = unset
    None = none
    Asks <- EveryAsk
    Leavers = {r1, r2}
    TTL = 1
    MaxTime = 2
    HasListener = TRUE
PROPERTIES
    ServiceProgress
    EveryBuildIsRunAndTold
