SPECIFICATION LogSpec
CONSTANTS
    Requests = {r1, r2, r3}
    Overrides = {}
    Unset = unset
    None = none
    Asks <- PlainAsks
    Leavers = {}
    TTL = 1
    MaxTime = 2
    HasListener = TRUE
    Targets = {docker}
    Reports = {up, down}
SYMMETRY Callers
INVARIANTS
    NoticesFormOneChain
    LogCatchesUp
    EveryRescanSpeaks
