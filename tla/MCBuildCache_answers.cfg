SPECIFICATION Spec
CONSTANTS
    Requests = {r1, r2, r3}
    Overrides = {on}
    Unset = unset
    None = none
    Asks <- EveryAsk
    Leavers = {}
    TTL = 1
    MaxTime = 3
    HasListener = FALSE
SYMMETRY Stayers
INVARIANTS
    ForcedAnsweredByLaterScan
    UnforcedAnswerFresh
    OverrideHonoured
    OneScanAtATime
    QueueOnlyDisagrees
PROPERTIES
    ServiceSafety
