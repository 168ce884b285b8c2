SPECIFICATION Spec
CONSTANTS
    Handlers = {h1}
    Users <- Spelled
    ThrottleKey <- Folded
    MaxFailed = 1
    Window = 6
    MaxKeys = 2
    Second = 3
    None = none
    MaxTime = 8
INVARIANT
    RetryAfterOutlastsTheLock
