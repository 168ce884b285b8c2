SPECIFICATION Spec
CONSTANTS
    Handlers = {h1, h2, h3}
    Users <- Spelled
    ThrottleKey <- Folded
    MaxFailed = 2
    Window = 3
    MaxKeys = 1
    Second = 3
    None = none
    MaxTime = 5
SYMMETRY Goroutines
INVARIANTS
    TableIsItsOrder
    GuessesBounded
PROPERTY
    LockHolds
