SPECIFICATION Spec
CONSTANTS
    Handlers = {h1, h2}
    Tokens = {1, 2, 3}
    TTL = 2
    MaxRevocations = 2
    None = none
    MaxTime = 4
    MaxRestarts = 1
SYMMETRY Goroutines
INVARIANTS
    SignedOutStaysOut
PROPERTY
    OnlyItsOwnSignOutEndsASession
