SPECIFICATION Spec
CONSTANTS
    Handlers = {h1, h2}
    MaxHandshakes = 2
    DiscoveryTTL = 2
    HandshakeWindow = 2
    Skew = 1
    MaxTime = 3
    MaxKey = 2
    MaxCalls = 4
SYMMETRY Symmetry
CHECK_DEADLOCK FALSE
INVARIANTS
    KeysAreTheProviders
    RotationLocksNobodyOut
    HandshakeIsSpent
