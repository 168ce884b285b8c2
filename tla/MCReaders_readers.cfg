SPECIFICATION Spec
CONSTANTS
    Fold <- MCFold
    Tokens <- MCTokens
    BareName <- MCBareName
    HostHints = {"authentik", "goauthentik.io"}
    Worlds <- MCWorlds
    Statuses = {200, 401, 404}
    Errors = {"connect"}
    PageSize = 2
    MaxPages = 2
INVARIANTS
    CredentialsGoToProvenAddresses
    WhatIsMissingIsSaid
    SuppressionIsProven
    SilenceWeakensNothing
    ConfirmedMeansEnforced
