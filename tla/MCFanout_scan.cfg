SPECIFICATION MCSpec
CONSTANTS
    Actors <- MCActors
    Clients <- MCClients
    MaxConcurrency <- MCMaxConcurrency
    Statuses = {200, 401}
    NetworkErrors <- MCErrors
    MaxContainers = 2
    KeysOf <- MCKeysOf
    Subjects = {1, 2}
    Addresses = 2
    StatePaths = 1
    ReaderRequests = 1
INVARIANTS
    SlotsAreRequestsInFlight
    StagesReadSettledResults
    SnapshotIsTheList
    VerdictIsFirstAnswer
PROPERTIES
    ScanFinishes
