CONSTANTS
    here = here
    elsewhere = elsewhere
    key = key
    stranger = stranger
    Messages <- MCMessages
    Roots <- MCRoots
    InitialRoot <- MCInitialRoot
    Accounts = {key, stranger}
    LocalDomain = here
    OptimisticSeconds = 2
    StartTime = 1
    MaxTime = 6
    MaxUpdates = 3
SPECIFICATION Spec
PROPERTY FailedReplicaHalts
CHECK_DEADLOCK FALSE
