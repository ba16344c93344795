CONSTANTS
    remote = remote
    payload = payload
    honest = honest
    rogue = rogue
    manager = manager
    Domains = {remote}
    Payloads = {payload}
    Accounts = {honest, rogue}
    Honest = {honest}
    Managers = {manager}
    Forged <- ForgedRoots
    MaxLeaves = 2
    NonceSpace = 3
    Roots <- AllRoots
    LocalDomain = remote
    OptimisticSeconds = 1
    StartTime = 1
    MaxTime = 2
    MaxUpdates = 2
SPECIFICATION FairSpec
INVARIANTS
    FraudIsProvable
    HonestIsNeverDisputed
PROPERTIES
    ImplementsChannel
    FraudIsPunished
CHECK_DEADLOCK FALSE
