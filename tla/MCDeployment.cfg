\* Three chains; two transactions nobody waits for may revert.
SPECIFICATION DeploySpec
CONSTANTS
    d1 = d1
    d2 = d2
    d3 = d3
    a1 = a1
    Domains <- MCDomains
    Order <- MCOrder
    NoDomain = NoDomain
    NoRouter = NoRouter
    Stranger = Stranger
    Deployer = Deployer
    Accounts = {Deployer, a1}
    Nobody = Nobody
    NoConfig = NoConfig
    Appointments <- MCAppointments
    FirstGovernor = d1
    FirstList <- MCFirstList
    Forgeries = {}
    MaxCalls = 9
    MaxReverts = 2
CHECK_DEADLOCK FALSE
INVARIANTS
    DeployTypeOK
    NobodyLockedOut
    FinishedIsDone
    HandsOver
