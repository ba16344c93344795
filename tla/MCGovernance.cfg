\* Four calls over three chains.
SPECIFICATION FairSpec
CONSTANTS
    d1 = d1
    d2 = d2
    d3 = d3
    Domains <- MCDomains
    NoDomain = NoDomain
    NoRouter = NoRouter
    Stranger = Stranger
    Accounts = {a1}
    Nobody = Nobody
    FirstGovernor = d1
    FirstList <- MCFirstList
    Forgeries <- MCForgeries
    MaxCalls = 4
CHECK_DEADLOCK FALSE
INVARIANTS
    TypeOK
    ListsMatchRouters
    OneGovernor
PROPERTY
    CarefulTransfersSettle
