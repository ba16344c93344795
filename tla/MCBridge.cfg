\* Three transfers, one of them filled in advance, and one call of an owner.
SPECIFICATION Spec
CONSTANTS
    A = A
    B = B
    C = C
    u = u
    lp = lp
    Domains = {A, B, C}
    Origin = A
    Native = Native
    Default = Default
    Custom = Custom
    NoToken = NoToken
    Accounts = {u, lp}
    Router = Router
    Nobody = Nobody
    Amounts = {2}
    Endowment <- MCEndowment
    Wavering <- MCWavering
    MaxCalls <- MCMaxCalls
INVARIANTS
    TypeOK
    EscrowBacksSupply
PROPERTIES
    ImplementsLedger
    NamesArrive
CHECK_DEADLOCK FALSE
