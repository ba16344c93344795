CONSTANTS
    d1 = d1
    d2 = d2
    p1 = p1
    honest = honest
    rogue = rogue
    m1 = m1
    m2 = m2
    Domains = {d1, d2}
    Payloads = {p1}
    Accounts = {honest, rogue}
    Honest = {honest}
    Managers = {m1, m2}
    Forged <- ForgedRoots
    MaxLeaves = 3
    NonceSpace = 4
SPECIFICATION Spec
INVARIANTS
    TypeOK
    QueueIsPending
    UpdatesFormChain
    NoncesNumberMessages
    AttestationsStayProper
    HonestNeverSlashed
PROPERTY FailureIsFinal
