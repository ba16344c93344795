\* Two dispatched roots and a forged one; one kill or lost transaction.
SPECIFICATION Spec
CONSTANTS
    r1 = r1
    r2 = r2
    Home = home
    Replicas = {r1, r2}
    Dispatched = 2
    Forged = {3}
    NoRoot = NoRoot
    Lies <- MCLies
    MaxLog <- MCMaxLog
    ChannelSize = 1
    MaxFaults = 1
INVARIANTS
    TypeOK
    HonestIsSafe
PROPERTIES
    ConflictsAreCutOff
    BypassReachesHome
CHECK_DEADLOCK FALSE
