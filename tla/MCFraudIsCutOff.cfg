\* Two dispatched roots and a forged one; no kill and no lost transaction.
SPECIFICATION Spec
CONSTANTS
    r1 = r1
    r2 = r2
    Home = home
    Replicas = {r1, r2}
    Dispatched = 2
    Forged = {3}
    NoRoot = NoRoot
    Lies <- MCLies
    MaxLog <- MCMaxLog
    ChannelSize = 1
    MaxFaults = 0
PROPERTY
    FraudIsCutOff
CHECK_DEADLOCK FALSE
