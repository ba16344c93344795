CONSTANTS
    ra = ra
    rb = rb
    rc = rc
    ua = ua
    ub = ub
    NoReplica = NoReplica
    w1 = w1
    Replicas = {ra, rb, rc}
    Domains = {0, 1, 2}
    Updaters = {ua, ub}
    HomeOf <- MCHomeOf
    UpdaterOf <- MCUpdaterOf
    Watchers = {w1}
SPECIFICATION Spec
INVARIANTS
    TypeOK
    ListedIsEnrolled
PROPERTY WatchersOnlyCutTheirDomain
