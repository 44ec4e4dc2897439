SPECIFICATION Spec
CONSTANTS
    u1 = u1  u2 = u2  s1 = s1  s2 = s2  d1 = d1  d2 = d2  b1 = b1  g1 = g1
    None = None
    Op = {1, 2}
    User = {u1, u2}
    Site = {}
    Domain = {}
    Database = {}
    Global = {g1}
    SiteOf <- MCSiteOf
    Request <- QueueRequests
    LeaseTicks = 1
    MaxPollAge = 1
    MaxQueuedPerTarget = 2
    MaxQueuedPerActor = 1
    MaxClaimed = 1
    Exec = {1}
    MaxActive = 1
    MaxBoots = 2
    MaintenanceBatch = 1
INVARIANTS
    TypeOK
    LeaseDiscipline
    LiveLeasesBounded
    LockCoverage
    ManualRunsOnce
    QueueBounded
    OrphansAreExpired
PROPERTIES
    LocksOutliveOwner
