SPECIFICATION Spec
CONSTANTS
    u1 = u1  u2 = u2  s1 = s1  s2 = s2  d1 = d1  d2 = d2  b1 = b1  g1 = g1
    None = None
    Op = {1}
    User = {u1, u2}
    Site = {s1}
    Domain = {}
    Database = {}
    Global = {g1}
    SiteOf <- MCSiteOf
    Request <- DeletionRequests
    LeaseTicks = 1
    MaxPollAge = 0
    MaxQueuedPerTarget = 2
    MaxQueuedPerActor = 1
    MaxClaimed = 2
    Exec = {1, 2}
    MaxActive = 2
    MaxBoots = 2
    MaintenanceBatch = 2
INVARIANTS
    ExpiredBeforeExecution
