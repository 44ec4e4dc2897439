SPECIFICATION Spec
CONSTANTS
    u1 = u1  u2 = u2  s1 = s1  s2 = s2  d1 = d1  d2 = d2  b1 = b1  g1 = g1
    None = None
    Op = {1, 2, 3}
    User = {u1}
    Site = {s1}
    Domain = {d1}
    Database = {b1}
    Global = {g1}
    SiteOf <- MCSiteOf
    Request <- ScopeRequests
    LeaseTicks = 1
    MaxPollAge = 0
    MaxQueuedPerTarget = 1
    MaxQueuedPerActor = 1
    MaxClaimed = 1
    Exec = {}
    MaxActive = 2
    MaxBoots = 2
    MaintenanceBatch = 2
INVARIANTS
    LockCoverage
    SiteExclusion
    BackupExcludesInline
PROPERTIES
    TerminalIsFinal
    LocksOutliveOwner
