SPECIFICATION FairSpec
CONSTANTS
    a1 = a1
    a2 = a2
    ra = ra
    t1 = t1
    Posts = {a1}
    Routes = {ra}
    Targets = {t1}
    Push <- MCPush
    RouteOf <- MCRouteOf
    TargetOf <- MCTargetOf
    QueueLimit = 1
    Concurrency = 2
    MaxAttempts = 2
    MaxRedrives = 1
    MaxFaults = 0
PROPERTIES
    RedriveDelivers
CHECK_DEADLOCK FALSE
