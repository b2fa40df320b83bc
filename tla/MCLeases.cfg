\* One task; leases of three ticks, calls of up to two, six ticks of the clock; a heartbeat each tick.
SPECIFICATION AllSpec
CONSTANTS
    Task = {t1}
    NoTask = NoTask
    Instance = {i1, i2}
    NoInstance = NoInstance
    Client = {c1, c2, c3}
    c1 = c1
    c2 = c2
    c3 = c3
    i1 = i1
    i2 = i2
    j1 = j1
    j2 = j2
    j3 = j3
    k1 = k1
    k2 = k2
    InstanceOf <- MCShared
    Job = {j1, j2, j3}
    Owner <- MCTwin
    LockKey <- MCTwinKeys
    Heartbeat = 1
    MaxQueue = 1
    TTL = 3
    CallTime = 2
    MaxClock = 6
INVARIANTS ToldHolderHolds OverlapBounded
PROPERTIES ImplementsExclusiveLease TaskTakenUp
CHECK_DEADLOCK FALSE
