\* Three processes and two crashes on a lock; two shells, two control planes, two
\* model proxies on two ports; two watchers,
\* two images; one task, two edits; one or two faults;
\* three tasks in two worktrees; a worker, a listing and a stop on two tasks; two
\* recoveries of two tasks, apart with a stop or overlapping.
SPECIFICATION AllSpec
CONSTANTS
    Process = {p1, p2, p3}
    Nobody = Nobody
    TTL = 6
    Interval = 2
    MaxStall = 1
    MaxCrashes = 2
    Shell = {s1, s2}
    Watcher = {w1, w2}
    OnlyIfIdle = TRUE
    CodingTask = {"t1", "t2", "t3"}
    Root = {"shared", "own"}
    Path = {"p", "q"}
    RootOf <- MCRootOf
    Allowed <- MCAllowed
    Legacy = {"t3"}
    NoBranch = NoBranch
    StoredTask = {"t1", "t2"}
    Worker = "worker"
    Reader = {"reader"}
    TeamTask = {"t2"}
    Resumer = {"r1", "r2"}
    MaxProc = 2
    MaxTask = 1
    MaxTree = 2
    MaxBlocked = 2
    MaxPort = 2
    MaxProxy = 2
    MaxImage = 2
    MaxTries = 2
    MaxEdits = 3
    MaxWrites = 3
    MaxChanges = 1
    MaxRuns = 1
    MaxResumes = 2
    MaxOutages = 2
    MaxFaults = 1
INVARIANTS HoldersExclusive Tracked LedgerHolds ReleasesAreOwn ProxyFound TasksAreTold RecoveryHolds
PROPERTIES LockTaken UpdateArrives
CHECK_DEADLOCK FALSE
