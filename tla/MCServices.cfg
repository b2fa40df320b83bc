\* Two handlers, proposals and commits; the loop, one API thread and a log of up to four; two planners,
\* two tasks, four issues; a log of four or five events in pages of two; two runs in one
\* worktree, 729 repositories of nine files, 128 sets of test commands.
SPECIFICATION AllSpec
CONSTANTS
    Client = {c1, c2}
    Text = {x1, x2}
    NoText = NoText
    Commit = {h1, h2}
    MaxCrashes = 1
    Loop = "loop"
    Api = {"api"}
    Limit = 2
    MaxEvents = 3
    MaxSweeps = 2
    Thread = {"p1", "p2"}
    Task = {"t1", "t2"}
    MaxIssues = 4
    MaxUpdates = 3
    Watcher = {"watch"}
    Firehose = {"all"}
    Saver = {"g1", "g2"}
    Page = 2
    Batch = 2
    MaxLog = 5
    MaxControls = 1
    Inspector = {"n1", "n2"}
    Scanned = {"k1", "k2"}
    Paths <- MCPaths
    Contents <- MCContents
    Manifests <- MCManifests
    ListLimit = 8
    FileChars = 4000
    ChunkChars = 24000
    MaxScans = 3
    MaxFaults = 1
INVARIANTS LockedIsApproved GreenMeansPassed ReportsHold IssuesInStep WatchersTold InspectionHolds
PROPERTIES LockFreezes EventsHandled
CHECK_DEADLOCK FALSE
