\* One run of the migration without failures, every file parses.
SPECIFICATION MigrationSpec
CONSTANTS
    t1 = t1
    t2 = t2
    must = must
    mustNot = mustNot
    Thread = {t1, t2}
    Text = {must, mustNot}
    Opposed <- MCOpposed
    Infeasible = {mustNot}
    MaxCalls = 3
    MaxCrashes = 1
    Command = {"shows", "barred"}
    Kind <- MCKind
    Answer <- MCAnswer
    PlannedItem <- MCItem
    MaxAttempts = 2
    MaxPlans = 1
    RequestKind = {"merge", "check"}
    CategoryOf <- MCCategoryOf
    LowKind = {"check"}
    MaxRequests = 2
    MaxDecisions = 2
    MaxEdits = 1
    Order <- Files
    DirOf <- Dirs
    KindOf <- Kinds
    HeadOf <- Heads
    Claims <- Named
    DirName <- DirNames
    Sorted <- Alphabet
    Slug <- Slugs
    PathOf <- Names
    Existing <- There
    Rewritten = {"requirements", "requirements2", "ledger"}
    Garbled = {}
    None = "none"
    MaxRuns = 1
    MaxFaults = 0
INVARIANTS NeverDeletes
CHECK_DEADLOCK FALSE
