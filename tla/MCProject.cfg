\* Two writers of requirements, two texts that oppose each other, one of which is not feasible as
\* it stands, three calls, a crash; two runs of a bug's delivery with two attempts each, and one
\* rewrite by the planner; two requests for approval, two decisions and an edit of the policy; two
\* runs of the migration of six files, one of which does not parse, and a failure.
SPECIFICATION AllSpec
CONSTANTS
    t1 = t1
    t2 = t2
    must = must
    mustNot = mustNot
    Thread = {t1, t2}
    Text = {must, mustNot}
    Opposed <- MCOpposed
    Infeasible = {mustNot}
    MaxCalls = 3
    MaxCrashes = 1
    Command = {"shows", "barred"}
    Kind <- MCKind
    Answer <- MCAnswer
    PlannedItem <- MCItem
    MaxAttempts = 2
    MaxPlans = 1
    RequestKind = {"merge", "check"}
    CategoryOf <- MCCategoryOf
    LowKind = {"check"}
    MaxRequests = 2
    MaxDecisions = 2
    MaxEdits = 1
    Order <- Files
    DirOf <- Dirs
    KindOf <- Kinds
    HeadOf <- Heads
    Claims <- Named
    DirName <- DirNames
    Sorted <- Alphabet
    Slug <- Slugs
    PathOf <- Names
    Existing <- There
    Rewritten = {"requirements", "requirements2", "ledger"}
    Garbled = {"requirements2"}
    None = "none"
    MaxRuns = 2
    MaxFaults = 1
SYMMETRY Symmetry
INVARIANTS RequirementsKept FixesProvenBugs HardBlocksHold MigrationKeepsFiles
PROPERTIES ReleasedPasses
CHECK_DEADLOCK FALSE
