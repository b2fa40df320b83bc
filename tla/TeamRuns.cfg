\* Two threads and the clean-up loop; two scopes of one project; one event fills the list.
SPECIFICATION LiveSpec
CONSTANTS
    Thread = {t1, t2}
    Cleaner = cleaner
    Scope = {s1, s2}
    CodingRun = coding
    TaskRun = task
    FreshRun = {r1}
    Cap = 1
    MaxJobs = 2
    MaxCommands = 1
    MaxBeats = 1
    MaxCrashes = 1
INVARIANTS RowTellsTruth
PROPERTIES ActivityEnds
CHECK_DEADLOCK FALSE
