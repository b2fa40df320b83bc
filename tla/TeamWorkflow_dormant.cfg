\* One request alone: two team runs, two commits.
SPECIFICATION Spec
CONSTANTS
    Request = {t1}
    Loop = {}
    t1 = t1
    Bug = TRUE
    Threshold = 2
    Limit = 0
    Day = 3
    Open = 0
    Shut = 0
    Keep = 1
    MaxTime = 1
    MaxHead = 2
    MaxRuns = 2
    MaxFaults = 0
INVARIANTS DormantForOneHead
CHECK_DEADLOCK FALSE
