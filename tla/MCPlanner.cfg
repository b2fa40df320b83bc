\* Two threads; one user's comment, which asks to hold; two planner runs, one decision or one
\* fault.  Or a request and the worker of the loop, three team runs, one commit, two ticks (the
\* window is shut on the second) and one fault.
SPECIFICATION AllSpec
CONSTANTS
    Thread = {t1, t2}
    t1 = t1
    t2 = t2
    Items = 1
    Confirm = TRUE
    RequiresApproval = FALSE
    Asks = {"hold"}
    MaxComments = 1
    MaxRuns = 2
    MaxDecisions = 1
    MaxFaults = 1
    Request = {t1}
    Loop = {t2}
    Bug = TRUE
    Threshold = 2
    Limit = 1
    Day = 3
    Open = 0
    Shut = 2
    Keep = 1
    MaxTime = 2
    MaxHead = 1
    MaxTeamRuns = 3
    MaxTeamFaults = 1
PROPERTIES OnlyPermittedWork RejectionStands NoDuplicateTask CommentIsAnswered LaneStateKept
CHECK_DEADLOCK FALSE
