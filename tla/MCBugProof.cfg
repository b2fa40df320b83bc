\* Two runs of two attempts, one of them may be forced; the planner stays away.
SPECIFICATION Spec
CONSTANTS
    Command <- Commands
    Kind <- Kinds
    Named <- Answers
    Item <- PlannedItem
    MaxAttempts = 2
    MaxRuns = 2
    MaxPlans = 0
PROPERTIES FixNotClosed
CHECK_DEADLOCK FALSE
