\* One request and three decisions, the policy stays as it is.
SPECIFICATION Spec
CONSTANTS
    Kind = {"merge"}
    CategoryOf <- Categories
    LowKind = {}
    MaxRequests = 1
    MaxDecisions = 3
    MaxEdits = 0
INVARIANTS DenialStands
CHECK_DEADLOCK FALSE
