CONSTANTS
    Worker = {w1}
    w1 = w1
    MaxAttempts = 2
    Contract <- ProofOrNot
    Request = {"sweep", "dry_run"}
    MaxCrashes = 1
    MaxRewrites = 2
SPECIFICATION FairSpec
INVARIANTS
    CodingRunsBounded
PROPERTIES
    PushedCodePassedGates
    FinalStaysFinal
    EveryRunEnds
    TaskSettles
CHECK_DEADLOCK FALSE
