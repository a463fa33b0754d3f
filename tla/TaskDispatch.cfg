SPECIFICATION FairSpec
CONSTANTS
    N = 2
    Steps = 5
INVARIANTS ConditionMeansPosted
PROPERTIES CalmKept Reaped
CHECK_DEADLOCK FALSE
