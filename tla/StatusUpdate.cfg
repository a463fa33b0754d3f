SPECIFICATION FairSpec
CONSTANTS
    Calls = {reconciler, task1}
    Steps = 5
    MaxWrites = 3
INVARIANTS ExactlyOnce
PROPERTIES Atomic Returns
CHECK_DEADLOCK FALSE
