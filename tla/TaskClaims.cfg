\* Claims that TLC refutes, each; it shows the first that it meets.
SPECIFICATION Spec
CONSTANTS
    Specs <- AllSpecs
    Edits <- AllSpecs
    Period = 4
    ReadyPoll = 1
    RunPause = 2
    DeletionDelay = 3
    MaxTime = 8
    MaxEdits = 1
    MaxRestarts = 0
    MaxFaults = 0
    MaxUpsets = 2
    MaxRuns = 2
INVARIANTS RunTimeOnce OneTimeOnce
PROPERTIES PersistantRemains
CHECK_DEADLOCK FALSE
