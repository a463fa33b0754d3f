SPECIFICATION Spec
CONSTANTS
    Specs <- AllSpecs
    Edits <- AllSpecs
    Period = 4
    ReadyPoll = 1
    RunPause = 2
    DeletionDelay = 3
    MaxTime = 8
    MaxEdits = 0
    MaxRestarts = 1
    MaxFaults = 0
    MaxUpsets = 2
    MaxRuns = 2
PROPERTIES NotBeforeExecuteTime
CHECK_DEADLOCK FALSE
