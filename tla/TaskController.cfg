SPECIFICATION FairSpec
CONSTANTS
    Specs <- AllSpecs
    Edits <- MCEdits
    Period = 4
    ReadyPoll = 1
    RunPause = 2
    DeletionDelay = 3
    MaxTime = 6
    MaxEdits = 1
    MaxRestarts = 1
    MaxFaults = 1
    MaxUpsets = 2
    MaxRuns = 2
INVARIANTS UntouchedRunsOnce ArchivedHasRun
PROPERTIES UntouchedNotEarly DeletedGoes ArchivedGoes OneTimeRuns
CHECK_DEADLOCK FALSE
