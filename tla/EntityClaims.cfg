\* Claims that TLC refutes, each; it shows the first that it meets.
SPECIFICATION FairSpec
CONSTANTS
    Specs <- MCSpecs
    MaxEdits = 1
    MaxRestarts = 0
    MaxFaults = 1
    MaxUpsets = 1
INVARIANTS LastSpecApplied
PROPERTIES UnlockedDeletedGoes FailureIsSaid AlwaysSynced
CHECK_DEADLOCK FALSE
