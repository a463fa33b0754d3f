\* Claims that TLC refutes, each; it shows the first that it meets.
SPECIFICATION FairSpec
CONSTANTS
    MaxIndex = 2
    Existing = {}
    Targets = {0, 2}
    MaxEdits = 2
    MaxAdopts = 1
    MaxRestarts = 0
    MaxUpsets = 3
    MaxFaults = 1
INVARIANTS LastTargetServed ServedAfterFailure
PROPERTIES DecidesOnFaults
CHECK_DEADLOCK FALSE
