SPECIFICATION Spec
CONSTANTS
    MaxIndex = 2
    Existing = {2}
    Targets = {0, 2}
    MaxEdits = 1
    MaxAdopts = 1
    MaxRestarts = 0
    MaxUpsets = 2
    MaxFaults = 0
INVARIANTS CalmServed
CHECK_DEADLOCK FALSE
