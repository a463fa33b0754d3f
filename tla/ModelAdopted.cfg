SPECIFICATION Spec
CONSTANTS
    MaxIndex = 2
    Existing = {}
    Targets = {1}
    MaxEdits = 1
    MaxAdopts = 1
    MaxRestarts = 0
    MaxUpsets = 2
    MaxFaults = 0
INVARIANTS AdoptedStays
CHECK_DEADLOCK FALSE
