\* Claims that TLC refutes, each; it shows the first that it meets.
SPECIFICATION FleetFairSpec
CONSTANTS
    MaxIndex = 2
    Existing = {}
    Targets = {0, 1, 2}
    MaxEdits = 2
    MaxAdopts = 1
    MaxRestarts = 0
    MaxUpsets = 2
    MaxFaults = 0
INVARIANTS AdoptedHasPod LastTargetHasPods
PROPERTIES DeletedGoes
CHECK_DEADLOCK FALSE
