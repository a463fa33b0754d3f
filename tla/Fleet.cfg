SPECIFICATION FleetFairSpec
CONSTANTS
    MaxIndex = 2
    Existing <- MCExisting
    Targets = {0, 1}
    MaxEdits = 2
    MaxAdopts = 1
    MaxRestarts = 1
    MaxUpsets = 2
    MaxFaults = 1
INVARIANTS CalmFleet CalmNoSurplus CalmServed
PROPERTIES Decides CoveredMovesOn
CHECK_DEADLOCK FALSE
