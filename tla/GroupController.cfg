SPECIFICATION FairSpec
CONSTANTS
    Entities <- OneEntity
    Provisioned <- OneEntity
    Targets <- OnOff
    MaxEdits = 1
    MaxRestarts = 1
    MaxUpsets = 2
    MaxFaults = 1
INVARIANTS LabelsAreGuarded CalmApplied CalmGoneClean PodsFollow
PROPERTIES CalmDeletedGoes
CHECK_DEADLOCK FALSE
