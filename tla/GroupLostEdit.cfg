SPECIFICATION Spec
CONSTANTS
    Entities <- MCEntities
    Provisioned <- MCProvisioned
    Targets <- TwoTargets
    MaxEdits = 1
    MaxRestarts = 0
    MaxUpsets = 2
    MaxFaults = 0
INVARIANTS LastTargetsApplied
CHECK_DEADLOCK FALSE
