\* Claims that TLC refutes, each; it shows the first that it meets.
SPECIFICATION FairSpec
CONSTANTS
    Entities <- MCEntities
    Provisioned <- MCProvisioned
    Targets <- TwoTargets
    MaxEdits = 1
    MaxRestarts = 1
    MaxUpsets = 2
    MaxFaults = 1
INVARIANTS AppliedOrFailed LastTargetsApplied ProvisionedIsFinalized FinalizedGoesClean PodsAlwaysFollow PolicyGoes TotalIsRight
PROPERTIES DeletedGoes FailedDeletionGoes
CHECK_DEADLOCK FALSE
