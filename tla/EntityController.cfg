SPECIFICATION FairSpec
CONSTANTS
    Specs <- MCSpecs
    MaxEdits = 1
    MaxRestarts = 1
    MaxFaults = 1
    MaxUpsets = 2
INVARIANTS ProvisionedIsComplete CalmSpecApplied PodGoesFirst
PROPERTIES SyncNeverStops DeletedGoes Decides
CHECK_DEADLOCK FALSE
