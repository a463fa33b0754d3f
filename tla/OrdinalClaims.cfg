\* Claims that TLC refutes, each; it shows the first that it meets.
SPECIFICATION Spec
CONSTANTS
    MaxLen = 6
    MaxIndex = 6
    Names = {robot1, robot2, robot3}
    Wishes = {0, 1, 2}
    Replicas = 0
    Targets = {0, 2}
    MaxRenumbered = 1
    MaxScales = 1
    MaxFaults = 0
INVARIANTS FirstAvailable IndexNotTaken UpdatesKeepUnique AdoptedKeepsPod AdmittedIsServed
PROPERTIES GrowsToOwnIndex
CHECK_DEADLOCK FALSE
