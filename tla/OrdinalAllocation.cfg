SPECIFICATION Spec
CONSTANTS
    MaxLen = 6
    MaxIndex = 6
    Names = {robot1, robot2, robot3}
    Wishes = {0, 1}
    Replicas = 0
    Targets = {0, 2}
    MaxRenumbered = 1
    MaxScales = 1
    MaxFaults = 1
SYMMETRY Symmetry
INVARIANTS LoopAgrees CalmUnique CalmGrowth AdoptedHasPod
CHECK_DEADLOCK FALSE
