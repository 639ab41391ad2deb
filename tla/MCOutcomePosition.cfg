SPECIFICATION Spec
CONSTANTS
    Legs = {"yes", "no"}
    TTLTicks = 3
    MaxBefore = 1
    MaxFills = 3
    MaxSize = 2
    LastTick = 5
    MaxMissed = 1
CHECK_DEADLOCK FALSE
INVARIANTS
    TypeOK
    OpenShown
