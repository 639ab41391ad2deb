SPECIFICATION Spec
CONSTANTS
    Legs = {"yes", "no"}
    TTLTicks = 3
    MaxBefore = 1
    MaxFills = 3
    MaxSize = 2
    LastTick = 4
    MaxMissed = 0
CHECK_DEADLOCK FALSE
INVARIANT OnlyOpen
