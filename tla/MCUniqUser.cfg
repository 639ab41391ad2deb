SPECIFICATION Spec
CONSTANTS
    u1 = u1
    u2 = u2
    Users <- MCUsers
    BarTicks = 4
    Tables <- AllTables
    AlltimePeriod = 12
    MaxDelay = 3
    MaxFills = 2
    LastFill = 5
    LastTick = 32
    MaxMissed = 1
SYMMETRY Symmetric
CHECK_DEADLOCK FALSE
INVARIANTS
    TypeOK
    RecentBarsCurrent
    OldBarsKept
