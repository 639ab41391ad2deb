SPECIFICATION Spec
CONSTANTS
    Coins = {"BTC", "#10"}
    DexOf <- MCDexOf
    Kinds = {"trade", "reshape", "funding"}
    Intervals = {4, 12}
    AlltimePeriod = 24
    AlltimeOffset = 5
    SourceTTL = 52
    BoardTTL = 12
    MaxDelay = 1
    MaxFills = 1
    LastFill = 6
    LastTick = 60
    MaxMissed = 0
CHECK_DEADLOCK FALSE
INVARIANT TwoHourLag
