CONSTANTS
    Intervals = {1, 5}
    OutcomeCoins = {"#10"}
    MaxBatch = 2
    MaxFailures = 0
    Chains <- ShortOnly
SPECIFICATION Spec
INVARIANT PlatformVolumeOnce
CHECK_DEADLOCK FALSE
