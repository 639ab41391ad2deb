CONSTANTS
    Intervals = {1, 5}
    OutcomeCoins = {"#10"}
    MaxBatch = 2
    MaxFailures = 1
    Chains <- AllChains
SPECIFICATION Spec
INVARIANTS
    TypeOK
    AtLeastOnce
    RepeatsBounded
    ViewsAreBatch
    DistinctExact
    BarsNest
    MatchesOnce
    LiquidationsOnce
    WithdrawalsOnce
PROPERTIES
    Implements
    AllIngested
CHECK_DEADLOCK FALSE
