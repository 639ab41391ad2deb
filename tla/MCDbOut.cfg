SPECIFICATION Spec
CONSTANTS
    Stride = 3
    UsizeMod = 18
    U32Mod = 18
    U64Mod = 80
    Hashes = {"h1", "h2"}
    Blocks <- MCBlocks
INVARIANTS
    TypeOK
    EachItemOnce
    NothingMerged
    FillRowsSurvive
    BlockRowWithOthers
CHECK_DEADLOCK FALSE
