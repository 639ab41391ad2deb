SPECIFICATION ParitySpec
CONSTANTS
    Stride = 2
    UsizeMod = 64
    WasmUsizeMod = 16
    U32Mod = 4
    U64Mod = 80
    Hashes = {"h1"}
    Blocks <- MCBlocks
    Requests <- MCRequests
    FillsCeiling = 3
    BytesCeiling = 4
    MaxSeconds = 9
    NanosMod = 10
INVARIANTS
    TypeOK
    CheckedBeforeRows
    SameFillRows
PROPERTIES
    Implements
CHECK_DEADLOCK FALSE
