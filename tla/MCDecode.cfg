SPECIFICATION Spec
CONSTANTS
    HeaderFields <- MCHeaderFields
    Requests <- MCRequests
    BytesCeiling = 6
    FillsCeiling = 2
    MaxFields = 3
INVARIANTS
    TypeOK
    AttemptsBounded
    DecodesPrefix
    GeneratedAgrees
PROPERTIES
    Implements
CHECK_DEADLOCK FALSE
