SPECIFICATION Spec
CHECK_DEADLOCK FALSE
CONSTANTS
    MaxLimit = 8
    MaxTotal = 12
INVARIANTS
    TypeOK
    StreamLimited
