SPECIFICATION SSpec
CHECK_DEADLOCK FALSE
CONSTANTS
    MaxTests = 2
    Halt <- NeverHalt
    LogLimits <- SmallLimit
    MaxLogCapKB = 1024
    MayLoseRmq = FALSE
INVARIANTS
    StdoutInS3
