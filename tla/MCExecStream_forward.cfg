SPECIFICATION SFairSpec
CHECK_DEADLOCK FALSE
CONSTANTS
    MaxTests = 2
    Halt <- NeverHalt
    LogLimits <- BothLimits
    MaxLogCapKB = 1024
    MayLoseRmq = TRUE
INVARIANTS
    STypeOK
    PublishedIsSent
PROPERTIES
    ConsumersReadUESP
    ReaderEnds
    ResultPublished
