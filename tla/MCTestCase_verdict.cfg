SPECIFICATION FairSpec
CHECK_DEADLOCK FALSE
CONSTANTS
    Limit = 2
    MaxOut = 3
    MemoryLimitMB = 2048
    PeaksKB <- Peaks
INVARIANTS
    TypeOK
    WholeOutputJudged
    OutputLimitKept
    FaultAttributed
PROPERTIES
    TestEnds
    StreamsAreLimited
