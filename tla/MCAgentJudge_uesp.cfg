SPECIFICATION FairSpec
CHECK_DEADLOCK FALSE
CONSTANTS
    MaxTests = 4
    Halt <- HaltBoth
    LogLimits <- AnyLimit
INVARIANTS
    TypeOK
    AnswersEarned
PROPERTIES
    SpeaksUESP
    CompiledIsAnswered
