SPECIFICATION FairSpec
CHECK_DEADLOCK FALSE
CONSTANTS
    j1 = j1
    j2 = j2
    c1 = c1
    c2 = c2
    c3 = c3
    c4 = c4
    NoContainer = NoContainer
    Jobs <- TwoJobs
    Malformed <- OneMalformed
    Containers <- FourContainers
    QueueCap = 1
    MaxFaults = 0
    MayDisconnect = FALSE
PROPERTIES
    MalformedMovesOn
