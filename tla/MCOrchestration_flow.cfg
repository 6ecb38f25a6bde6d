SPECIFICATION FlowSpec
CHECK_DEADLOCK FALSE
CONSTANTS
    r1 = r1
    r2 = r2
    s1 = s1
    s2 = s2
    full = full
    bare = bare
    Own = Own
    Other = Other
    Marker = Marker
    NoRequest = NoRequest
    Requests <- TwoRequests
    Sends <- EveryKind
    Elsewhere <- TwoElsewhere
    MaxTest = 2
    MaxFaults = 1
INVARIANTS
    TypeOK
    TestsetsWhole
    JobsKept
    OwnSourceUnlessShared
PROPERTIES
    AcceptedIsJudged
