SPECIFICATION Spec
CHECK_DEADLOCK FALSE
CONSTANTS
    r1 = r1
    r2 = r2
    s1 = s1
    s2 = s2
    full = full
    bare = bare
    Own = Own
    Other = Other
    Marker = Marker
    NoRequest = NoRequest
    Requests <- TwoRequests
    Sends <- SameKind
    Elsewhere <- TwoElsewhere
    MaxTest = 1
    MaxFaults = 0
INVARIANTS
    AcceptedIdsUnique
