SPECIFICATION FairSpec
CHECK_DEADLOCK FALSE
CONSTANTS
    Clients = {sdk, viewer}
    Submitter = sdk
    Events = 2
    Disturbances = 2
INVARIANTS
    TypeOK
    EventsConserved
    ClientsServed
PROPERTIES
    BoundInTimeFinishes
