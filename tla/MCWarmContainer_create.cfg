SPECIFICATION FairSpec
CHECK_DEADLOCK FALSE
CONSTANTS
    producer = producer
    worker = worker
    c1 = c1
    c2 = c2
    c3 = c3
    c4 = c4
    None = None
    Creators <- ProducerAndWorker
    Containers <- FourContainers
    MaxSlots = 2
    MaxFaults = 2
INVARIANTS
    TypeOK
    OwnSocket
    OrphansPaidFor
PROPERTIES
    AcceptReturns
