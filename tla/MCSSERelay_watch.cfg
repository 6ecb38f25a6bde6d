SPECIFICATION FairSpec
CHECK_DEADLOCK FALSE
CONSTANTS
    Clients = {sdk, viewer}
    Submitter = sdk
    Events = 2
    Disturbances = 0
PROPERTIES
    WatcherGetsResult
