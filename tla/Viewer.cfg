SPECIFICATION ViewerFairSpec
CONSTANTS
    Tasks = {"main", "display", "inputs"}
    EventCap = 1
    MaxEvents = 3
    Embedders = {"application", "viewer"}
    WindowCap = 1
    InputCap = 1
    MaxInputs = 2
INVARIANTS
    EndIsAnnounced
    InputsKeepOrder
PROPERTIES
    MainLossIsReported
    ShutdownCompletes
    PostsGetThrough
CHECK_DEADLOCK FALSE
