SPECIFICATION FairSpec
CONSTANTS
    SurfaceIds = {1}
    Formats = {"xrgb", "rgb565"}
    StreamIds = {1, 2}
    Dests = {1}
    Unknown = "unknown"
    Sized = 0
    DownCap = 1
    EventCap = 1
INVARIANTS
    SettledViewsAgree
    FramesBelongToAStream
    RegionsMatchTheirSurface
PROPERTY EndedStreamsGo
CHECK_DEADLOCK FALSE
