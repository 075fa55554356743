SPECIFICATION Spec
CONSTANTS
    Windows = {2}
    Oks = {TRUE}
    MaxGen = 2
    MaxSent = 3
    DownCap = 2
    UpCap = 2
    EventCap = 1
INVARIANT NoStall

CHECK_DEADLOCK FALSE
