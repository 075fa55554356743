SPECIFICATION FlowsSpec
CONSTANTS
    Windows = {0, 2}
    Oks = {TRUE, FALSE}
    MaxGen = 2
    MaxSent = 3
    DownCap = 2
    UpCap = 1
    EventCap = 1
INVARIANTS
    CreditIsEarned
    RunPhaseNeverStalls
CHECK_DEADLOCK FALSE
