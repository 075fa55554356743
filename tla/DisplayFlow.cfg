SPECIFICATION FairSpec
CONSTANTS
    Windows = {0, 1, 2}
    Oks = {TRUE, FALSE}
    MaxGen = 2
    MaxSent = 3
    DownCap = 2
    UpCap = 1
    EventCap = 1
INVARIANTS
    NoStall
    CreditIsEarned
    IInv
PROPERTIES
    CreditReturns
    GenerationSyncs
CHECK_DEADLOCK FALSE
