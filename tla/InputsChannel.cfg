SPECIFICATION FairSpec
CONSTANTS
    MaxInputs = 3
    MsgNumbers = 3
    InputCap = 2
    UpCap = 1
    DownCap = 4
INVARIANTS
    InputsStayInOrder
PROPERTY InputsReachServer
CHECK_DEADLOCK FALSE
