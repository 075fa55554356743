SPECIFICATION Spec
CONSTANTS
    MaxInputs = 3
    MsgNumbers = 3
    InputCap = 2
    UpCap = 1
    DownCap = 4
INVARIANT ControlMessagesAreDrained
CHECK_DEADLOCK FALSE
