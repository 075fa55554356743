SPECIFICATION Spec
CONSTANTS
    Servers = {TRUE, FALSE}
    MaxPings = 0
    MaxChanges = 0
    Cap = 2
INVARIANT ModeAgrees
CHECK_DEADLOCK FALSE
