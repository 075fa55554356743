SPECIFICATION Spec
CONSTANTS
    Conns = {c1, c2, c3, c4}
    Ids = {1, 2, 3}
    MaxConns = 3
CHECK_DEADLOCK FALSE
INVARIANT LiveSessionsAreOpen
