SPECIFICATION MCSpec
CONSTANTS
    Conns = {c1, c2, c3, c4}
    Ids = {1, 2, 3}
    MaxConns = 3
    Radix = 14
    CapBits = 3
    PubKeyBytes = 2
    MaxCaps = 2
    MaxList = 3
    MaxChunk = 4
    MaxChunks = 2
    MaxCursorDim = 1
    MaxCursorBytes = 4
    Magics <- MCMagics
    Versions <- MCVersions
    LzRgb = 11
    GlzRgb = 12
    LzImageTypes = {1, 2, 3}
    Rgb32 = 2
    Rgba = 3
    Nibble = 5
    Bodies <- MCBodies
    MsgTypes = {1, 2}
    MsgBodies <- MCMsgBodies
    Limits = {0, 2, 3}
    Serials = 3
    MaxFrames = 3
INVARIANTS
    OpenSessionsAreDistinct
    OpenSessionsAreLive
    SlotsAddUp
    MessagesComeBack
    DamageIsContained
CHECK_DEADLOCK FALSE
