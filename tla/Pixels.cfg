SPECIFICATION MCSpec
CONSTANTS
    CapacityBytes = 2
    MaxImages = 3
    Sizes = {0, 1, 3}
    PlaceholderCap = 2
    Types = {"glz", "lz", "quic", "bitmap", "other"}
    Faults = {"none", "envelope", "body"}
    Ids = {1, 2, 3, 4}
    MaxInserts = 5
    Widths = {0, 2, 3, 5}
    Heights = {2, 3}
    MaxAxis = 3
    MaxPixels = 6
    Lefts <- MCLefts
    Tops <- MCTops
    Pictures = {"a"}
    MaxPaints = 3
    WindowSizes <- MCWindowSizes
    Views <- MCViews
    Keys <- MCKeys
    Buttons = {"left", "back"}
    Byte = 2
    LenCodes = 4
    High = 2
    Kinds <- MCKinds
    Low = 1
    Middle = 2
    GlzLenCodes = 4
    Dictionary <- MCDictionary
    SelfId = 8
    GlzPixels = 6
    MaxTokens = 2
    MaxCodeLen = 5
    Peeked = 6
    XlatSize = 8
    JTable <- MCJTable
    Bpc8 = 3
    Bpc5 = 2
    MinExtent = 4
    MaxWm = 2
    Triggers <- MCTriggers
    Chaos <- MCChaos
    MaxDim = 6
    MaxBytes = 100
    Planes <- MCPlanes
    QuicImages <- MCQuicImages
    Palette <- MCPalette
    Damages <- MCDamages
    Spares = {4, 6}
    WordBits = 4
    ByteBits = 2
    MaxBits = 7
    BitWrites <- MCBitWrites
    Depths = {2, 3, 5}
    LongestRun = 12
    Followers <- MCFollowers
INVARIANTS
    WindowTellsTrue
    DictionaryAddsUp
    RegionsAreTopDown
    GlzChainAlive
    PictureAgrees
    LzDecodesExactly
    GlzDecodesExactly
    CodesComeBack
    CodersInStep
    CodersStayInRow
PROPERTIES
    KeepsLatestThatFit
    CodersLeadOn
CHECK_DEADLOCK FALSE
