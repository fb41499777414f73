CONSTANTS
    None = None
    Nil = Nil
    AccessUnits <- MCAccessUnits
    LenSize = 1
    Widths <- MCWidths
    SpsIds = {0}
    PpsIds = {0}
    MaxSpsId = 32
    MaxPpsId = 256
    MaxOps = 32
    SpsSet <- MCSps
    PpsSet <- MCPps
    Flags <- MCFlags
    MaxPics <- MCPics
    Steps <- MCSteps
    Periods = 2
    Files <- MCFiles
    FileBytes = 34
    MaxSampleSize = 20
    MaxExtradata = 10
    Streams <- MCStreams
    Memories = {0, 32, 64}
    LargeMemory = 40
    LargeReserve = 1
    SmallReserve = 0
    MaxGen = 2
    OutCount = 2
    MaxCap = 32
    CapMin = 5
    CapLarge = 8
    CapSmall = 16
    ReorderDepth = 2
    Hold = 2
    MaxRef = 2
    Reorder = 1
    MaxFrameNum = 3
    MaxLong = 1
    MaxMods = 2
    MaxPoc = 4
    MaxMmco = 1
    MaxShown = 2
SPECIFICATION Spec
INVARIANTS InputRight FileRight SessionClean PicturesInOrder RefListsRight
PROPERTIES ReferencesRight
CHECK_DEADLOCK FALSE
