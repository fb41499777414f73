SPECIFICATION Spec
CONSTANTS
    Files <- MCFiles
    Configs <- MCConfigs
    CfgOf <- MCCfgOf
    Flash <- MCFlash
    Card <- MCCard
    Fallbacks = {"fallback", "unfit"}
    MaxOperators = 3
    FirstCapacity = 1
    MaxElements = 3
    UiScale = 1
    Width = 5
    Height = 4
    Chars <- MCChars
    ImageSize <- MCImageSize
    Ink = 1
    Scale = 1
    Opaque = 255
    MaxFrame = 14
    Texts <- MCTexts
    StartOf <- MCStartOf
    PerStep <- MCPerStep
    Length <- MCLength
    CornerEnd = 12
    FullLogo = 20
    SweepFrames = 6
    SweepWidth = 20
    ArrowHeight = 3
    LastFrame = 45
    Durations = {1, 2, 4, 6, 7, 8, 10}
    StepTime = 2
    FrameTime = 3
    CleanupDelay = 5
    Late = 1
    Drops = 2
    Columns = 6
    ImageWidth = 2
    Paths = {"pic", "logo", "tiny"}
    Versions = {1, 2}
    ContentOf <- MCContentOf
    Owners = {"ark", "image", "custom", "tr"}
    OwnerOf <- MCOwnerOf
    Baked <- MCBaked
    Entries = 10
    DynBase = 3
    RampLevels <- MCRamps
    RampsMax = 1
    MaxSamples = 100
    Blended <- MCBlended
    MaxDraws = 1
INVARIANTS CatalogueSound PassIsWhole PicturesHold EndsComplete
PROPERTIES OrderHolds ScreenIsReference ChangesHidden EffectsEnd
CHECK_DEADLOCK FALSE
