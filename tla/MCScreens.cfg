SPECIFICATION Spec
CONSTANTS
    PanelY <- MCPanelY
    Intro = 580
    DipTime = 4
    RiseTime = 6
    RetractTime = 3
    Late = 1
    Requested = {"warning", "spinner"}
    MaxRequests = 2
    Rebuilt = {"oplist"}
    Devices = {1, 2}
    Keys = {"left", "enter"}
    MaxPresses = 2
    Slots = 5
    Tables <- MCTables
    Below <- MCBelow
    MaxCarried = 3
    MaxScans = 1
    Places = {0, 1}
    Buffers = {1, 2}
    Opaque = 255
    QueueRoom = 2
    MaxWishes <- MCMaxWishes
    MaxRefused = 1
    MaxStops = 1
INVARIANTS ScreensRest WhatIsSeenIsSelected PlanesAsAsked
PROPERTIES InputReturns OneByOne
CHECK_DEADLOCK FALSE
