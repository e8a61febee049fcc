CONSTANTS
    d1 = d1
    d2 = d2
    h1 = h1
    h2 = h2
    Devices <- OneDevice
    Handles <- OneHandle
    NoHandle = NoHandle
    kResults = 3
    MaxFrames = 5
    MaxReplugs = 0
SPECIFICATION Spec
INVARIANT TakesItsFrame
CHECK_DEADLOCK FALSE
