CONSTANTS
    d1 = d1
    d2 = d2
    h1 = h1
    h2 = h2
    Devices <- TwoDevices
    Handles <- TwoHandles
    NoHandle = NoHandle
    kResults = 1
    MaxFrames = 3
    MaxReplugs = 1
SPECIFICATION Spec
SYMMETRY StreamSymmetry
INVARIANTS
    TypeOK
    SinkCalledAlone
    AttachedOnce
    FedAsBegun
    ResultsAgree
PROPERTY TakesNoOther
CHECK_DEADLOCK FALSE
