CONSTANTS
    c1 = c1
    c2 = c2
    Cameras <- TwoCameras
    NoCamera = NoCamera
    kMinFailures = 3
    kMaxFailingTime = 3
    MaxCreations = 2
SPECIFICATION FairSpec
INVARIANTS
    ExitsOnlyWhenBlind
    CountsNoHealthyTime
PROPERTY BrokenIsRestarted
