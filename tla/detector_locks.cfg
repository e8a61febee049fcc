CONSTANTS
    v1 = v1
    v2 = v2
    d1 = d1
    VisionThreads <- CameraThreads
    DecodeThreads <- JpegThreads
    MaxDetectors = 2
    Masks = {none, boxes}
    NoMask = none
    Calibrations = {unit, measured}
    DefaultCalibration = unit
    NoGpu = NoGpu
    NoThread = NoThread
    Serialised = FALSE
SPECIFICATION Spec
SYMMETRY ThreadSymmetry
INVARIANTS
    TypeOK
    CaptureExclusive
    NoCircularWait
    ChangesRemembered
    DetectIsCurrent
PROPERTY OnlyHolderWrites
CHECK_DEADLOCK FALSE
