CONSTANTS
    v1 = v1
    v2 = v2
    d1 = d1
    VisionThreads <- CameraThreads
    DecodeThreads <- JpegThreads
    MaxDetectors = 1
    Masks = {none}
    NoMask = none
    Calibrations = {unit}
    DefaultCalibration = unit
    NoGpu = NoGpu
    NoThread = NoThread
    Serialised = FALSE
SPECIFICATION Spec
SYMMETRY ThreadSymmetry
INVARIANT NeverNullDetector
CHECK_DEADLOCK FALSE
