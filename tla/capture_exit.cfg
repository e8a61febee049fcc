CONSTANTS
    v1 = v1
    v2 = v2
    d1 = d1
    VisionThreads <- CameraThreads
    DecodeThreads <- JpegThreads
    MaxDetectors = 2
    Masks = {none}
    NoMask = none
    Calibrations = {unit}
    DefaultCalibration = unit
    NoGpu = NoGpu
    NoThread = NoThread
    Serialised = TRUE
SPECIFICATION Spec
SYMMETRY ThreadSymmetry
INVARIANT NoCudaWhileRecording
