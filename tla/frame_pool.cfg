CONSTANTS
    c1 = c1
    c2 = c2
    b1 = b1
    b2 = b2
    b3 = b3
    g1 = g1
    g2 = g2
    g3 = g3
    g4 = g4
    Cameras <- TwoCameras
    Buffers <- ThreeBuffers
    Slots <- FourSlots
    Images <- Scenes
    Fingerprint <- Samples
    NoSlot = NoSlot
    NoBuffer = NoBuffer
    NoImage = NoImage
    MaxEnds = 1
SPECIFICATION Spec
SYMMETRY PoolSymmetry
INVARIANTS
    TypeOK
    SlotExclusive
    SameSamples
    PoolSuffices
