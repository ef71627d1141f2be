CONSTANTS
    None = None
    Surfaces = {s1, s2}
    Contexts = {c1, c2}
    RingSize = 2
    FifoSize = 2
    OutBuffers = 1
    CapBuffers = 1
    MaxPictures = 2
    HevcFifo = FALSE
    DisplayOrder = FALSE
    Pocs = {0}
    FieldPictures = FALSE
    ConcurrentClient = TRUE
    SharedTargets = FALSE
    Faults = {}
SPECIFICATION Spec
SYMMETRY Symmetry
CHECK_DEADLOCK FALSE
INVARIANTS
    NoAbandonedPixels
