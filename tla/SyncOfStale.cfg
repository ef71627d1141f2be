CONSTANTS
    None = None
    Surfaces = {s1, s2}
    Contexts = {c1}
    RingSize = 3
    FifoSize = 3
    OutBuffers = 2
    CapBuffers = 1
    MaxPictures = 3
    HevcFifo = FALSE
    DisplayOrder = FALSE
    Pocs = {0}
    FieldPictures = FALSE
    ConcurrentClient = FALSE
    SharedTargets = FALSE
    Faults = {}
SPECIFICATION Spec
SYMMETRY Symmetry
CHECK_DEADLOCK FALSE
PROPERTIES
    SyncWaitsForThePicture
