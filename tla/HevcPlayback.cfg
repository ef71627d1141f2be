CONSTANTS
    None = None
    Surfaces = {s1, s2}
    Contexts = {c1}
    RingSize = 2
    FifoSize = 2
    OutBuffers = 1
    CapBuffers = 1
    MaxPictures = 4
    HevcFifo = TRUE
    DisplayOrder = FALSE
    Pocs = {0}
    FieldPictures = FALSE
    ConcurrentClient = FALSE
    SharedTargets = FALSE
    Faults = {"timeout"}
SPECIFICATION Spec
SYMMETRY Symmetry
CHECK_DEADLOCK FALSE
INVARIANTS
    DecodedHoldsItsPicture
    QueuedCanComplete
