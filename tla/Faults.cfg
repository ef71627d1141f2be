CONSTANTS
    None = None
    Surfaces = {s1, s2}
    Contexts = {c1}
    RingSize = 3
    FifoSize = 3
    OutBuffers = 2
    CapBuffers = 1
    MaxPictures = 3
    HevcFifo = FALSE
    DisplayOrder = TRUE
    Pocs = {0, 1}
    FieldPictures = FALSE
    ConcurrentClient = FALSE
    SharedTargets = FALSE
    Faults = {"drop", "build", "stop", "open", "submit", "device", "copy", "timeout", "drain"}
SPECIFICATION Spec
SYMMETRY Symmetry
CHECK_DEADLOCK FALSE
INVARIANTS
    NoAbandonedPixels
    TimestampsUnique
    StreamsDoNotMix
PROPERTIES
    KeepsThePromise
    SyncShowsCurrentStream
