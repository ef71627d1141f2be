CONSTANTS
    OutCount = 1
    CapCount = 3
    Layouts = {hd}
    NoLayout = NoLayout
    Surfaces = {s1, s2}
    NoSurface = NoSurface
    MaxPending = 1
    MaxJobs = 2
    MaxImports = 4
    MaxPictures = 3
    MaxSessions = 2
    CopyFaults = {"submit", "timeout"}
    EarlyExport = FALSE
SPECIFICATION Spec
SYMMETRY Symmetry
CHECK_DEADLOCK FALSE
INVARIANTS
    TypeOK
    DecodedHoldsTheCopy
    ImportsOutliveJobs
    FenceCoversTheCopy
    CaptureConserved
    CaptureImportsCurrent
    FenceWillSignal
