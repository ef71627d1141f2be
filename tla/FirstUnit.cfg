CONSTANTS
    Streams <- FailingStreams
    MaxSlices = 4
SPECIFICATION Spec
INVARIANTS
    FirstUnitSelfContained
