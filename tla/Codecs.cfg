CONSTANTS
    Streams <- MCStreams
    MaxSlices = 4
SPECIFICATION Spec
INVARIANTS
    TypeOK
    UnitsDecodable
    OneSequencePerSession
    RestartsAtKeyPictures
