\* Contexts, surfaces, buffers and images of one display, and retired VP9 sessions.
SPECIFICATION Spec
CONSTANTS
    Profiles <- MCProfiles
    Vp9Profiles <- MCVp9
    Sizes = {1, 2}
    MaxConfigs = 2
    MaxEngines = 2
    MaxSurfaces = 2
    MaxBuffers = 2
    MaxImages = 2
    MaxDerived = 2
    Clients <- MCClients
INVARIANTS
    TypeOK
    HandlesResolve
    MappingsLive
    ContextsPlaced
    PicturesMeetTheirReferences
PROPERTIES
    ReferencesKept
    SweptSessionsHoldReferences
