CONSTANTS
    OutCount = 2
    CapCount = 2
    Layouts = {hd, uhd}
    NoLayout = NoLayout
    MaxUnits = 4
    MaxSessions = 2
    CloseSpins = 2
    SessionFaults = {"setup", "submit", "stop", "timeout"}
SPECIFICATION LiveSpec
CHECK_DEADLOCK FALSE
INVARIANTS
    TypeOK
    BuffersAccounted
    EosIsLast
    FrameHasItsLayout
PROPERTIES
    FlushEnds
