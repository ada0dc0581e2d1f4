SPECIFICATION PagesSpec

CONSTANTS
    ListLimit   = 1
    Picks       = {"superseded"}
    MaxIntents  = 2
    MaxClaims   = 2
    MaxEdits    = 1
    MaxGestures = 3
    MaxChains   = 2
    MaxStrokes  = 3

INVARIANTS
    ReleaseConfirmed
    GesturesActOnce
    OwnWritesVisible
    DraftsExact

\* The operator may stop.
CHECK_DEADLOCK FALSE
