SPECIFICATION Spec

CONSTANTS
    Processes = {p1, p2}
    Entities  = {x, y}
    MaxCalls  = 3
    MaxRows   = 3

SYMMETRY Symmetry

INVARIANTS
    ProgramsComplete
    ReleasesRecorded
    SessionEndsWhenClosed

PROPERTY
    ReactivatedKnowingly

\* The processes may stop calling.
CHECK_DEADLOCK FALSE
