CONSTANTS
    c1 = c1
    c2 = c2
    t1 = t1
    Null = Null
    Clients = {c1, c2}
    Statuses = {"draft", "active"}
    Texts = {t1}
    MaxIntents = 1
    MaxVersion = 3
SPECIFICATION Spec
SYMMETRY Symmetry
INVARIANTS
    VersionsNameStates
    SnapshotsAreStates
    AcknowledgedIsRecorded
