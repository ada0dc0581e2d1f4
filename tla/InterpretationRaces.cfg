CONSTANTS
    c1 = c1
    c2 = c2
    n1 = n1
    n2 = n2
    a1 = a1
    Null = Null
    Clients = {c1, c2}
    Intents = {n1, n2}
    Actors = {a1}
    Statuses = {"proposed"}
    MaxRows = 3
SPECIFICATION Spec
SYMMETRY Symmetry
INVARIANTS
    LineageWellFounded
    TrailTruthful
    AcknowledgedIsRecorded
PROPERTIES
    UndoneOnlyByStaleUpdate
