CONSTANTS
    c1 = c1
    c2 = c2
    k1 = k1
    k2 = k2
    a1 = a1
    Null = Null
    Clients = {c1, c2}
    Keys = {k1, k2}
    Actors = {a1}
    Governing = {Null}
    MaxRows = 3
SPECIFICATION Spec
SYMMETRY Symmetry
INVARIANTS
    TypeOK
    ExactlyOneOpenRevision
    RevisionChain
    ValidationHolds
    TrailTruthful
    AcknowledgedIsRecorded
PROPERTIES
    RevisionsImmutable
