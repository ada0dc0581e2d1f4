CONSTANTS
    c1 = c1
    k1 = k1
    k2 = k2
    a1 = a1
    Null = Null
    Clients = {c1}
    Keys = {k1, k2}
    Actors = {a1}
    Governing = {Null, k1, k2}
    MaxRows = 3
SPECIFICATION Spec
SYMMETRY Symmetry
INVARIANTS
    HierarchyWellFounded
PROPERTIES
    ImplementsKeyedRevisions
