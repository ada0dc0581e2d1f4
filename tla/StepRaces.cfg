CONSTANTS
    s1 = s1
    s2 = s2
    n1 = n1
    n2 = n2
    i1 = i1
    Null = Null
    Steps = {s1}
    Intents = {n1, n2}
    Interpretations = {i1}
    AutoComplete = TRUE
    Faults = {"create", "write", "crash"}
SPECIFICATION Spec
INVARIANTS
    TypeOK
    FoldedOnce
    OutcomeTruthful
    WorkspaceReturned
    GatedByMandate
