CONSTANTS
    c1 = c1
    c2 = c2
    x = x
    y = y
    i1 = i1
    i0 = i0
    k1 = k1
    Null = Null
    Clients = {c1, c2}
    Texts <- MCTexts
    Intents = {i1}
    Unknown = i0
    Actors = {x, y}
    Keys = {k1}
    BridgeActor = x
    BridgeContract = Null
    ClientContext = FALSE
    AllWritable = FALSE
    ExposedTools = {"write", "append"}
    WritableExact <- MCExact
    WritablePrefixes <- MCPrefixes
    WritableSuffixes <- MCSuffixes
    MaxOps = 2
    MaxChanges = 1
SPECIFICATION Spec
SYMMETRY Symmetry
CHECK_DEADLOCK FALSE
INVARIANT OkIsAccounted
