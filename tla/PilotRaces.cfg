CONSTANTS
    p1 = p1
    p2 = p2
    a = a
    b = b
    u1 = u1
    u2 = u2
    v1 = v1
    v2 = v2
    s1 = s1
    s2 = s2
    Processes = {p1, p2}
    Clients = {a, b}
    Public = {a}
    Uris = {u1, u2}
    AllowedUris = {u1}
    Verifiers = {v1, v2}
    Scopes = {s1, s2}
    OwnScopes = {s1}
    CodeTtl = 1
    RefreshTtl = 1
    MaxTime = 1
    MaxCodes = 2
    MaxTokens = 2
SPECIFICATION Spec
SYMMETRY Symmetry
INVARIANTS
    CodeBuysOnce
    PairKeepsItsGrant
    OneTokenPerAuthorization
    AnsweredIsStored
