CONSTANTS
    a = a
    b = b
    c = c
    z = z
    p = p
    q = q
    new = new
    old = old
    u = u
    drift = drift
    Calls = {a, b, c, z}
    Processes = {p, q}
    Keys = {new, old}
    Preloads = {u, drift}
    Drifted = {drift}
    Missing = Missing
    NoAuthor = NoAuthor
    Scopes = {p, q}
    Loops = {q}
    ScopeOf <- MCScopeOf
    ProcessOf <- MCProcessOf
    KeyOf <- MCKeyOf
    AcceptOf <- MCAcceptOf
    InitStores <- MCInitStores
    Sealed = {c}
    Volatile = {new}
    Mortal = {q}
SPECIFICATION FairSpec
INVARIANTS
    TypeOK
    ComputeOnce
    AnswerStands
    WarmCallsAreServed
    LandedValuesStand
PROPERTIES
    ExactUntilUnsettled
    ImplementsFirstWriteWins
    EveryCallEnds
