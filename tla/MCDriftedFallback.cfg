CONSTANTS
    a = a
    b = b
    c = c
    z = z
    p = p
    q = q
    new = new
    old = old
    u = u
    drift = drift
    Calls = {a, b}
    Processes = {p, q}
    Keys = {new, old}
    Preloads = {u, drift}
    Drifted = {drift}
    Missing = Missing
    NoAuthor = NoAuthor
    Scopes = {p, q}
    Loops = {}
    ScopeOf <- MCScopeOf
    ProcessOf <- MCProcessOf
    KeyOf <- MCKeyOf
    AcceptOf <- MCAcceptOf
    InitStores <- DriftedInitStores
    Sealed = {}
    Volatile = {}
    Mortal = {}
SPECIFICATION FairSpec
PROPERTIES
    ExactWithinProcess
