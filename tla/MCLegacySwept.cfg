CONSTANTS
    me = me
    gone = gone
    peer = peer
    copy = copy
    k1 = k1
    k2 = k2
    X = X
    Y = Y
    Writers = {me, gone, peer}
    Copies = {copy}
    Janitors = {me}
    Prune = {gone}
    Putters = {me, peer}
    Rank <- MCRank
    Keys = {k1, k2}
    Blobs = {X, Y}
    Worlds <- UndeadWorlds
    Start = 3
    MaxPuts = 1
    MaxPasses = 2
    MaxFaults = 0
    MaxCrashes = 0
    Pool = Pool
    Inline = Inline
    None = None
SPECIFICATION Spec
PROPERTIES
    ReadableStaysReadable
CHECK_DEADLOCK FALSE
