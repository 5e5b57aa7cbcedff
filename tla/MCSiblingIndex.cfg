CONSTANTS
    a1 = a1
    a2 = a2
    b1 = b1
    t1 = t1
    t2 = t2
    t3 = t3
    t4 = t4
    A = A
    B = B
    k1 = k1
    k2 = k2
    Threads = {t1, t2, t3, t4}
    Instances = {a1, a2, b1}
    Writers = {A, B}
    Keys = {k1, k2}
    InstanceOf <- MCInstanceOf
    WriterOf <- MCWriterOf
    Rank <- MCRank
    Worlds <- ReaderWorlds
    MaxLog <- NeverFull
    MaxClock = 1
    MaxRecords = 2
    MaxPasses = 0
    MaxClears = 0
    MaxCrashes = 0
    Nobody = Nobody
    NoKey = NoKey
    NoLoc = NoLoc
    Deleted = Deleted
    NoIndex = NoIndex
    Missing = Missing
    Retry = Retry
SPECIFICATION Spec
SYMMETRY KeySwaps
INVARIANTS
    EveryIndexServes
CHECK_DEADLOCK FALSE
