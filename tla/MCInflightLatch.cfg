CONSTANTS
    c1 = c1
    c2 = c2
    c3 = c3
    c4 = c4
    c5 = c5
    t1 = t1
    t2 = t2
    t3 = t3
    outer = outer
    inner = inner
    Calls = {c1, c2, c3, c4, c5}
    Threads = {t1, t2, t3}
    Keys = {outer, inner}
    Locks = {l1, l2}
    ThreadOf <- MCThreadOf
    MainThread = t1
    Nests <- MCNests
    NoLock = NoLock
    NoThread = NoThread
    NoCall = NoCall
    NoKey = NoKey
SPECIFICATION FairSpec
INVARIANTS
    TypeOK
    MutualExclusion
    TableExact
    ReentryNeverWaits
PROPERTIES
    EveryWaitEnds
    ImplementsKeyMutex
