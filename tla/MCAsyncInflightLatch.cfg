CONSTANTS
    c1 = c1
    c2 = c2
    c3 = c3
    c4 = c4
    c5 = c5
    a1 = a1
    a2 = a2
    a3 = a3
    a4 = a4
    outer = outer
    inner = inner
    Calls = {c1, c2, c3, c4, c5}
    Tasks = {a1, a2, a3, a4}
    Keys = {outer, inner}
    Slots = {s1, s2}
    TaskOf <- MCTaskOf
    Nests <- MCNests
    NoSlot = NoSlot
    NoTask = NoTask
    NoCall = NoCall
    NoKey = NoKey
SPECIFICATION FairSpec
INVARIANTS
    TypeOK
    MutualExclusion
    SlotsExact
    NoLostWakeup
PROPERTIES
    EveryWaitEnds
    ImplementsKeyMutex
