CONSTANTS
    w1 = w1
    w2 = w2
    any = any
    x = x
    e = e
    b = b
    i1 = i1
    i2 = i2
    k1 = k1
    k2 = k2
    Calls = {w1, w2, any, x}
    Instances = {i1, i2}
    Keys = {k1, k2}
    InstanceOf <- MCInstanceOf
    After <- MCAfter
    Does <- MCDoes
    Earlier = {e, b}
    Bare = {b}
    InitFiles <- MCInitFiles
    SizeLimit = 4
    MaxClock = 1
    MaxFaults = 1
    Clearer = x
    NoFile = NoFile
    NoRequest = NoRequest
    Unknown = Unknown
    Pending = Pending
SPECIFICATION Spec
INVARIANTS
    TypeOK
    SoleWriterStaysBounded
PROPERTIES
    ImplementsCacheProtocol
    TransferLosesNothing
