CONSTANTS
    c1 = c1
    c2 = c2
    c3 = c3
    e = e
    i1 = i1
    i2 = i2
    k1 = k1
    k2 = k2
    Calls = {c1, c2, c3}
    Instances = {i1, i2}
    Keys = {k1, k2}
    InstanceOf <- MCInstanceOf
    Does <- MCDoes
    Earlier = {e}
    InitRows <- MCInitRows
    MinFileSize = 3
    SizeLimit = 4
    Policies = {"least-recently-used"}
    MaxClock = 1
    MaxFaults = 1
    NoRow = NoRow
    NoFile = NoFile
    NoRequest = NoRequest
    Nobody = Nobody
    Pending = Pending
SPECIFICATION FairSpec
INVARIANTS
    TypeOK
    WithinLimit
PROPERTIES
    RowsKeepTheirSpills
    NoNewOrphans
    ImplementsCacheProtocol
    EveryCallEnds
CHECK_DEADLOCK FALSE
