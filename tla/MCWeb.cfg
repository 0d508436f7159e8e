SPECIFICATION WebSpec
CONSTANTS
    Counted = {j1, j2}
    Uncounted = {j3}
    Requests = {q1}
    Streams = {s1, s2, s3}
    MaxClients = 2
    Buffer = 1
    MaxEvents = 2
    Leases = {lease1, lease2}
    NoLease = NoLease
    MaxLeaseWrites = 3
    MaxReadFaults = 1
    LogBufSize = 2
    LogLimit = 3
    BlockedLines = {2, 3}
    MaxLines = 3
    MaxLogUpsets = 2
    MaxReadErrors = 1
INVARIANTS
    WebTypesOK
    ServerSound
    FeedsSound
PROPERTIES
    SignalEnds
    VanishedLeaves
    FeedsDeliver
CHECK_DEADLOCK FALSE
