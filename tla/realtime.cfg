SPECIFICATION RealtimeSpec
CONSTANTS
    Pages = {p1, p2}
    Sockets = {s1, s2}
    Instances = {i1, i2}
    Tasks = {k1, k2}
    NoPage = NoPage
    NoSocket = NoSocket
    NoTask = NoTask
    NoInstance = NoInstance
    MaxPublished = 2
    MaxFaults = 1
SYMMETRY Symmetry
INVARIANTS RealtimeTypeOK RegistryMatches InOrderAndOnce OneAttemptPerPage
PROPERTIES SilencedByRedisOnly
CHECK_DEADLOCK FALSE
