\* Every fault, one leadership change, a concurrent metadata refresh.  The partition
\* is not among the cached metadata at first.
SPECIFICATION FairSpec
CONSTANTS
    new = new
    p1 = p1
    p2 = p2
    f1 = f1
    b1 = b1
    b2 = b2
    Brokers = {b1, b2}
    Callers = {new, p1, p2}
    Creator = new
    Refreshers = {f1}
    Nobody = Nobody
    NoLeader = NoLeader
    InitEntry = "absent"
    InitTopology = {b1}
    Faults = {"metadata", "connect", "break", "lost", "throttle", "retriable", "fatal", "unknown_topic"}
    MaxFaults = 1
    MaxMoves = 1
    RetryUnknown = TRUE
INVARIANTS
    AcknowledgedIsAppended
PROPERTIES
    ForgetsOnlyFailedConnection
    EndsUnlessCacheStale
