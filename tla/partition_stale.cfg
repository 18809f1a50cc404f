\* The leader moved since the metadata was cached.
SPECIFICATION Spec
CONSTANTS
    new = new
    p1 = p1
    p2 = p2
    f1 = f1
    b1 = b1
    b2 = b2
    Brokers = {b1, b2}
    Callers = {new}
    Creator = new
    Refreshers = {}
    Nobody = Nobody
    NoLeader = NoLeader
    InitEntry = b1
    InitTopology = {b1, b2}
    Faults = {}
    MaxFaults = 0
    MaxMoves = 1
    RetryUnknown = TRUE
PROPERTIES
    StaleEntryDiscarded
