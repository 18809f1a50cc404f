\* Two brokers, one of which moves or becomes the controller; either requests to
\* arbitrary and specific brokers, or two administrative calls.
SPECIFICATION ControllerFairSpec
CONSTANTS
    a1 = a1
    a2 = a2
    a3 = a3
    lb = lb
    b1 = b1
    b2 = b2
    c1 = c1
    c2 = c2
    r1 = r1
    s1 = s1
    Brokers = {b1, b2}
    Addrs = {a1, a2, a3, lb}
    InitAddr <- MCInitAddr
    Stable = {lb}
    Bootstrap = {lb, a1}
    Arbitrary = {c1, c2, r1}
    Specific = {s1}
    Admin = {c1, c2}
    Programs <- MCPrograms
    Nobody = Nobody
    NoAddr = NoAddr
    NoBroker = NoBroker
    MaxMoves = 1
    MaxFaults = 1
    MaxElections = 1
INVARIANTS
    SuccessIsApplied
PROPERTIES
    ForgetsOnlyFailedConnection
    ForgetsOnlyFailedController
    EndsIfReachable
    AdminEnds
