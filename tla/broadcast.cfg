\* Three receivers, one sender that publishes either of two values or is dropped.
SPECIFICATION FairSpec
CONSTANTS
    r1 = r1
    r2 = r2
    r3 = r3
    Receivers <- MCReceivers
    Values = {"v", "w"}
    None = None
    Dropped = Dropped
INVARIANTS
    NoLostWakeup
PROPERTY
    ImplementsOnceCell
    ReceiveReturns
