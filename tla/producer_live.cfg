\* A record that does not fit behind another one; the client fails at any point; any
\* call may be dropped; the clock wraps.
SPECIFICATION FairSpec
CONSTANTS
    c1 = c1
    c2 = c2
    c3 = c3
    big = big
    f1 = f1
    f2 = f2
    Callers = {c1, c3}
    Flushers = {f1}
    RecordSize <- MCSizes
    MaxBatchSize <- MCMaxSize
    ClockMod = 3
    AggregatorErrors = FALSE
    ClientErrors = TRUE
    Cancellable = {c1, c3, f1}
PROPERTIES
    ProduceReturns
    FlushReturns
