\* Two overlapping flush() calls, one of which may be dropped.
SPECIFICATION Spec
CONSTANTS
    c1 = c1
    c2 = c2
    c3 = c3
    big = big
    f1 = f1
    f2 = f2
    Callers = {c1}
    Flushers = {f1, f2}
    RecordSize <- MCSizes
    MaxBatchSize <- MCMaxSize
    ClockMod = 16
    AggregatorErrors = FALSE
    ClientErrors = FALSE
    Cancellable = {f1}
INVARIANT
    FlushWaitsForWrites
