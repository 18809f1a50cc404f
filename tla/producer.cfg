\* Records that share a batch, one that fits none, and flush() calls that overlap;
\* the aggregator fails at any point.  The clock cannot wrap.
SPECIFICATION Spec
CONSTANTS
    c1 = c1
    c2 = c2
    c3 = c3
    big = big
    f1 = f1
    f2 = f2
    Callers = {c1, c2, big}
    Flushers = {f1, f2}
    RecordSize <- MCSizes
    MaxBatchSize <- MCMaxSize
    ClockMod = 16
    AggregatorErrors = TRUE
    ClientErrors = FALSE
    Cancellable = {}
SYMMETRY MCSymmetry
INVARIANTS
    CurrentBatchHasLinger
    OwnOffset
    WrittenAtMostOnce
    FlushWaitsUnlessTaken
PROPERTY
    LingerFlushesOwnBatch
