\* Every kind of start offset, with deletions and one fatal error; the control batch
\* and its successor fit in one fetch.
SPECIFICATION FairSpec
CONSTANTS
    Log <- MCLog
    StartOffsets <- MCStartAll
    MaxBatchSize = 4
    MaxFaults = 1
INVARIANTS
    DeliversInOrder
    NoGap
PROPERTY
    ReadsOn
