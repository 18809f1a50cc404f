\* The control batch fills a fetch.
SPECIFICATION FairSpec
CONSTANTS
    Log <- MCLog
    StartOffsets <- MCEarliest
    MaxBatchSize = 3
    MaxFaults = 0
PROPERTIES
    ReadsOn
