\* Two calls over two correlation ids.
SPECIFICATION FairSpec
CONSTANTS
    r1 = r1
    r2 = r2
    Requests <- MCRequests
    Nobody = Nobody
    NumIds = 2
    ReplyKinds = {"good", "bad_header", "bad_tags", "bad_body", "extra_data"}
INVARIANTS
    AnswerMatchesRequest
    NoClosedChannel
    PoisonReachesEveryone
    NoStaleEntry
    CancelNeverTears
    WriteErrorPoisons
PROPERTY
    EveryRequestEnds
