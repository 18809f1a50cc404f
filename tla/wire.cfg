\* Bytes of 8 bits and varints of 7 bit groups, as in the code; an Int64 has 3 bytes and
\* a varint is decoded to 27 bits, so that as in the code the groups of the widest
\* integer hold more bits than it has.
CONSTANTS
    Null = Null
    Absent = Absent
    Group = 7
    LongBytes = 3
    Width = 27
    IntWidth = 26
    StartBlock = 2
    JavaChunk = 5
    Topic <- MCTopic
    OtherTopic <- MCOtherTopic
    Entries <- MCEntries
    MaxBatches = 2
    DamageValues = {30}
    Profiles <- MCProfiles
    MaxThrottles = 1
    Mechanism <- MCMechanism
    ClientId <- MCTopic
    ClientName <- MCOtherTopic
    MaxMessageSize = 130
SPECIFICATION FairSpec
INVARIANT NeverPanics
INVARIANT WholeBatchesAreRead
INVARIANT DamageForgesNothing
INVARIANT StaysInSync
INVARIANT RangesAreBrokers
INVARIANT BrokerReadsRequest
INVARIANT OutcomeIsBrokers
PROPERTY SessionEnds
\* A session whose call has ended does nothing more; SessionEnds excludes any other stop.
CHECK_DEADLOCK FALSE
