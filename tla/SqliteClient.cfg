CONSTANTS
    Brokers = {b1, b2}
    MaxRequests = 2
    MaxFragments = 1
    DbFails = TRUE
    Buffer = 1
SPECIFICATION FairClientSpec
CHECK_DEADLOCK FALSE
INVARIANTS
    TranscriptMatchesStatus
    ServedInOrder
    ClaimedOnce
    CompletedIsWhole
PROPERTIES
    PendingIsServed
    StopReturns
    NotifiedStreamEnds
