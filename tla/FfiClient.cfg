CONSTANTS
    Capacity = 1
    MaxFragments = 3
    Buffer = 2
SPECIFICATION FairClientSpec
CHECK_DEADLOCK FALSE
INVARIANTS
    CallbackStateIsLive
    CompletedIsWhole
    EndReleasesSession
PROPERTIES
    EmitsTokenStream
    FlowEnds
