CONSTANTS
    Brokers = {b1}
    MaxRequests = 1
    MaxFragments = 1
    DbFails = TRUE
    Buffer = 1
SPECIFICATION FairClientSpec
CHECK_DEADLOCK FALSE
PROPERTIES
    FinishedStreamEnds
