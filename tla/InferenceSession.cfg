CONSTANTS
    Capacity = 2
    MaxFragments = 4
SPECIFICATION FairSpec
INVARIANTS
    NothingDropped
    EndsHonestly
PROPERTIES
    ImplementsTokenStream
    FreeReturns
