CONSTANTS
    Threads = {t1, t2}
    Sessions = {s1}
    Handles = {h1, h2, h3}
SPECIFICATION FairSpec
INVARIANTS
    HandlesOwned
    PublishedModelIsLive
    RunningIsOwned
PROPERTIES
    CallsReturn
