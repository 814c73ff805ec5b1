CONSTANTS
    Threads = {t1}
    Sessions = {s1}
    Handles = {h1}
SPECIFICATION Spec
INVARIANTS
    NoGenerationOnFreedHandle
