CONSTANTS
    Capacity = 3
    Threads = {t1, t2}
    MaxRecorded = 8
SPECIFICATION Spec
SYMMETRY ThreadSymmetry
INVARIANTS
    OverflowIsDisclosed
    EverySpanAccounted
    MetricsAgreeWithRing
