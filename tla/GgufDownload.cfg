SPECIFICATION Spec
CONSTANTS
    Versions = {v1, v2, page}
    Gguf = {v1, v2}
    Hole = hole
    Size = 3
    MaxVms = 2
    MaxFaults = 2
INVARIANTS
    TargetIsWhole
PROPERTIES
    RemovedOnlyForCopy
    DownloadCompletes
CHECK_DEADLOCK FALSE
