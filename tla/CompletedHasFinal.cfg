SPECIFICATION Spec
CONSTANTS
    MaxServers = 1
    MaxConns = 1
    MaxCalls = 1
    MaxResets = 0
INVARIANTS
    CompletedHasFinal
CHECK_DEADLOCK FALSE
