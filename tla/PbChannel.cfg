SPECIFICATION Spec
CONSTANTS
    MaxServers = 2
    MaxConns = 3
    MaxCalls = 2
    MaxResets = 1
INVARIANTS
    PostureHonest
    ChannelHolds
    AnswersMatchRequests
    PortIsLive
PROPERTIES
    CallsReturn
CHECK_DEADLOCK FALSE
