SPECIFICATION Spec
CONSTANTS
    MaxAsks = 2
    MaxToolSteps = 1
    MaxTurns = 1
    MaxText = 1
    MaxResets = 1
    Platforms = {"android", "ios"}
INVARIANTS
    ConversationMirrorsTurns
    ShowsOwnTurn
    OutcomeMatchesWire
PROPERTIES
    TurnsResolve
CHECK_DEADLOCK FALSE
