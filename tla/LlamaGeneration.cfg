SPECIFICATION Spec
CONSTANTS
    Gens = {g1, g2}
    MaxTokens = 3
    Blank = {2}
    Prompt = 1
    Context = 3
    Capacity = 1
INVARIANTS
    PiecesAccounted
    CompletedIsDrained
    GenerationIsolated
PROPERTIES
    GenerationEnds
CHECK_DEADLOCK FALSE
