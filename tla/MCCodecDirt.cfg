SPECIFICATION FairSpec
CONSTANTS
    CHUNK_SIZE = 2
    MOD = 251
    Bodies <- TinyBodies
    Dirt <- MCDirt
    Damages = {}
    MaxMessages = 3
INVARIANTS
    LosesOnlyAtStart
    NoBacklog
PROPERTIES
    DecodeReturns
CHECK_DEADLOCK FALSE
