SPECIFICATION Spec
CONSTANTS
    CHUNK_SIZE = 2
    MOD = 251
    Bodies <- ShortBodies
    Dirt <- MCDirt
    Damages = {}
    MaxMessages = 1
PROPERTIES
    OnlyDirtCleared
CHECK_DEADLOCK FALSE
