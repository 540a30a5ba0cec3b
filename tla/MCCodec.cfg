SPECIFICATION Spec
CONSTANTS
    CHUNK_SIZE = 2
    MOD = 251
    Bodies <- MCBodies
    Dirt <- NoDirt
    Damages = {"missing", "payload", "checksum", "seq"}
    MaxMessages = 2
INVARIANTS
    TypeOK
    DecodesWhatWasSent
    NoPartsOfDelivered
CHECK_DEADLOCK FALSE
