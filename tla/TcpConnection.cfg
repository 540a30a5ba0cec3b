SPECIFICATION FairSpec
CONSTANTS
    MaxMessages = 3
    MaxParts = 2
    MaxPackets = 3
    Pieces = 2
INVARIANTS
    TypeOK
    OneWrite
    FramesHeld
    ServedInOrder
PROPERTIES
    DeliversInOrder
    FramesArrive
    PacketsServed
\* After the bounds are used up nothing is left to do.
CHECK_DEADLOCK FALSE
