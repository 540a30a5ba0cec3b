SPECIFICATION Spec
CONSTANTS
    Players = {p1, p2, p3}
    NoPlayer = NoPlayer
    Codes = {c1, c2}
    RoomNames = {utf8}
    Capacities = {1, 2}
    MaxRoomId = 3
SYMMETRY Symmetry
INVARIANT RoomHasOwner
CHECK_DEADLOCK FALSE
