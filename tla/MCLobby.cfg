SPECIFICATION Spec
CONSTANTS
    Players = {u1, u2}
    NoPlayer = NoPlayer
    Codes = {c1, c2}
    RoomNames = {utf8, latin1}
    NotUtf8 = {latin1}
    MaxRoomId = 2
    IntMax = 3
    MaxInbox = 1
SYMMETRY Symmetry
INVARIANTS
    TypeOK
    ViewIsMembership
    CurrentRoomBacked
    HeardByMembersOnly
PROPERTIES
    RoomsFollowRoomManager
    ServesRooms
\* The process may end or block for ever.
CHECK_DEADLOCK FALSE
