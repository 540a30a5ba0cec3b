SPECIFICATION Spec
CONSTANTS
    Players = {p1, p2, p3}
    NoPlayer = NoPlayer
    Codes = {c1, c2}
    RoomNames = {utf8}
    Capacities = {1, 2}
    MaxRoomId = 3
SYMMETRY Symmetry
INVARIANTS
    TypeOK
    LocksReleased
    RoomsSound
    CodeResolves
PROPERTIES
    CodeNeverRebound
    DeadRoomStaysDead
    MembershipFollowsAnswer
\* The process may end or block for ever.
CHECK_DEADLOCK FALSE
