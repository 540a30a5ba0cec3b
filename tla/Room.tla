-------------------------------- MODULE Room --------------------------------
(***************************************************************************)
(* One Room object (Room.hpp, Room.cpp) as a record, and each method of    *)
(* the class as an operator from the object to an outcome                  *)
(*                                                                         *)
(*     [room |-> the object afterwards, res |-> what the call returned].   *)
(*                                                                         *)
(* Every method takes mu_, a std::mutex, which is not recursive: a method  *)
(* that calls another method of the same object while it holds mu_ waits   *)
(* for itself, and the call never returns.  That outcome is "BLOCKED"; the *)
(* object is then left as it was at the second lock, with mu_ still held.  *)
(***************************************************************************)
EXTENDS Integers, SequencesExt

CONSTANTS Players,     \* the Player objects that may call
          NoPlayer,    \* the null shared_ptr<Player>
          Codes,       \* what RoomUtils::genRoomCode can return
          RoomNames    \* names a client can give a room

ASSUME NoPlayerAssumption == NoPlayer \notin Players

RoomState == {"LOBBY", "RUNNING"}

\* The codes of enum RoomResult some method returns, and "BLOCKED".
RoomResult ==
    {"OK", "FULL", "NOT_FOUND", "ALREADY_IN_ROOM", "NOT_IN_ROOM", "NOT_OWNER",
     "INVALID_CAPACITY", "ALREADY_RUNNING", "NOT_READY", "GEN_ROOMCODE_FAILED",
     "BLOCKED"}

\* The data members of class Room; mu_ is TRUE while the mutex is held.
RoomObject ==
    [code : Codes, name : RoomNames, capacity : 2..16, state : RoomState,
     players : Seq(Players), owner : Players \cup {NoPlayer}, mu : BOOLEAN]

-----------------------------------------------------------------------------

Lock(room) == [room EXCEPT !.mu = TRUE]

\* The lock_guard goes out of scope: the method returns result.
Done(room, result) == [room |-> [room EXCEPT !.mu = FALSE], res |-> result]

\* The method waits for mu_, which its own thread holds.
Blocked(room) == [room |-> room, res |-> "BLOCKED"]

\* What a method that answers a question returns.
Answer(room, truth) ==
    IF room.mu THEN "BLOCKED" ELSE IF truth THEN "YES" ELSE "NO"

containsPlayer(room, p) == Answer(room, Contains(room.players, p))

isRoomOwner(room, p) == Answer(room, room.owner = p)

-----------------------------------------------------------------------------

joinFullCheckOffByOne(room, p) ==
    IF room.mu THEN Blocked(room)
    ELSE IF room.state # "LOBBY" THEN Done(room, "ALREADY_RUNNING")
    ELSE IF Len(room.players) > room.capacity THEN Done(room, "FULL")
    ELSE IF Contains(room.players, p) THEN Done(room, "ALREADY_IN_ROOM")
    ELSE Done([room EXCEPT !.players = Append(@, p)], "OK")

joinPushesBeforeChecks(room, p) ==
    IF room.mu THEN Blocked(room)
    ELSE IF room.state # "LOBBY" THEN Done(room, "ALREADY_RUNNING")
    ELSE IF Contains(room.players, p) THEN Done(room, "ALREADY_IN_ROOM")
    ELSE IF Len(room.players) >= room.capacity
    THEN Done([room EXCEPT !.players = Append(@, p)], "FULL")
    ELSE Done([room EXCEPT !.players = Append(@, p)], "OK")

join(room, p) ==
    IF room.mu THEN Blocked(room)
    ELSE IF room.state # "LOBBY" THEN Done(room, "ALREADY_RUNNING")
    ELSE IF Len(room.players) >= room.capacity THEN Done(room, "FULL")
    ELSE IF Contains(room.players, p) THEN Done(room, "ALREADY_IN_ROOM")
    ELSE Done([room EXCEPT !.players = Append(@, p)], "OK")

\* The constructor.  Its parameter "owner" hides the data member of that name:
\* the creator joins, and the member stays null.
newRoom(code, name, capacity, creator) ==
    join([code |-> code, name |-> name, capacity |-> capacity,
          state |-> "LOBBY", players |-> <<>>, owner |-> NoPlayer,
          mu |-> FALSE], creator).room

\* Called by leave with mu_ held, and calls containsPlayer, which locks it.
ensure_owner_after_leave_locked(room) ==
    IF room.players = <<>> THEN Done([room EXCEPT !.owner = NoPlayer], "OK")
    ELSE LET present == containsPlayer(room, room.owner)
         IN IF present = "BLOCKED" THEN Blocked(room)
            ELSE IF present = "NO"
            THEN Done([room EXCEPT !.owner = Head(room.players)], "OK")
            ELSE Done(room, "OK")

\* sendFunc_ is empty, RoomManager::sendCb_ is never set: nobody is notified.
leave(room, p) ==
    IF room.mu THEN Blocked(room)
    ELSE IF ~Contains(room.players, p) THEN Done(room, "NOT_IN_ROOM")
    ELSE ensure_owner_after_leave_locked(
             [Lock(room) EXCEPT !.players = RemoveFirst(@, p)])

setReadyAsks(room, p) ==
    IF room.mu THEN Blocked(room)
    ELSE LET present == containsPlayer(Lock(room), p)
         IN IF present = "BLOCKED" THEN Blocked(Lock(room))
            ELSE Done(Lock(room), IF present = "YES" THEN "OK" ELSE "NOT_IN_ROOM")

\* The flag itself belongs to the Player, not to the Room: see RoomManager.
setReady(room, p) ==
    IF room.mu THEN Blocked(room)
    ELSE Done(room, IF Contains(room.players, p) THEN "OK" ELSE "NOT_IN_ROOM")

setCapacity(room, p, newcap) ==
    IF room.mu THEN Blocked(room)
    ELSE LET r == Lock(room)
             isOwner == isRoomOwner(r, p)
         IN IF isOwner = "BLOCKED" THEN Blocked(r)
            ELSE IF isOwner = "NO" THEN Done(r, "NOT_OWNER")
            ELSE IF newcap \notin 2..16 \/ newcap < Len(r.players)
            THEN Done(r, "INVALID_CAPACITY")
            ELSE Done([r EXCEPT !.capacity = newcap], "OK")

\* isReady[p] is p->RoomData.ready.  The last call is broadcast, under mu_.
startGame(room, p, isReady) ==
    IF room.mu THEN Blocked(room)
    ELSE LET r == Lock(room)
             isOwner == isRoomOwner(r, p)
         IN IF isOwner = "BLOCKED" THEN Blocked(r)
            ELSE IF isOwner = "NO" THEN Done(r, "NOT_OWNER")
            ELSE IF r.state = "RUNNING" THEN Done(r, "ALREADY_RUNNING")
            ELSE IF \E q \in ToSet(r.players) : ~isReady[q]
            THEN Done(r, "NOT_READY")
            ELSE Blocked([r EXCEPT !.state = "RUNNING"])

-----------------------------------------------------------------------------
(* What a room must be like between two calls.                             *)

NoRepeats(s) == \A i, j \in 1..Len(s) : s[i] = s[j] => i = j

Sound(room) ==
    /\ room.players # <<>>
    /\ Len(room.players) <= room.capacity
    /\ NoRepeats(room.players)

=============================================================================
