----------------------------- MODULE RoomManager -----------------------------
(***************************************************************************)
(* The singleton RoomManager (RoomManager.hpp, RoomManager.cpp): the table *)
(* of rooms, the table of room codes and the counter of room ids, driven   *)
(* by any sequence of calls of its public methods by any players.          *)
(*                                                                         *)
(* The process has one thread (Server.cpp calls io_context.run() once), so *)
(* a call is one step.  A call whose Room method blocks on its own mutex   *)
(* never returns: the step leaves thread = "blocked", and nothing follows. *)
(***************************************************************************)
EXTENDS Room

CONSTANTS Capacities,   \* the capacities callers ask for
          MaxRoomId     \* bound: ids up to this one are given out

ASSUME RoomManagerAssumption ==
    /\ Capacities \subseteq Int
    /\ MaxRoomId \in Nat

VARIABLES
    rooms_,          \* id -> Room, the rooms that can be found
    code_to_id_,     \* code -> id, never shortened by the code
    next_room_id_,
    ready,           \* Player::RoomData.ready, shared by a player's rooms
    thread,          \* "running", "blocked" for ever, or "exited"
    ret              \* the call just made and what it returned

vars == <<rooms_, code_to_id_, next_room_id_, ready, thread, ret>>

Ops == {"none", "createRoom", "joinRoom", "leaveRoom", "setReady",
        "setCapacity", "startGame", "dissolveRoom"}

TypeOK ==
    /\ rooms_ \in [DOMAIN rooms_ -> RoomObject]
    /\ DOMAIN rooms_ \subseteq 1..(next_room_id_ - 1)
    /\ code_to_id_ \in [DOMAIN code_to_id_ -> 1..(next_room_id_ - 1)]
    /\ DOMAIN code_to_id_ \subseteq Codes
    /\ next_room_id_ \in Nat \ {0}
    /\ ready \in [Players -> BOOLEAN]
    /\ thread \in {"running", "blocked", "exited"}
    /\ ret \in [op : Ops, room : Nat, player : Players \cup {NoPlayer},
                res : RoomResult]

Init ==
    /\ rooms_ = [id \in {} |-> NoPlayer]
    /\ code_to_id_ = [c \in {} |-> 0]
    /\ next_room_id_ = 1
    /\ ready = [p \in Players |-> FALSE]
    /\ thread = "running"
    /\ ret = [op |-> "none", room |-> 0, player |-> NoPlayer, res |-> "OK"]

-----------------------------------------------------------------------------
(* Lookups.  They change nothing.                                          *)

\* 0 is no room.
getRoomId(code) == IF code \in DOMAIN code_to_id_ THEN code_to_id_[code] ELSE 0

\* Whom RoomBroadCast(id, msg) hands msg to, in the order of the calls, given
\* the table it looks id up in.
RoomBroadCast(rooms, id) ==
    IF id \in DOMAIN rooms THEN rooms[id].players ELSE <<>>

-----------------------------------------------------------------------------

\* unordered_map::emplace and operator[] =, and erase by key.
Put(f, k, v) == [x \in DOMAIN f \cup {k} |-> IF x = k THEN v ELSE f[x]]
Erase(f, k) == [x \in DOMAIN f \ {k} |-> f[x]]

\* The call op(id, p) ends with result res, or never ends.
Return(op, id, p, res) ==
    /\ ret' = [op |-> op, room |-> id, player |-> p, res |-> res]
    /\ thread' = IF res = "BLOCKED" THEN "blocked" ELSE thread

\* op looks id up under the manager's mu_, releases it, and calls the method
\* of the Room whose outcome is o.
OnRoom(op, id, p, o) ==
    /\ rooms_' = [rooms_ EXCEPT ![id] = o.room]
    /\ Return(op, id, p, o.res)

\* No such room: every method but createRoom starts with this test.
NotFound(op, id, p) ==
    /\ id \notin DOMAIN rooms_
    /\ Return(op, id, p, "NOT_FOUND")
    /\ UNCHANGED rooms_

CounterStays == next_room_id_' = next_room_id_

\* fetch_add.
CounterGoesOn == next_room_id_' = next_room_id_ + 1

LowestFreeId == CHOOSE id \in 1..next_room_id_ :
                    /\ id \notin DOMAIN rooms_
                    /\ 1..(id - 1) \subseteq DOMAIN rooms_

NewId == next_room_id_

AnyCode == Codes

FreeCodes == Codes \ DOMAIN code_to_id_

createFresh(p, capacity, name) ==
    /\ capacity \in 2..16
    /\ CounterGoesOn
    /\ \E code \in FreeCodes :
           /\ code_to_id_' = Put(code_to_id_, code, NewId)
           /\ rooms_' = Put(rooms_, NewId, newRoom(code, name, capacity, p))
           /\ Return("createRoom", NewId, p, "OK")

\* All five codes drawn were taken: the id is used up, and no room is made.
createWithoutCode(p, capacity) ==
    /\ capacity \in 2..16
    /\ DOMAIN code_to_id_ # {}
    /\ CounterGoesOn
    /\ Return("createRoom", 0, p, "GEN_ROOMCODE_FAILED")
    /\ UNCHANGED <<rooms_, code_to_id_>>

createBadCapacity(p, capacity) ==
    /\ capacity \notin 2..16
    /\ Return("createRoom", 0, p, "INVALID_CAPACITY")
    /\ UNCHANGED <<rooms_, code_to_id_, next_room_id_>>

createRoom(p, capacity, name) ==
    /\ thread = "running"
    /\ next_room_id_ <= MaxRoomId
    /\ \/ createBadCapacity(p, capacity)
       \/ createFresh(p, capacity, name)
       \/ createWithoutCode(p, capacity)
    /\ UNCHANGED ready

joinRoom(id, p) ==
    /\ thread = "running"
    /\ \/ NotFound("joinRoom", id, p)
       \/ /\ id \in DOMAIN rooms_
          /\ OnRoom("joinRoom", id, p, join(rooms_[id], p))
    /\ UNCHANGED <<code_to_id_, next_room_id_, ready>>

leaveRoom(id, p) ==
    /\ thread = "running"
    /\ \/ NotFound("leaveRoom", id, p)
       \/ /\ id \in DOMAIN rooms_
          /\ LET o == leave(rooms_[id], p)
             IN IF o.res # "BLOCKED" /\ o.room.players = <<>>
                THEN /\ rooms_' = Erase(rooms_, id)
                     /\ Return("leaveRoom", id, p, o.res)
                ELSE OnRoom("leaveRoom", id, p, o)
    /\ UNCHANGED <<code_to_id_, next_room_id_, ready>>

setReadyOf(id, p, b) ==
    /\ thread = "running"
    /\ \/ /\ NotFound("setReady", id, p)
          /\ UNCHANGED ready
       \/ /\ id \in DOMAIN rooms_
          /\ LET o == setReady(rooms_[id], p)
             IN /\ OnRoom("setReady", id, p, o)
                /\ ready' = IF o.res = "OK" THEN [ready EXCEPT ![p] = b] ELSE ready
    /\ UNCHANGED <<code_to_id_, next_room_id_>>

setCapacityOf(id, p, newcap) ==
    /\ thread = "running"
    /\ \/ NotFound("setCapacity", id, p)
       \/ /\ id \in DOMAIN rooms_
          /\ OnRoom("setCapacity", id, p, setCapacity(rooms_[id], p, newcap))
    /\ UNCHANGED <<code_to_id_, next_room_id_, ready>>

startGameOf(id, p) ==
    /\ thread = "running"
    /\ \/ NotFound("startGame", id, p)
       \/ /\ id \in DOMAIN rooms_
          /\ OnRoom("startGame", id, p, startGame(rooms_[id], p, ready))
    /\ UNCHANGED <<code_to_id_, next_room_id_, ready>>

\* Both mutexes are taken, the manager's first.  The code of the room stays in
\* code_to_id_.
dissolveRoom(id, p) ==
    /\ thread = "running"
    /\ \/ NotFound("dissolveRoom", id, p)
       \/ /\ id \in DOMAIN rooms_
          /\ LET isOwner == isRoomOwner(rooms_[id], p)
             IN /\ rooms_' = IF isOwner = "YES" THEN Erase(rooms_, id) ELSE rooms_
                /\ Return("dissolveRoom", id, p,
                          CASE isOwner = "YES" -> "OK"
                            [] isOwner = "NO" -> "NOT_OWNER"
                            [] isOwner = "BLOCKED" -> "BLOCKED")
    /\ UNCHANGED <<code_to_id_, next_room_id_, ready>>

\* The process ends: io_context::stop on a signal, or an exception that leaves
\* io_context::run and is caught in main.
exit ==
    /\ thread = "running"
    /\ thread' = "exited"
    /\ UNCHANGED <<rooms_, code_to_id_, next_room_id_, ready, ret>>

Next ==
    \/ \E p \in Players, c \in Capacities, n \in RoomNames : createRoom(p, c, n)
    \/ \E p \in Players, id \in 1..MaxRoomId :
           \/ joinRoom(id, p)
           \/ leaveRoom(id, p)
           \/ \E b \in BOOLEAN : setReadyOf(id, p, b)
           \/ \E c \in Capacities : setCapacityOf(id, p, c)
           \/ startGameOf(id, p)
           \/ dissolveRoom(id, p)
    \/ exit

Spec == Init /\ [][Next]_vars

-----------------------------------------------------------------------------
(* Properties.                                                             *)

Members(id) == IF id \in DOMAIN rooms_ THEN ToSet(rooms_[id].players) ELSE {}

Locked == {id \in DOMAIN rooms_ : rooms_[id].mu}

\* A call that returns has unlocked every mu_ again.  One that does not return
\* waits for the mu_ of its own room, no other being held; and of all methods
\* only these can: the two that ask isRoomOwner under the lock, and leaveRoom
\* when somebody stays behind.
LocksReleased ==
    IF thread # "blocked"
    THEN Locked = {}
    ELSE /\ Locked = {ret.room}
         /\ \/ ret.op \in {"setCapacity", "startGame"}
            \/ ret.op = "leaveRoom" /\ rooms_[ret.room].players # <<>>

\* A room that can be found has between one and capacity players, each of them
\* once: createRoom, joinRoom and leaveRoom together never leave behind an
\* empty, an overfull or a doubly occupied room.
RoomsSound ==
    thread # "blocked" => \A id \in DOMAIN rooms_ : Sound(rooms_[id])

\* The code of a room leads to that room (getRoomId): so no two rooms that can
\* be found share a code, whatever rooms were emptied in between.
CodeResolves ==
    \A id \in DOMAIN rooms_ : getRoomId(rooms_[id].code) = id

CodesKept ==
    \A c \in DOMAIN code_to_id_ :
        c \in DOMAIN code_to_id_' /\ code_to_id_'[c] = code_to_id_[c]

\* A code handed out keeps its meaning for ever: a client that joins with an
\* old code gets that room or NOT_FOUND, and never the room of somebody else.
CodeNeverRebound == [][CodesKept]_vars

NoRoomRevived ==
    \A id \in 1..(next_room_id_ - 1) :
        id \notin DOMAIN rooms_ => id \notin DOMAIN rooms_'

\* An id that was given out and names no room any more never names one again:
\* a CurrentRoomId left over from a removed room cannot come alive.
DeadRoomStaysDead == [][NoRoomRevived]_vars

\* The call just made was one of ops, by p on room id, and was answered OK.
Got(ops, id, p) ==
    ret.op \in ops /\ ret.room = id /\ ret.player = p /\ ret.res = "OK"

MembersMatchAnswer ==
    \A id \in 1..MaxRoomId, p \in Players :
        LET entered == Got({"createRoom", "joinRoom"}, id, p)'
            left == Got({"leaveRoom", "dissolveRoom"}, id, p)'
        IN /\ entered => p \notin Members(id)
           /\ (p \in Members(id))' <=> (entered \/ (p \in Members(id) /\ ~left))

\* Who is in which room follows from the calls and their results alone: a
\* player is in exactly the rooms it got OK for and has not left with OK since.
\* No refused call leaves a trace in players_, no call moves another player, no
\* OK is given in vain or twice.
MembershipFollowsAnswer == [][thread' = "running" => MembersMatchAnswer]_vars

\* Room.cpp:94 "adjust owner if needed", :178 "pick first as new owner": when a
\* player leaves a room and others stay, one of those is its owner afterwards.
LeaveAdjustsOwner ==
    [][\A id \in DOMAIN rooms_ \cap DOMAIN rooms_' :
           Len(rooms_'[id].players) < Len(rooms_[id].players) =>
               rooms_'[id].owner \in ToSet(rooms_'[id].players)]_vars

\* Room.hpp:75 lists what the owner of a room may do, and the constructor takes
\* the owner as a parameter: every room that can be found has an owner.
RoomHasOwner ==
    \A id \in DOMAIN rooms_ : rooms_[id].owner # NoPlayer

=============================================================================
