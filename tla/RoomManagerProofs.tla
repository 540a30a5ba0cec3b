-------------------------- MODULE RoomManagerProofs --------------------------
(***************************************************************************)
(* Theorems about RoomManager, for any number of players, codes and ids.   *)
(*                                                                         *)
(* RoomsSound alone is not inductive: leave gives its room back only       *)
(* because a room with somebody left blocks, setCapacity and startGame     *)
(* change nothing only because isRoomOwner blocks, and dissolveRoom erases *)
(* nothing because nobody owns a room.  IInv adds that: between calls no   *)
(* mutex is held and no room has an owner.                                 *)
(***************************************************************************)
EXTENDS RoomManager, SequenceTheorems, TLAPS

-----------------------------------------------------------------------------
(* What each method of Room does to a room that is at rest: as it is       *)
(* between two calls while the process runs.                               *)

\* No method is inside, the room is sound, and (as the constructor leaves the
\* member null and every path that would assign a player to it blocks first)
\* nobody owns it.
AtRest(room) == ~room.mu /\ room.owner = NoPlayer /\ Sound(room)

\* o is what a method may make of room: it is a room with the same code, and
\* at rest again unless the call never returned.
Keeps(room, o) ==
    /\ o.room \in RoomObject
    /\ o.res \in RoomResult
    /\ o.room.code = room.code
    /\ o.res # "BLOCKED" => AtRest(o.room)

\* RemoveFirst takes the only occurrence of an element out of a sequence.
LEMMA RemoveOnly ==
    ASSUME NEW S, NEW s \in Seq(S), NoRepeats(s), NEW k \in 1..Len(s)
    PROVE  /\ RemoveFirst(s, s[k]) \in Seq(S)
           /\ Len(RemoveFirst(s, s[k])) = Len(s) - 1
           /\ ToSet(RemoveFirst(s, s[k])) = ToSet(s) \ {s[k]}
<1> DEFINE I == {i \in 1..Len(s) : s[i] = s[k]}
<1>1. I = {k}
    BY DEF NoRepeats
<1>2. Min(I) = k
    BY <1>1 DEF Min
<1>3. SelectInSeq(s, LAMBDA v : v = s[k]) = Min(I)
    BY <1>1 DEF SelectInSeq
<1> DEFINE front == SubSeq(s, 1, k - 1)
           back == SubSeq(s, k + 1, Len(s))
<1>4. RemoveFirst(s, s[k]) = front \o back
    BY <1>2, <1>3 DEF RemoveFirst, RemoveAt
<1>5. front \in Seq(S) /\ Len(front) = k - 1 /\ \A i \in 1..(k - 1) : front[i] = s[i]
    BY SubSeqProperties, k - 1 \in Int, 1 \in Int, \A i \in 1..(k - 1) : s[i] \in S
<1>6. /\ back \in Seq(S) /\ Len(back) = Len(s) - k
      /\ \A i \in 1..(Len(s) - k) : back[i] = s[k + i]
    BY SubSeqProperties, k + 1 \in Int, Len(s) \in Int,
       \A i \in (k + 1)..Len(s) : s[i] \in S
<1> HIDE DEF front, back
<1> DEFINE rest == front \o back
<1>7. /\ rest \in Seq(S) /\ Len(rest) = Len(front) + Len(back)
      /\ \A i \in 1..(Len(front) + Len(back)) :
             rest[i] = IF i <= Len(front) THEN front[i] ELSE back[i - Len(front)]
    BY <1>5, <1>6, ConcatProperties, Zenon
<1> HIDE DEF I, rest
<1>8. Len(s) \in Nat
    OBVIOUS
<1>9. Len(rest) = Len(s) - 1
    BY <1>5, <1>6, <1>7, <1>8
<1>10. ASSUME NEW i \in 1..Len(rest)
      PROVE  rest[i] = IF i < k THEN s[i] ELSE s[i + 1]
    <2>1. CASE i < k
        BY <1>5, <1>6, <1>7, <1>8, <1>9, <2>1
    <2>2. CASE ~(i < k)
        <3>1. i - (k - 1) \in 1..(Len(s) - k) /\ k + (i - (k - 1)) = i + 1
            BY <1>8, <1>9, <2>2
        <3> QED
            BY <1>5, <1>6, <1>7, <1>8, <1>9, <2>2, <3>1
    <2> QED
        BY <2>1, <2>2
<1>11. ASSUME NEW i \in 1..Len(s), i # k
       PROVE  s[i] \in ToSet(rest)
    <2>1. \E j \in 1..Len(rest) : rest[j] = s[i]
        <3>1. CASE i < k
            BY <1>8, <1>9, <1>10, <3>1
        <3>2. CASE i > k
            <4>1. i - 1 \in 1..Len(rest) /\ ~(i - 1 < k) /\ (i - 1) + 1 = i
                BY <1>8, <1>9, <3>2
            <4> QED
                BY <1>10, <4>1
        <3> QED
            BY <1>11, <3>1, <3>2
    <2> QED
        BY <2>1 DEF ToSet
<1>12. ToSet(rest) = ToSet(s) \ {s[k]}
    <2>1. ASSUME NEW i \in 1..Len(rest)
          PROVE  rest[i] \in ToSet(s) \ {s[k]}
        <3>1. PICK j \in 1..Len(s) : j # k /\ rest[i] = s[j]
            BY <1>8, <1>9, <1>10
        <3> QED
            BY <3>1 DEF ToSet, NoRepeats
    <2> QED
        BY <1>11, <2>1 DEF ToSet
<1> QED
    BY <1>4, <1>7, <1>9, <1>12 DEF rest

LEMMA AppendKeepsNoRepeats ==
    ASSUME NEW S, NEW s \in Seq(S), NoRepeats(s), NEW e \in S, ~Contains(s, e)
    PROVE  NoRepeats(Append(s, e))
BY AppendProperties DEF NoRepeats, Contains

-----------------------------------------------------------------------------
(* One lemma per method.                                                   *)

LEMMA NewRoomAtRest ==
    ASSUME NEW code \in Codes, NEW name \in RoomNames, NEW capacity \in 2..16,
           NEW p \in Players
    PROVE  LET room == newRoom(code, name, capacity, p)
           IN /\ room \in RoomObject
              /\ room.code = code
              /\ room.capacity = capacity
              /\ room.players = <<p>>
              /\ AtRest(room)
<1> DEFINE empty == [code |-> code, name |-> name, capacity |-> capacity,
                     state |-> "LOBBY", players |-> <<>>, owner |-> NoPlayer,
                     mu |-> FALSE]
           room == [[empty EXCEPT !.players = Append(@, p)] EXCEPT !.mu = FALSE]
<1>1. newRoom(code, name, capacity, p) = room
    BY DEF newRoom, join, Contains, Done
<1>2. /\ empty \in RoomObject
      /\ empty.code = code
      /\ empty.capacity = capacity
      /\ empty.players = <<>>
      /\ empty.owner = NoPlayer
    <2>1. <<>> \in Seq(Players)
        OBVIOUS
    <2> QED
        BY <2>1 DEF RoomObject, RoomState
<1>3. Append(empty.players, p) = <<p>> /\ <<p>> \in Seq(Players)
    BY <1>2
<1> HIDE DEF empty
<1>4. /\ room \in RoomObject
      /\ room.code = code
      /\ room.players = <<p>>
      /\ room.owner = NoPlayer
      /\ ~room.mu
      /\ room.capacity = capacity
    BY <1>2, <1>3 DEF RoomObject
<1> HIDE DEF room
<1>5. AtRest(room)
    BY <1>4 DEF AtRest, Sound, NoRepeats
<1> QED
    BY <1>1, <1>4, <1>5

LEMMA JoinKeeps ==
    ASSUME NEW room \in RoomObject, AtRest(room), NEW p \in Players
    PROVE  Keeps(room, join(room, p))
<1>1. CASE join(room, p).room = room
    BY <1>1 DEF join, Done, Blocked, Keeps, AtRest, RoomResult, RoomObject
<1>2. CASE /\ join(room, p) = Done([room EXCEPT !.players = Append(@, p)], "OK")
           /\ Len(room.players) < room.capacity
           /\ ~Contains(room.players, p)
    <2>1. /\ Append(room.players, p) \in Seq(Players)
          /\ Append(room.players, p) # <<>>
          /\ Len(Append(room.players, p)) = Len(room.players) + 1
        BY AppendProperties DEF RoomObject
    <2>2. NoRepeats(Append(room.players, p))
        BY <1>2, AppendKeepsNoRepeats DEF AtRest, Sound, RoomObject
    <2> DEFINE fuller == [room EXCEPT !.players = Append(@, p)]
    <2>3. /\ fuller \in RoomObject
          /\ fuller.players = Append(room.players, p)
          /\ fuller.capacity = room.capacity
          /\ fuller.code = room.code
          /\ ~fuller.mu
          /\ fuller.owner = NoPlayer
        BY <2>1 DEF RoomObject, AtRest
    <2>4. [fuller EXCEPT !.mu = FALSE] = fuller
        BY <2>3 DEF RoomObject
    <2>5. Sound(fuller)
        BY <1>2, <2>1, <2>2, <2>3 DEF Sound, RoomObject
    <2> HIDE DEF fuller
    <2>6. join(room, p) = [room |-> fuller, res |-> "OK"]
        BY <1>2, <2>4 DEF Done, fuller
    <2> QED
        BY <2>3, <2>5, <2>6 DEF Keeps, AtRest, RoomResult
<1> QED
    BY <1>1, <1>2 DEF join, Done, Blocked, AtRest, RoomObject

\* An OK is given to a player that was not in the room and is appended; any
\* other result leaves the room as it was.
LEMMA JoinOutcome ==
    ASSUME NEW room \in RoomObject, AtRest(room), NEW p \in Players
    PROVE  LET o == join(room, p)
           IN \/ o.res \in RoomResult \ {"OK"} /\ o.room = room
              \/ /\ o.res = "OK"
                 /\ Len(room.players) < room.capacity
                 /\ o.room.capacity = room.capacity
                 /\ ~Contains(room.players, p)
                 /\ o.room.players = Append(room.players, p)
<1>1. Done(room, "x").room = room
    BY DEF Done, AtRest, RoomObject
<1> DEFINE fuller == [room EXCEPT !.players = Append(@, p)]
<1>2. /\ Done(fuller, "OK").room.players = Append(room.players, p)
      /\ Done(fuller, "OK").room.capacity = room.capacity
    BY DEF Done, RoomObject
<1>3. Len(room.players) \in Nat /\ room.capacity \in Nat
    BY DEF RoomObject
<1>4. CASE join(room, p) = Done(fuller, "OK")
    BY <1>1, <1>2, <1>3, <1>4 DEF join, Done, AtRest
<1>5. CASE join(room, p) # Done(fuller, "OK")
    BY <1>1, <1>5 DEF join, Done, AtRest, RoomResult, fuller
<1> QED
    BY <1>4, <1>5

\* A player that is in the room either leaves it empty or never returns from
\* leave.
LEMMA LeaveOutcome ==
    ASSUME NEW room \in RoomObject, AtRest(room), NEW p \in Players
    PROVE  LET o == leave(room, p)
           IN /\ o.room \in RoomObject
              /\ o.room.code = room.code
              /\ o.room.capacity = room.capacity
              /\ o.res # "NOT_IN_ROOM" => ToSet(o.room.players) = ToSet(room.players) \ {p}
              /\ o.res = "BLOCKED" => Contains(room.players, p)
              /\ \/ ~Contains(room.players, p) /\ o = [room |-> room, res |-> "NOT_IN_ROOM"]
                 \/ o.res = "BLOCKED"
                 \/ /\ o.res = "OK"
                    /\ room.players = <<p>>
                    /\ o.room.players = <<>>
<1>1. CASE ~Contains(room.players, p)
    BY <1>1 DEF leave, Done, AtRest, RoomObject
<1>2. CASE Contains(room.players, p)
    <2>1. PICK k \in 1..Len(room.players) : room.players[k] = p
        BY <1>2 DEF Contains
    <2> DEFINE rest == RemoveFirst(room.players, p)
               held == [Lock(room) EXCEPT !.players = rest]
    <2>2. /\ rest \in Seq(Players)
          /\ Len(rest) = Len(room.players) - 1
          /\ ToSet(rest) = ToSet(room.players) \ {p}
        BY <2>1, RemoveOnly DEF AtRest, Sound, RoomObject
    <2>3. /\ held \in RoomObject
          /\ held.mu
          /\ held.players = rest
          /\ held.code = room.code
          /\ held.capacity = room.capacity
        BY <2>2 DEF Lock, RoomObject
    <2>4. leave(room, p) = ensure_owner_after_leave_locked(held)
        BY <1>2 DEF leave, AtRest, Lock
    <2>5. CASE rest = <<>>
        <3>1. room.players = <<p>>
            BY <2>1, <2>2, <2>5 DEF RoomObject
        <3> DEFINE emptied == [[held EXCEPT !.owner = NoPlayer] EXCEPT !.mu = FALSE]
        <3> HIDE DEF held
        <3>2. leave(room, p) = [room |-> emptied, res |-> "OK"]
            BY <2>3, <2>4, <2>5 DEF ensure_owner_after_leave_locked, Done
        <3>3. /\ emptied \in RoomObject
              /\ emptied.code = room.code
              /\ emptied.capacity = room.capacity
              /\ emptied.players = <<>>
            BY <2>3, <2>5 DEF RoomObject
        <3> HIDE DEF emptied
        <3> QED
            BY <2>2, <2>5, <3>1, <3>2, <3>3
    <2>6. CASE rest # <<>>
        BY <1>2, <2>2, <2>3, <2>4, <2>6
        DEF ensure_owner_after_leave_locked, Blocked, containsPlayer, Answer, RoomObject
    <2> QED
        BY <2>5, <2>6
<1> QED
    BY <1>1, <1>2

\* It never returns because somebody stays behind, and mu_ is held.
LEMMA LeaveBlocks ==
    ASSUME NEW room \in RoomObject, AtRest(room), NEW p \in Players,
           leave(room, p).res = "BLOCKED"
    PROVE  leave(room, p).room.mu /\ leave(room, p).room.players # <<>>
<1> DEFINE rest == RemoveFirst(room.players, p)
           held == [Lock(room) EXCEPT !.players = rest]
<1>1. leave(room, p) = ensure_owner_after_leave_locked(held)
    BY DEF leave, Done, AtRest, Lock
<1>2. held.mu /\ held.players = rest
    BY DEF Lock, RoomObject
<1> HIDE DEF held, rest
<1>3. ensure_owner_after_leave_locked(held).res = "BLOCKED"
    BY <1>1
<1>4. rest # <<>>
    BY <1>2, <1>3 DEF ensure_owner_after_leave_locked, Done
<1> QED
    BY <1>1, <1>2, <1>4
    DEF ensure_owner_after_leave_locked, Blocked, containsPlayer, Answer

LEMMA SetReadyKeeps ==
    ASSUME NEW room \in RoomObject, AtRest(room), NEW p \in Players
    PROVE  /\ setReady(room, p).room = room
           /\ Keeps(room, setReady(room, p))
BY DEF setReady, Done, Keeps, AtRest, RoomResult, RoomObject

LEMMA SetCapacityKeeps ==
    ASSUME NEW room \in RoomObject, AtRest(room), NEW p \in Players, NEW c
    PROVE  /\ setCapacity(room, p, c).room = Lock(room)
           /\ Keeps(room, setCapacity(room, p, c))
BY DEF setCapacity, isRoomOwner, Answer, Lock, Blocked, Keeps, AtRest, RoomResult, RoomObject

LEMMA StartGameKeeps ==
    ASSUME NEW room \in RoomObject, AtRest(room), NEW p \in Players, NEW isReady
    PROVE  /\ startGame(room, p, isReady).room = Lock(room)
           /\ Keeps(room, startGame(room, p, isReady))
BY DEF startGame, isRoomOwner, Answer, Lock, Blocked, Keeps, AtRest, RoomResult, RoomObject

-----------------------------------------------------------------------------
(* The table of rooms.                                                     *)

RoomsAtRest == thread # "blocked" => \A id \in DOMAIN rooms_ : AtRest(rooms_[id])

IInv == TypeOK /\ CodeResolves /\ RoomsAtRest

\* 0 is no room id, so a code that resolves to a room is in the table.
LEMMA CodeInTable ==
    ASSUME TypeOK
    PROVE  CodeResolves <=>
               \A id \in DOMAIN rooms_ :
                   /\ rooms_[id].code \in DOMAIN code_to_id_
                   /\ code_to_id_[rooms_[id].code] = id
BY DEF TypeOK, CodeResolves, getRoomId

\* A call that only changes or removes rooms, each of which keeps its code.
LEMMA TableStep ==
    ASSUME IInv,
           UNCHANGED <<code_to_id_, next_room_id_>>,
           ready' \in [Players -> BOOLEAN],
           NEW op \in Ops, NEW id \in Nat, NEW p \in Players, NEW res \in RoomResult,
           Return(op, id, p, res),
           rooms_' \in [DOMAIN rooms_' -> RoomObject],
           DOMAIN rooms_' \subseteq DOMAIN rooms_,
           \A x \in DOMAIN rooms_' :
               /\ rooms_'[x].code = rooms_[x].code
               /\ res # "BLOCKED" => rooms_'[x] = rooms_[x] \/ AtRest(rooms_'[x])
    PROVE  IInv'
<1>1. TypeOK'
    BY DEF IInv, TypeOK, Return
<1>2. CodeResolves'
    BY <1>1, CodeInTable DEF IInv, CodeResolves, getRoomId
<1>3. RoomsAtRest'
    BY DEF IInv, RoomsAtRest, Return
<1> QED
    BY <1>1, <1>2, <1>3 DEF IInv

LEMMA NotFoundStep ==
    ASSUME IInv,
           UNCHANGED <<code_to_id_, next_room_id_>>,
           ready' \in [Players -> BOOLEAN],
           NEW op \in Ops, NEW id \in Nat, NEW p \in Players,
           NotFound(op, id, p)
    PROVE  IInv'
<1>1. Return(op, id, p, "NOT_FOUND") /\ "NOT_FOUND" \in RoomResult
    BY DEF NotFound, RoomResult
<1>2. rooms_' = rooms_ /\ rooms_ \in [DOMAIN rooms_ -> RoomObject]
    BY DEF NotFound, IInv, TypeOK
<1> QED
    BY <1>1, <1>2, TableStep

LEMMA OnRoomStep ==
    ASSUME IInv,
           UNCHANGED <<code_to_id_, next_room_id_>>,
           ready' \in [Players -> BOOLEAN],
           NEW op \in Ops, NEW id \in DOMAIN rooms_, NEW p \in Players, NEW o,
           OnRoom(op, id, p, o),
           Keeps(rooms_[id], o)
    PROVE  IInv'
<1>1. /\ rooms_' = [rooms_ EXCEPT ![id] = o.room]
      /\ Return(op, id, p, o.res)
      /\ o.res \in RoomResult
      /\ o.room \in RoomObject
    BY DEF OnRoom, Keeps
<1>2. rooms_ \in [DOMAIN rooms_ -> RoomObject] /\ id \in Nat
    BY DEF IInv, TypeOK
<1>3. rooms_' \in [DOMAIN rooms_ -> RoomObject] /\ DOMAIN rooms_' = DOMAIN rooms_
    BY <1>1, <1>2
<1>4. \A x \in DOMAIN rooms_' :
          /\ rooms_'[x].code = rooms_[x].code
          /\ o.res # "BLOCKED" => rooms_'[x] = rooms_[x] \/ AtRest(rooms_'[x])
    BY <1>1, <1>2 DEF Keeps
<1> QED
    BY <1>1, <1>2, <1>3, <1>4, TableStep

LEMMA EraseStep ==
    ASSUME IInv,
           UNCHANGED <<code_to_id_, next_room_id_, ready>>,
           NEW op \in Ops, NEW id \in DOMAIN rooms_, NEW p \in Players,
           NEW res \in RoomResult,
           Return(op, id, p, res),
           rooms_' = Erase(rooms_, id)
    PROVE  IInv'
<1>1. /\ rooms_ \in [DOMAIN rooms_ -> RoomObject]
      /\ id \in Nat
      /\ ready \in [Players -> BOOLEAN]
    BY DEF IInv, TypeOK
<1>2. /\ rooms_' \in [DOMAIN rooms_' -> RoomObject]
      /\ DOMAIN rooms_' \subseteq DOMAIN rooms_
      /\ \A x \in DOMAIN rooms_' : rooms_'[x] = rooms_[x]
    BY <1>1 DEF Erase
<1> QED
    BY <1>1, <1>2, TableStep

-----------------------------------------------------------------------------
(* One lemma per action.                                                   *)

\* A new room takes an id and a code that no room has.
LEMMA CreateFreshStep ==
    ASSUME IInv, thread = "running", UNCHANGED ready,
           NEW p \in Players, NEW capacity \in Capacities, NEW name \in RoomNames,
           createFresh(p, capacity, name)
    PROVE  IInv'
<1>1. PICK code \in Codes \ DOMAIN code_to_id_ :
          /\ code_to_id_' = Put(code_to_id_, code, next_room_id_)
          /\ rooms_' = Put(rooms_, next_room_id_, newRoom(code, name, capacity, p))
          /\ Return("createRoom", next_room_id_, p, "OK")
    BY DEF createFresh, NewId, FreeCodes
<1>2. capacity \in 2..16 /\ next_room_id_' = next_room_id_ + 1
    BY DEF createFresh, CounterGoesOn
<1> DEFINE new == newRoom(code, name, capacity, p)
<1>3. new \in RoomObject /\ new.code = code /\ AtRest(new)
    BY <1>1, <1>2, NewRoomAtRest
<1> HIDE DEF new
<1>4. /\ TypeOK
      /\ next_room_id_ \notin DOMAIN rooms_
      /\ next_room_id_ \in Nat \ {0}
    BY DEF IInv, TypeOK
<1>5. /\ rooms_' \in [DOMAIN rooms_' -> RoomObject]
      /\ DOMAIN rooms_' = DOMAIN rooms_ \cup {next_room_id_}
      /\ rooms_'[next_room_id_] = new
      /\ \A x \in DOMAIN rooms_ : rooms_'[x] = rooms_[x]
    BY <1>1, <1>3, <1>4 DEF Put, TypeOK, new
<1>6. /\ code_to_id_' \in [DOMAIN code_to_id_' -> 1..next_room_id_]
      /\ DOMAIN code_to_id_' = DOMAIN code_to_id_ \cup {code}
      /\ code_to_id_'[code] = next_room_id_
      /\ \A c \in DOMAIN code_to_id_ : code_to_id_'[c] = code_to_id_[c]
    BY <1>1, <1>4 DEF Put, TypeOK
<1>7. /\ thread' = thread
      /\ ret' = [op |-> "createRoom", room |-> next_room_id_, player |-> p, res |-> "OK"]
    BY <1>1 DEF Return
<1>8. TypeOK'
    BY <1>1, <1>2, <1>4, <1>5, <1>6, <1>7 DEF TypeOK, Ops, RoomResult
<1>9. CodeResolves'
    <2>1. \A id \in DOMAIN rooms_ :
              rooms_[id].code \in DOMAIN code_to_id_ /\ code_to_id_[rooms_[id].code] = id
        BY <1>4, CodeInTable DEF IInv
    <2> QED
        BY <2>1, <1>3, <1>5, <1>6 DEF CodeResolves, getRoomId
<1>10. RoomsAtRest'
    BY <1>3, <1>5, <1>7 DEF IInv, RoomsAtRest
<1> QED
    BY <1>8, <1>9, <1>10 DEF IInv

LEMMA CreateStep ==
    ASSUME IInv,
           NEW p \in Players, NEW c \in Capacities, NEW n \in RoomNames,
           createRoom(p, c, n)
    PROVE  IInv'
<1> USE DEF createRoom
<1>1. CASE createFresh(p, c, n)
    BY <1>1, CreateFreshStep
<1>2. CASE createWithoutCode(p, c)
    BY <1>2 DEF createWithoutCode, CounterGoesOn, IInv, TypeOK, CodeResolves, getRoomId,
                RoomsAtRest, Return, Ops, RoomResult
<1>3. CASE createBadCapacity(p, c)
    BY <1>3 DEF createBadCapacity, IInv, TypeOK, CodeResolves, getRoomId,
                RoomsAtRest, Return, Ops, RoomResult
<1> QED
    BY <1>1, <1>2, <1>3

\* What every other action starts from.
LEMMA RoomFound ==
    ASSUME IInv, thread = "running", NEW id \in DOMAIN rooms_
    PROVE  rooms_[id] \in RoomObject /\ AtRest(rooms_[id])
BY DEF IInv, TypeOK, RoomsAtRest

LEMMA JoinStep ==
    ASSUME IInv, NEW p \in Players, NEW id \in Nat, joinRoom(id, p)
    PROVE  IInv'
<1> USE DEF joinRoom
<1>1. ready' \in [Players -> BOOLEAN] /\ "joinRoom" \in Ops
    BY DEF IInv, TypeOK, Ops
<1>2. CASE NotFound("joinRoom", id, p)
    BY <1>1, <1>2, NotFoundStep
<1>3. CASE id \in DOMAIN rooms_ /\ OnRoom("joinRoom", id, p, join(rooms_[id], p))
    BY <1>1, <1>3, RoomFound, JoinKeeps, OnRoomStep
<1> QED
    BY <1>2, <1>3

\* The only room that leave gives back empty is erased in the same call.
LEMMA LeaveStep ==
    ASSUME IInv, NEW p \in Players, NEW id \in Nat, leaveRoom(id, p)
    PROVE  IInv'
<1> USE DEF leaveRoom
<1>1. ready' \in [Players -> BOOLEAN] /\ "leaveRoom" \in Ops
    BY DEF IInv, TypeOK, Ops
<1>2. CASE NotFound("leaveRoom", id, p)
    BY <1>1, <1>2, NotFoundStep
<1>3. CASE id \in DOMAIN rooms_
    <2> DEFINE room == rooms_[id]
               o == leave(room, p)
    <2>1. room \in RoomObject /\ AtRest(room)
        BY <1>3, RoomFound
    <2>2. /\ o.room \in RoomObject
          /\ o.room.code = room.code
          /\ \/ ~Contains(room.players, p) /\ o = [room |-> room, res |-> "NOT_IN_ROOM"]
             \/ o.res = "BLOCKED"
             \/ /\ o.res = "OK"
                /\ room.players = <<p>>
                /\ o.room.players = <<>>
        BY <2>1, LeaveOutcome
    <2>3. \/ /\ o.res # "BLOCKED" /\ o.room.players = <<>>
             /\ rooms_' = Erase(rooms_, id)
             /\ Return("leaveRoom", id, p, o.res)
          \/ /\ ~(o.res # "BLOCKED" /\ o.room.players = <<>>)
             /\ OnRoom("leaveRoom", id, p, o)
        BY <1>3 DEF NotFound
    <2> HIDE DEF room, o
    <2>4. CASE o.res # "BLOCKED" /\ o.room.players = <<>>
        <3>1. o.res \in RoomResult
            BY <2>2, <2>4 DEF RoomResult
        <3> QED
            BY <1>1, <1>3, <2>3, <2>4, <3>1, EraseStep
    <2>5. CASE ~(o.res # "BLOCKED" /\ o.room.players = <<>>)
        <3>1. Keeps(room, o)
            BY <2>1, <2>2, <2>5 DEF Keeps, RoomResult
        <3> QED
            BY <1>1, <1>3, <2>3, <2>5, <3>1, OnRoomStep DEF room
    <2> QED
        BY <2>4, <2>5
<1> QED
    BY <1>2, <1>3

LEMMA SetReadyStep ==
    ASSUME IInv, NEW p \in Players, NEW id \in Nat, NEW b \in BOOLEAN,
           setReadyOf(id, p, b)
    PROVE  IInv'
<1> USE DEF setReadyOf
<1>1. ready' \in [Players -> BOOLEAN] /\ "setReady" \in Ops
    BY DEF IInv, TypeOK, Ops
<1>2. CASE NotFound("setReady", id, p)
    BY <1>1, <1>2, NotFoundStep
<1>3. CASE id \in DOMAIN rooms_ /\ OnRoom("setReady", id, p, setReady(rooms_[id], p))
    BY <1>1, <1>3, RoomFound, SetReadyKeeps, OnRoomStep
<1> QED
    BY <1>2, <1>3

LEMMA SetCapacityStep ==
    ASSUME IInv, NEW p \in Players, NEW id \in Nat, NEW c \in Capacities,
           setCapacityOf(id, p, c)
    PROVE  IInv'
<1> USE DEF setCapacityOf
<1>1. ready' \in [Players -> BOOLEAN] /\ "setCapacity" \in Ops
    BY DEF IInv, TypeOK, Ops
<1>2. CASE NotFound("setCapacity", id, p)
    BY <1>1, <1>2, NotFoundStep
<1>3. CASE /\ id \in DOMAIN rooms_
           /\ OnRoom("setCapacity", id, p, setCapacity(rooms_[id], p, c))
    BY <1>1, <1>3, RoomFound, SetCapacityKeeps, OnRoomStep
<1> QED
    BY <1>2, <1>3

LEMMA StartGameStep ==
    ASSUME IInv, NEW p \in Players, NEW id \in Nat, startGameOf(id, p)
    PROVE  IInv'
<1> USE DEF startGameOf
<1>1. ready' \in [Players -> BOOLEAN] /\ "startGame" \in Ops
    BY DEF IInv, TypeOK, Ops
<1>2. CASE NotFound("startGame", id, p)
    BY <1>1, <1>2, NotFoundStep
<1>3. CASE /\ id \in DOMAIN rooms_
           /\ OnRoom("startGame", id, p, startGame(rooms_[id], p, ready))
    BY <1>1, <1>3, RoomFound, StartGameKeeps, OnRoomStep
<1> QED
    BY <1>2, <1>3

\* A player is not the null owner: dissolveRoom refuses every caller.
LEMMA DissolveStep ==
    ASSUME IInv, NEW p \in Players, NEW id \in Nat, dissolveRoom(id, p)
    PROVE  /\ IInv'
           /\ rooms_' = rooms_
           /\ ret'.res # "OK"
<1> USE DEF dissolveRoom
<1>1. /\ ready' \in [Players -> BOOLEAN]
      /\ "dissolveRoom" \in Ops
      /\ rooms_ \in [DOMAIN rooms_ -> RoomObject]
      /\ "NOT_OWNER" \in RoomResult
    BY DEF IInv, TypeOK, Ops, RoomResult
<1>2. CASE NotFound("dissolveRoom", id, p)
    BY <1>1, <1>2, NotFoundStep DEF NotFound, Return
<1>3. CASE id \in DOMAIN rooms_
    <2>1. isRoomOwner(rooms_[id], p) = "NO"
        BY <1>3, RoomFound, NoPlayerAssumption DEF isRoomOwner, Answer, AtRest
    <2>2. rooms_' = rooms_ /\ Return("dissolveRoom", id, p, "NOT_OWNER")
        BY <1>3, <2>1 DEF NotFound
    <2> QED
        BY <1>1, <2>2, TableStep DEF Return
<1> QED
    BY <1>2, <1>3

-----------------------------------------------------------------------------

LEMMA InitIInv == Init => IInv
BY DEF Init, IInv, TypeOK, CodeResolves, RoomsAtRest, Ops, RoomResult

LEMMA NextIInv == IInv /\ [Next]_vars => IInv'
<1> SUFFICES ASSUME IInv, [Next]_vars
             PROVE  IInv'
    OBVIOUS
<1>1. CASE \E p \in Players, c \in Capacities, n \in RoomNames : createRoom(p, c, n)
    BY <1>1, CreateStep
<1>2. CASE \E p \in Players, id \in 1..MaxRoomId : joinRoom(id, p)
    BY <1>2, JoinStep DEF RoomManagerAssumption
<1>3. CASE \E p \in Players, id \in 1..MaxRoomId : leaveRoom(id, p)
    BY <1>3, LeaveStep
<1>4. CASE \E p \in Players, id \in 1..MaxRoomId, b \in BOOLEAN : setReadyOf(id, p, b)
    BY <1>4, SetReadyStep
<1>5. CASE \E p \in Players, id \in 1..MaxRoomId, c \in Capacities :
               setCapacityOf(id, p, c)
    BY <1>5, SetCapacityStep
<1>6. CASE \E p \in Players, id \in 1..MaxRoomId : startGameOf(id, p)
    BY <1>6, StartGameStep
<1>7. CASE \E p \in Players, id \in 1..MaxRoomId : dissolveRoom(id, p)
    BY <1>7, DissolveStep
<1>8. CASE exit
    BY <1>8 DEF exit, IInv, TypeOK, CodeResolves, getRoomId, RoomsAtRest
<1>9. CASE UNCHANGED vars
    BY <1>9 DEF vars, IInv, TypeOK, CodeResolves, getRoomId, RoomsAtRest
<1> QED
    BY <1>1, <1>2, <1>3, <1>4, <1>5, <1>6, <1>7, <1>8, <1>9 DEF Next

\* IInv holds in every reachable state: the strengthening the theorems share.
THEOREM Invariance == Spec => []IInv
BY InitIInv, NextIInv, PTL DEF Spec

\* Every variable keeps its type, whatever calls are made.
THEOREM TypeCorrect == Spec => []TypeOK
<1>1. IInv => TypeOK
    BY DEF IInv
<1> QED
    BY <1>1, Invariance, PTL

\* No call ever leaves a room that can be found empty, overfull, or with a
\* player in it twice.
THEOREM RoomsStaySound == Spec => []RoomsSound
<1>1. IInv => RoomsSound
    BY DEF IInv, RoomsAtRest, RoomsSound, AtRest
<1> QED
    BY <1>1, Invariance, PTL

\* The code of a room always leads to that room.
THEOREM CodesResolve == Spec => []CodeResolves
<1>1. IInv => CodeResolves
    BY DEF IInv
<1> QED
    BY <1>1, Invariance, PTL

-----------------------------------------------------------------------------
(* The mutexes of the rooms.                                               *)

\* A call of a method of Room that never returns holds that room's mutex only.
LEMMA OneLocked ==
    ASSUME IInv, thread = "running", NEW id \in DOMAIN rooms_, NEW p, NEW o,
           NEW op \in {"setCapacity", "startGame", "leaveRoom"},
           OnRoom(op, id, p, o), o.res = "BLOCKED", o.room.mu,
           op = "leaveRoom" => o.room.players # <<>>
    PROVE  LocksReleased'
<1>1. /\ rooms_' = [rooms_ EXCEPT ![id] = o.room]
      /\ ret'.op = op /\ ret'.room = id /\ thread' = "blocked"
    BY DEF OnRoom, Return
<1>2. rooms_ \in [DOMAIN rooms_ -> RoomObject] /\ \A x \in DOMAIN rooms_ : ~rooms_[x].mu
    BY RoomFound DEF IInv, TypeOK, AtRest
<1>3. DOMAIN rooms_' = DOMAIN rooms_ /\ rooms_'[id] = o.room
      /\ \A x \in DOMAIN rooms_ \ {id} : rooms_'[x] = rooms_[x]
    BY <1>1, <1>2
<1>4. Locked' = {id}
    BY <1>2, <1>3 DEF Locked
<1> QED
    BY <1>1, <1>3, <1>4 DEF LocksReleased

\* Only these calls may not return.
LEMMA BlockedCalls ==
    ASSUME IInv, Next, thread' = "blocked"
    PROVE  LocksReleased'
<1>1. thread = "running"
    BY DEF Next, createRoom, joinRoom, leaveRoom, setReadyOf, setCapacityOf, startGameOf,
           dissolveRoom, exit
<1>2. \A op, id, p, res : Return(op, id, p, res) => res = "BLOCKED"
    BY <1>1 DEF Return
<1>3. ASSUME NEW p \in Players, NEW c \in Capacities, NEW n \in RoomNames,
             createRoom(p, c, n)
      PROVE  FALSE
    BY <1>2, <1>3 DEF createRoom, createFresh, createWithoutCode, createBadCapacity
<1>4. ASSUME NEW p \in Players, NEW id \in 1..MaxRoomId,
             \/ joinRoom(id, p)
             \/ leaveRoom(id, p)
             \/ \E b \in BOOLEAN : setReadyOf(id, p, b)
             \/ \E c \in Capacities : setCapacityOf(id, p, c)
             \/ startGameOf(id, p)
             \/ dissolveRoom(id, p)
      PROVE  LocksReleased'
    <2>1. id \in DOMAIN rooms_
        BY <1>2, <1>4 DEF joinRoom, leaveRoom, setReadyOf, setCapacityOf, startGameOf,
                          dissolveRoom, NotFound
    <2>2. rooms_[id] \in RoomObject /\ AtRest(rooms_[id]) /\ id \in Nat
        BY <1>1, <2>1, RoomFound
    <2>3. CASE joinRoom(id, p)
        <3>1. join(rooms_[id], p).res = "BLOCKED"
            BY <1>2, <2>1, <2>3 DEF joinRoom, NotFound, OnRoom
        <3> QED
            BY <2>2, <3>1 DEF join, Done, AtRest
    <2>4. CASE leaveRoom(id, p)
        <3> DEFINE o == leave(rooms_[id], p)
        <3>1. o.res = "BLOCKED"
            BY <1>2, <2>1, <2>4 DEF leaveRoom, NotFound, OnRoom
        <3>2. OnRoom("leaveRoom", id, p, o)
            BY <2>1, <2>4, <3>1 DEF leaveRoom, NotFound
        <3>3. o.room.mu /\ o.room.players # <<>>
            BY <2>2, <3>1, LeaveBlocks
        <3> HIDE DEF o
        <3> QED
            BY <1>1, <2>1, <3>1, <3>2, <3>3, OneLocked
    <2>5. CASE \E b \in BOOLEAN : setReadyOf(id, p, b)
        <3>1. setReady(rooms_[id], p).res = "BLOCKED"
            BY <1>2, <2>1, <2>5 DEF setReadyOf, NotFound, OnRoom
        <3> QED
            BY <2>2, <3>1 DEF setReady, Done, AtRest
    <2>6. CASE \E c \in Capacities : setCapacityOf(id, p, c)
        <3>1. PICK c \in Capacities :
                   OnRoom("setCapacity", id, p, setCapacity(rooms_[id], p, c))
            BY <2>1, <2>6 DEF setCapacityOf, NotFound
        <3> DEFINE o == setCapacity(rooms_[id], p, c)
        <3>2. o.res = "BLOCKED" /\ OnRoom("setCapacity", id, p, o)
            BY <1>2, <3>1 DEF OnRoom
        <3>3. o.room.mu
            BY <2>2, SetCapacityKeeps DEF Lock, RoomObject
        <3> HIDE DEF o
        <3> QED
            BY <1>1, <2>1, <3>2, <3>3, OneLocked
    <2>7. CASE startGameOf(id, p)
        <3> DEFINE o == startGame(rooms_[id], p, ready)
        <3>1. OnRoom("startGame", id, p, o)
            BY <2>1, <2>7 DEF startGameOf, NotFound
        <3>2. o.res = "BLOCKED"
            BY <1>2, <3>1 DEF OnRoom
        <3>3. o.room.mu
            BY <2>2, StartGameKeeps DEF Lock, RoomObject
        <3> HIDE DEF o
        <3> QED
            BY <1>1, <2>1, <3>1, <3>2, <3>3, OneLocked
    <2>8. CASE dissolveRoom(id, p)
        <3>1. isRoomOwner(rooms_[id], p) \in {"YES", "NO"}
            BY <2>2 DEF isRoomOwner, Answer, AtRest
        <3>2. Return("dissolveRoom", id, p, "OK") \/ Return("dissolveRoom", id, p, "NOT_OWNER")
            BY <2>1, <2>8, <3>1 DEF dissolveRoom, NotFound
        <3> QED
            BY <1>2, <3>2
    <2> QED
        BY <1>4, <2>3, <2>4, <2>5, <2>6, <2>7, <2>8
<1> QED
    BY <1>3, <1>4 DEF Next, exit

\* Every call of RoomManager unlocks what it locked, but for the calls that ask
\* about a room, under its lock, what takes the lock again; these leave that one
\* mutex held, for ever.
THEOREM LocksAlwaysReleased == Spec => []LocksReleased
<1>1. Init => LocksReleased
    BY DEF Init, Locked, LocksReleased
<1>2. ASSUME IInv, LocksReleased, [Next]_vars
      PROVE  LocksReleased'
    <2>1. CASE UNCHANGED vars
        BY <1>2, <2>1 DEF vars, Locked, LocksReleased
    <2>2. CASE Next /\ thread' = "blocked"
        BY <1>2, <2>2, BlockedCalls
    <2>3. CASE Next /\ thread' # "blocked"
        <3>1. IInv'
            BY <1>2, NextIInv
        <3> QED
            BY <2>3, <3>1 DEF IInv, RoomsAtRest, AtRest, Locked, LocksReleased
    <2> QED
        BY <1>2, <2>1, <2>2, <2>3
<1> QED
    BY <1>1, <1>2, Invariance, PTL DEF Spec

-----------------------------------------------------------------------------
(* What a step may never do.                                               *)

\* Only createFresh touches the codes, and adds one that was not there.
LEMMA NextCodesKept == IInv /\ Next => CodesKept
<1> SUFFICES ASSUME IInv, Next, code_to_id_' # code_to_id_
             PROVE  CodesKept
    BY DEF CodesKept
<1>1. PICK p \in Players, c \in Capacities, n \in RoomNames : createFresh(p, c, n)
    BY DEF Next, createRoom, createWithoutCode, createBadCapacity, joinRoom, leaveRoom,
           setReadyOf, setCapacityOf, startGameOf, dissolveRoom, exit
<1> QED
    BY <1>1 DEF createFresh, NewId, FreeCodes, Put, CodesKept

\* A code that was handed out keeps its meaning for ever.
THEOREM CodesNeverRebound == Spec => CodeNeverRebound
BY Invariance, NextCodesKept, PTL DEF Spec, CodeNeverRebound

\* Only createFresh adds a room, at next_room_id_.
LEMMA NextNoRoomRevived == IInv /\ Next => NoRoomRevived
<1> SUFFICES ASSUME IInv, Next
             PROVE  DOMAIN rooms_' \subseteq DOMAIN rooms_ \cup {next_room_id_}
    BY DEF NoRoomRevived, IInv, TypeOK
<1>1. \A id : DOMAIN Erase(rooms_, id) \subseteq DOMAIN rooms_
    BY DEF Erase
<1>2. \A op, id, p, o : OnRoom(op, id, p, o) => DOMAIN rooms_' = DOMAIN rooms_
    BY DEF OnRoom, IInv, TypeOK
<1>3. ASSUME NEW p \in Players, NEW c \in Capacities, NEW n \in RoomNames,
             createRoom(p, c, n)
      PROVE  DOMAIN rooms_' \subseteq DOMAIN rooms_ \cup {next_room_id_}
    BY <1>3 DEF createRoom, createFresh, NewId, createWithoutCode, createBadCapacity, Put
<1>4. ASSUME NEW p \in Players, NEW id \in 1..MaxRoomId,
             \/ joinRoom(id, p)
             \/ leaveRoom(id, p)
             \/ \E b \in BOOLEAN : setReadyOf(id, p, b)
             \/ \E c \in Capacities : setCapacityOf(id, p, c)
             \/ startGameOf(id, p)
             \/ dissolveRoom(id, p)
      PROVE  DOMAIN rooms_' \subseteq DOMAIN rooms_
    BY <1>1, <1>2, <1>4 DEF joinRoom, leaveRoom, setReadyOf, setCapacityOf,
                            startGameOf, dissolveRoom, NotFound
<1> QED
    BY <1>3, <1>4 DEF Next, exit

\* An id whose room is gone never names a room again.
THEOREM DeadRoomsStayDead == Spec => DeadRoomStaysDead
BY Invariance, NextNoRoomRevived, PTL DEF Spec, DeadRoomStaysDead

\* A call that leaves everybody where they are and lets nobody in or out.
LEMMA NobodyMoves ==
    ASSUME \A id \in 1..MaxRoomId : Members(id)' = Members(id),
           \/ ret'.res # "OK"
           \/ ret'.op \notin {"createRoom", "joinRoom", "leaveRoom", "dissolveRoom"}
    PROVE  MembersMatchAnswer
BY DEF MembersMatchAnswer, Got

LEMMA CreateMembers ==
    ASSUME IInv,
           NEW p \in Players, NEW c \in Capacities, NEW n \in RoomNames,
           createRoom(p, c, n)
    PROVE  MembersMatchAnswer
<1> USE DEF createRoom
<1>1. CASE createFresh(p, c, n)
    <2>1. PICK code \in Codes :
              /\ rooms_' = Put(rooms_, next_room_id_, newRoom(code, n, c, p))
              /\ ret' = [op |-> "createRoom", room |-> next_room_id_,
                         player |-> p, res |-> "OK"]
        BY <1>1 DEF createFresh, NewId, FreeCodes, Return
    <2>2. newRoom(code, n, c, p).players = <<p>>
        BY <1>1, NewRoomAtRest DEF createFresh
    <2>3. next_room_id_ \notin DOMAIN rooms_
        BY DEF IInv, TypeOK
    <2>4. /\ DOMAIN rooms_' = DOMAIN rooms_ \cup {next_room_id_}
          /\ rooms_'[next_room_id_].players = <<p>>
          /\ \A id \in DOMAIN rooms_ : rooms_'[id] = rooms_[id]
        BY <2>1, <2>2, <2>3 DEF Put
    <2>5. \A id \in 1..MaxRoomId :
              Members(id)' = IF id = next_room_id_ THEN {p} ELSE Members(id)
        <3>1. ToSet(<<p>>) = {p}
            BY DEF ToSet
        <3> QED
            BY <2>3, <2>4, <3>1 DEF Members
    <2>6. Members(next_room_id_) = {}
        BY <2>3 DEF Members
    <2> QED
        BY <2>1, <2>5, <2>6 DEF MembersMatchAnswer, Got
<1>2. CASE createWithoutCode(p, c) \/ createBadCapacity(p, c)
    <2>1. rooms_' = rooms_ /\ ret'.res # "OK"
        BY <1>2 DEF createWithoutCode, createBadCapacity, Return
    <2> QED
        BY <2>1, NobodyMoves DEF Members
<1> QED
    BY <1>1, <1>2

\* A refusal by the manager itself.
LEMMA NotFoundMembers ==
    ASSUME NEW op, NEW id, NEW p, NotFound(op, id, p)
    PROVE  MembersMatchAnswer
<1>1. rooms_' = rooms_ /\ ret'.res # "OK"
    BY DEF NotFound, Return
<1> QED
    BY <1>1, NobodyMoves DEF Members

\* What one room's new players make of the members of every room.
LEMMA OnRoomMembers ==
    ASSUME IInv, NEW op, NEW id \in DOMAIN rooms_, NEW p, NEW o, OnRoom(op, id, p, o)
    PROVE  \A x : Members(x)' = IF x = id THEN ToSet(o.room.players) ELSE Members(x)
BY DEF OnRoom, IInv, TypeOK, Members

LEMMA JoinMembers ==
    ASSUME IInv, NEW p \in Players, NEW id \in 1..MaxRoomId, joinRoom(id, p)
    PROVE  MembersMatchAnswer
<1> USE DEF joinRoom
<1>1. CASE NotFound("joinRoom", id, p)
    BY <1>1, NotFoundMembers
<1>2. CASE id \in DOMAIN rooms_ /\ OnRoom("joinRoom", id, p, join(rooms_[id], p))
    <2> DEFINE room == rooms_[id]
               o == join(room, p)
    <2>1. room \in RoomObject /\ AtRest(room)
        BY <1>2, RoomFound
    <2>2. \/ o.res # "OK" /\ o.room = room
          \/ /\ o.res = "OK"
             /\ ~Contains(room.players, p)
             /\ o.room.players = Append(room.players, p)
        BY <2>1, JoinOutcome
    <2>3. ret' = [op |-> "joinRoom", room |-> id, player |-> p, res |-> o.res]
        BY <1>2 DEF OnRoom, Return
    <2>4. \A x : Members(x)' = IF x = id THEN ToSet(o.room.players) ELSE Members(x)
        BY <1>2, OnRoomMembers
    <2>5. Members(id) = ToSet(room.players)
        BY <1>2 DEF Members
    <2> HIDE DEF room, o
    <2>6. CASE o.res # "OK" /\ o.room = room
        BY <2>3, <2>4, <2>5, <2>6, NobodyMoves
    <2>7. CASE /\ o.res = "OK"
               /\ ~Contains(room.players, p)
               /\ o.room.players = Append(room.players, p)
        <3>1. room.players \in Seq(Players)
            BY <2>1 DEF RoomObject
        <3>2. p \notin ToSet(room.players)
            BY <2>7, <3>1 DEF Contains, ToSet
        <3>3. ToSet(Append(room.players, p)) = ToSet(room.players) \cup {p}
            BY <3>1, AppendProperties DEF ToSet
        <3> QED
            BY <2>3, <2>4, <2>5, <2>7, <3>2, <3>3 DEF MembersMatchAnswer, Got
    <2> QED
        BY <2>2, <2>6, <2>7
<1> QED
    BY <1>1, <1>2

LEMMA LeaveMembers ==
    ASSUME IInv, NEW p \in Players, NEW id \in 1..MaxRoomId, leaveRoom(id, p),
           thread' = "running"
    PROVE  MembersMatchAnswer
<1> USE DEF leaveRoom
<1>1. CASE NotFound("leaveRoom", id, p)
    BY <1>1, NotFoundMembers
<1>2. CASE id \in DOMAIN rooms_
    <2> DEFINE room == rooms_[id]
               o == leave(room, p)
    <2>1. room \in RoomObject /\ AtRest(room)
        BY <1>2, RoomFound
    <2>2. \/ ~Contains(room.players, p) /\ o = [room |-> room, res |-> "NOT_IN_ROOM"]
          \/ o.res = "BLOCKED"
          \/ o.res = "OK" /\ room.players = <<p>> /\ o.room.players = <<>>
        BY <2>1, LeaveOutcome
    <2>3. \/ /\ o.res # "BLOCKED" /\ o.room.players = <<>>
             /\ rooms_' = Erase(rooms_, id)
             /\ Return("leaveRoom", id, p, o.res)
          \/ /\ ~(o.res # "BLOCKED" /\ o.room.players = <<>>)
             /\ OnRoom("leaveRoom", id, p, o)
        BY <1>2 DEF NotFound
    <2>4. o.res # "BLOCKED" /\ ret' = [op |-> "leaveRoom", room |-> id,
                                      player |-> p, res |-> o.res]
        BY <2>3 DEF OnRoom, Return
    <2>5. Members(id) = ToSet(room.players)
        BY <1>2 DEF Members
    <2>6. room.players # <<>>
        BY <2>1 DEF AtRest, Sound
    <2> HIDE DEF o
    <2>7. CASE ~Contains(room.players, p) /\ o = [room |-> room, res |-> "NOT_IN_ROOM"]
        <3>1. \A x : Members(x)' = IF x = id THEN ToSet(room.players) ELSE Members(x)
            BY <1>2, <2>3, <2>6, <2>7, OnRoomMembers
        <3> QED
            BY <2>4, <2>5, <2>7, <3>1, NobodyMoves
    <2>8. CASE o.res = "OK" /\ room.players = <<p>> /\ o.room.players = <<>>
        <3>1. rooms_' = Erase(rooms_, id)
            BY <2>3, <2>8
        <3>2. \A x : Members(x)' = IF x = id THEN {} ELSE Members(x)
            BY <3>1 DEF Erase, Members
        <3>3. Members(id) = {p}
            BY <2>5, <2>8 DEF ToSet
        <3> QED
            BY <2>4, <2>8, <3>2, <3>3 DEF MembersMatchAnswer, Got
    <2> QED
        BY <2>2, <2>4, <2>7, <2>8
<1> QED
    BY <1>1, <1>2

\* A method that takes the lock and does not touch the players.
LEMMA SamePlayersMembers ==
    ASSUME IInv, NEW op, NEW id \in DOMAIN rooms_, NEW p, NEW o, OnRoom(op, id, p, o),
           o.room.players = rooms_[id].players,
           op \in {"setReady", "setCapacity", "startGame"}
    PROVE  MembersMatchAnswer
<1>1. \A x : Members(x)' = Members(x)
    BY OnRoomMembers DEF Members
<1>2. ret'.op = op
    BY DEF OnRoom, Return
<1> QED
    BY <1>1, <1>2, NobodyMoves

LEMMA NextMembersMatchAnswer ==
    IInv /\ Next /\ thread' = "running" => MembersMatchAnswer
<1> SUFFICES ASSUME IInv, Next, thread' = "running"
             PROVE  MembersMatchAnswer
    OBVIOUS
<1>1. \A room \in RoomObject : Lock(room).players = room.players
    BY DEF Lock, RoomObject
<1>2. CASE \E p \in Players, c \in Capacities, n \in RoomNames : createRoom(p, c, n)
    BY <1>2, CreateMembers
<1>3. CASE \E p \in Players, id \in 1..MaxRoomId : joinRoom(id, p)
    BY <1>3, JoinMembers
<1>4. CASE \E p \in Players, id \in 1..MaxRoomId : leaveRoom(id, p)
    BY <1>4, LeaveMembers
<1>5. CASE \E p \in Players, id \in 1..MaxRoomId, b \in BOOLEAN : setReadyOf(id, p, b)
    BY <1>5, NotFoundMembers, RoomFound, SetReadyKeeps, SamePlayersMembers DEF setReadyOf
<1>6. CASE \E p \in Players, id \in 1..MaxRoomId, c \in Capacities :
               setCapacityOf(id, p, c)
    BY <1>1, <1>6, NotFoundMembers, RoomFound, SetCapacityKeeps, SamePlayersMembers
    DEF setCapacityOf
<1>7. CASE \E p \in Players, id \in 1..MaxRoomId : startGameOf(id, p)
    BY <1>1, <1>7, NotFoundMembers, RoomFound, StartGameKeeps, SamePlayersMembers
    DEF startGameOf
<1>8. CASE \E p \in Players, id \in 1..MaxRoomId : dissolveRoom(id, p)
    BY <1>8, DissolveStep, NobodyMoves DEF Members
<1> QED
    BY <1>2, <1>3, <1>4, <1>5, <1>6, <1>7, <1>8 DEF Next, exit

\* Membership follows from the calls and their results alone.
THEOREM MembershipFollowsAnswers == Spec => MembershipFollowsAnswer
BY Invariance, NextMembersMatchAnswer, PTL DEF Spec, MembershipFollowsAnswer

-----------------------------------------------------------------------------
(* Who moves, also when a call never returns; and the capacities.          *)

\* A join that is answered OK found a room with a seat left.
LEMMA JoinMoves ==
    ASSUME IInv, NEW p \in Players, NEW id \in Nat, joinRoom(id, p), ret'.res = "OK"
    PROVE  /\ id \in DOMAIN rooms_
           /\ Len(rooms_[id].players) < rooms_[id].capacity
           /\ p \notin Members(id)
           /\ \A x : Members(x)' = IF x = id THEN Members(id) \cup {p} ELSE Members(x)
<1>1. id \in DOMAIN rooms_ /\ OnRoom("joinRoom", id, p, join(rooms_[id], p))
    BY DEF joinRoom, NotFound, Return
<1> DEFINE room == rooms_[id]
           o == join(room, p)
<1>2. room \in RoomObject /\ AtRest(room)
    BY <1>1, RoomFound DEF joinRoom
<1>3. o.res = "OK"
    BY <1>1 DEF OnRoom, Return
<1>4. /\ Len(room.players) < room.capacity
      /\ ~Contains(room.players, p)
      /\ o.room.players = Append(room.players, p)
    BY <1>2, <1>3, JoinOutcome
<1>5. room.players \in Seq(Players)
    BY <1>2 DEF RoomObject
<1> HIDE DEF o
<1>6. \A x : Members(x)' = IF x = id THEN ToSet(o.room.players) ELSE Members(x)
    BY <1>1, OnRoomMembers DEF o
<1>7. ToSet(Append(room.players, p)) = ToSet(room.players) \cup {p}
    <2>1. /\ DOMAIN Append(room.players, p) = 1..(Len(room.players) + 1)
          /\ \A i \in 1..Len(room.players) : Append(room.players, p)[i] = room.players[i]
          /\ Append(room.players, p)[Len(room.players) + 1] = p
          /\ Len(room.players) \in Nat /\ DOMAIN room.players = 1..Len(room.players)
        BY <1>5, AppendProperties
    <2> QED
        BY <2>1 DEF ToSet
<1>8. Members(id) = ToSet(room.players)
    BY <1>1 DEF Members
<1>9. p \notin ToSet(room.players)
    BY <1>4, <1>5 DEF Contains, ToSet
<1> QED
    BY <1>1, <1>4, <1>6, <1>7, <1>8, <1>9

\* A leave that is answered OK, or never returns, took the player out.
LEMMA LeaveMoves ==
    ASSUME IInv, NEW p \in Players, NEW id \in Nat, leaveRoom(id, p),
           ret'.res \in {"OK", "BLOCKED"}
    PROVE  /\ p \in Members(id)
           /\ \A x : Members(x)' = IF x = id THEN Members(id) \ {p} ELSE Members(x)
<1>1. id \in DOMAIN rooms_
    BY DEF leaveRoom, NotFound, Return
<1> DEFINE room == rooms_[id]
           o == leave(room, p)
<1>2. room \in RoomObject /\ AtRest(room)
    BY <1>1, RoomFound DEF leaveRoom
<1>3. o.res = ret'.res
    BY <1>1 DEF leaveRoom, NotFound, OnRoom, Return
<1>4. /\ ToSet(o.room.players) = ToSet(room.players) \ {p}
      /\ Contains(room.players, p)
    <2>1. ASSUME NEW r \in RoomObject, AtRest(r)
          PROVE  LET q == leave(r, p)
                 IN /\ q.res # "NOT_IN_ROOM" => ToSet(q.room.players) = ToSet(r.players) \ {p}
                    /\ q.res = "BLOCKED" => Contains(r.players, p)
                    /\ q.res = "OK" => r.players = <<p>>
        <3> DEFINE q == leave(r, p)
        <3>1. /\ q.res # "NOT_IN_ROOM" => ToSet(q.room.players) = ToSet(r.players) \ {p}
              /\ q.res = "BLOCKED" => Contains(r.players, p)
              /\ \/ q = [room |-> r, res |-> "NOT_IN_ROOM"]
                 \/ q.res = "BLOCKED"
                 \/ r.players = <<p>>
            BY <2>1, LeaveOutcome, Zenon
        <3> HIDE DEF q
        <3>2. q.res = "OK" => r.players = <<p>>
            BY <3>1
        <3> QED
            BY <3>1, <3>2 DEF q
    <2>2. Contains(<<p>>, p)
        BY DEF Contains
    <2> QED
        BY <1>2, <1>3, <2>1, <2>2
<1> HIDE DEF o
<1>5. \A x : Members(x)' = IF x = id THEN ToSet(o.room.players) ELSE Members(x)
    <2>1. CASE OnRoom("leaveRoom", id, p, o)
        BY <1>1, <2>1, OnRoomMembers
    <2>2. CASE o.room.players = <<>> /\ rooms_' = Erase(rooms_, id)
        <3>1. \A x : Members(x)' = IF x = id THEN {} ELSE Members(x)
            BY <2>2 DEF Erase, Members
        <3>2. ToSet(<<>>) = {}
            BY DEF ToSet
        <3> QED
            BY <2>2, <3>1, <3>2
    <2> QED
        BY <1>1, <2>1, <2>2 DEF leaveRoom, NotFound, o
<1>6. Members(id) = ToSet(room.players)
    BY <1>1 DEF Members
<1>7. p \in ToSet(room.players)
    BY <1>2, <1>4 DEF Contains, ToSet, RoomObject
<1> QED
    BY <1>4, <1>5, <1>6, <1>7

\* joinRoom and leaveRoom keep the capacities of the rooms.
LEMMA CapacitiesStay ==
    ASSUME IInv, NEW p \in Players, NEW id \in Nat, joinRoom(id, p) \/ leaveRoom(id, p)
    PROVE  \A x \in DOMAIN rooms_' :
               x \in DOMAIN rooms_ /\ rooms_'[x].capacity = rooms_[x].capacity
<1>1. CASE id \notin DOMAIN rooms_
    BY <1>1 DEF joinRoom, leaveRoom, NotFound
<1>2. CASE id \in DOMAIN rooms_
    <2>1. rooms_[id] \in RoomObject /\ AtRest(rooms_[id])
        BY <1>2, RoomFound DEF joinRoom, leaveRoom
    <2>2. /\ join(rooms_[id], p).room.capacity = rooms_[id].capacity
          /\ leave(rooms_[id], p).room.capacity = rooms_[id].capacity
        BY <2>1, JoinOutcome, LeaveOutcome
    <2> QED
        BY <1>2, <2>2 DEF joinRoom, leaveRoom, NotFound, OnRoom, Erase
<1> QED
    BY <1>1, <1>2

=============================================================================
