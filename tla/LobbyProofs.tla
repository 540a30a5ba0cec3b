---------------------------- MODULE LobbyProofs ----------------------------
(***************************************************************************)
(* Theorems about Lobby, for any number of clients, codes, names and ids.  *)
(*                                                                         *)
(* What RoomManagerProofs proves of RoomManager is carried over to the     *)
(* rooms of the Lobby: every step of the Lobby makes a step of RoomManager *)
(* or leaves the rooms alone, so a room's members follow from the answers  *)
(* to the calls, and CurrentRoomId can be checked against those answers.   *)
(***************************************************************************)
EXTENDS Lobby, SequenceTheorems, FiniteSetTheorems, TLAPS

\* RoomManager as RM has it, with the theorems about it.
RMP == INSTANCE RoomManagerProofs WITH Capacities <- {4}

LEMMA RoomManagerAssumptions == RMP!NoPlayerAssumption /\ RMP!RoomManagerAssumption
<1>1. NoPlayer \notin Players /\ MaxRoomId \in Nat /\ {4} \subseteq Int
    BY LobbyAssumption
<1> QED
    BY <1>1

\* No id is too great for the cast in moveTo.
LEMMA CastKeeps == \A id \in 0..MaxRoomId : AsInt(id) = id
<1> SUFFICES ASSUME NEW id \in 0..MaxRoomId
             PROVE  AsInt(id) = id
    OBVIOUS
<1>1. PICK m \in Nat : m = 2 * (IntMax + 1) /\ m > 0 /\ id < m /\ id \in Nat
    BY LobbyAssumption
<1>2. id % m = id
    BY <1>1
<1> QED
    BY <1>1, <1>2, LobbyAssumption DEF AsInt

-----------------------------------------------------------------------------
(* RM and RMP are one module under two names.                              *)

LEMMA SameRoom ==
    /\ RM!RoomObject = RMP!RoomObject
    /\ RM!RoomResult = RMP!RoomResult
    /\ \A room, p : RM!join(room, p) = RMP!join(room, p)
    /\ \A room, p : RM!leave(room, p) = RMP!leave(room, p)
    /\ \A room, p : RM!setReady(room, p) = RMP!setReady(room, p)
    /\ \A room, p, c : RM!setCapacity(room, p, c) = RMP!setCapacity(room, p, c)
    /\ \A room, p, r : RM!startGame(room, p, r) = RMP!startGame(room, p, r)
    /\ \A room, p : RM!isRoomOwner(room, p) = RMP!isRoomOwner(room, p)
    /\ \A c, n, k, p : RM!newRoom(c, n, k, p) = RMP!newRoom(c, n, k, p)
<1>1. \A s, e : RM!Contains(s, e) <=> RMP!Contains(s, e)
    BY DEF RM!Contains, RMP!Contains
<1>2. \A s : RM!ToSet(s) = RMP!ToSet(s)
    BY DEF RM!ToSet, RMP!ToSet
<1>3. \A s, e : RM!RemoveFirst(s, e) = RMP!RemoveFirst(s, e)
    BY DEF RM!RemoveFirst, RMP!RemoveFirst, RM!RemoveAt, RMP!RemoveAt, RM!SelectInSeq, RMP!SelectInSeq, RM!Min, RMP!Min
<1>4. /\ \A room : RM!Lock(room) = RMP!Lock(room)
      /\ \A room, r : RM!Done(room, r) = RMP!Done(room, r)
      /\ \A room : RM!Blocked(room) = RMP!Blocked(room)
    BY DEF RM!Lock, RMP!Lock, RM!Done, RMP!Done, RM!Blocked, RMP!Blocked
<1>5. /\ \A room, p : RM!containsPlayer(room, p) = RMP!containsPlayer(room, p)
      /\ \A room, p : RM!isRoomOwner(room, p) = RMP!isRoomOwner(room, p)
    BY <1>1 DEF RM!containsPlayer, RMP!containsPlayer, RM!isRoomOwner, RMP!isRoomOwner, RM!Answer, RMP!Answer
<1>6. \A room, p : RM!join(room, p) = RMP!join(room, p)
    BY <1>1, <1>4 DEF RM!join, RMP!join
<1>7. \A room : RM!ensure_owner_after_leave_locked(room) = RMP!ensure_owner_after_leave_locked(room)
    BY <1>4, <1>5 DEF RM!ensure_owner_after_leave_locked, RMP!ensure_owner_after_leave_locked
<1>8. \A room, p : RM!leave(room, p) = RMP!leave(room, p)
    BY <1>1, <1>3, <1>4, <1>7 DEF RM!leave, RMP!leave
<1>9. \A room, p : RM!setReady(room, p) = RMP!setReady(room, p)
    BY <1>1, <1>4 DEF RM!setReady, RMP!setReady
<1>10. \A room, p, c : RM!setCapacity(room, p, c) = RMP!setCapacity(room, p, c)
    BY <1>4, <1>5 DEF RM!setCapacity, RMP!setCapacity
<1>11. \A room, p, r : RM!startGame(room, p, r) = RMP!startGame(room, p, r)
    BY <1>2, <1>4, <1>5 DEF RM!startGame, RMP!startGame
<1>12. \A c, n, k, p : RM!newRoom(c, n, k, p) = RMP!newRoom(c, n, k, p)
    BY <1>6 DEF RM!newRoom, RMP!newRoom
<1>13. RM!RoomObject = RMP!RoomObject /\ RM!RoomResult = RMP!RoomResult
    BY DEF RM!RoomObject, RMP!RoomObject, RM!RoomState, RMP!RoomState, RM!RoomResult, RMP!RoomResult
<1> QED
    BY <1>5, <1>6, <1>8, <1>9, <1>10, <1>11, <1>12, <1>13

LEMMA SameCalls ==
    /\ \A p, c, n : RM!createRoom(p, c, n) <=> RMP!createRoom(p, c, n)
    /\ \A id, p : RM!joinRoom(id, p) <=> RMP!joinRoom(id, p)
    /\ \A id, p : RM!leaveRoom(id, p) <=> RMP!leaveRoom(id, p)
    /\ \A id, p, b : RM!setReadyOf(id, p, b) <=> RMP!setReadyOf(id, p, b)
    /\ \A id, p, c : RM!setCapacityOf(id, p, c) <=> RMP!setCapacityOf(id, p, c)
    /\ \A id, p : RM!startGameOf(id, p) <=> RMP!startGameOf(id, p)
    /\ \A id, p : RM!dissolveRoom(id, p) <=> RMP!dissolveRoom(id, p)
    /\ RM!exit <=> RMP!exit
<1>1. \A op, id, p, res : RM!Return(op, id, p, res) <=> RMP!Return(op, id, p, res)
    BY DEF RM!Return, RMP!Return
<1>2. /\ \A op, id, p : RM!NotFound(op, id, p) <=> RMP!NotFound(op, id, p)
      /\ \A op, id, p, o : RM!OnRoom(op, id, p, o) <=> RMP!OnRoom(op, id, p, o)
    BY <1>1 DEF RM!NotFound, RMP!NotFound,
          RM!OnRoom, RMP!OnRoom
<1>3. /\ \A f, k, v : RM!Put(f, k, v) = RMP!Put(f, k, v)
      /\ \A f, k : RM!Erase(f, k) = RMP!Erase(f, k)
    BY DEF RM!Put, RMP!Put,
          RM!Erase, RMP!Erase
<1>4. ASSUME NEW p, NEW c, NEW n
      PROVE  RM!createRoom(p, c, n) <=> RMP!createRoom(p, c, n)
    <2>1. RM!createFresh(p, c, n) <=> RMP!createFresh(p, c, n)
        BY <1>1, <1>3, SameRoom DEF RM!createFresh, RMP!createFresh,
          RM!CounterGoesOn, RMP!CounterGoesOn,
          RM!NewId, RMP!NewId,
          RM!FreeCodes, RMP!FreeCodes
    <2>2. RM!createWithoutCode(p, c) <=> RMP!createWithoutCode(p, c)
        BY <1>1 DEF RM!createWithoutCode, RMP!createWithoutCode,
          RM!CounterGoesOn, RMP!CounterGoesOn
    <2>3. RM!createBadCapacity(p, c) <=> RMP!createBadCapacity(p, c)
        BY <1>1 DEF RM!createBadCapacity, RMP!createBadCapacity
    <2> QED
        BY <2>1, <2>2, <2>3 DEF RM!createRoom, RMP!createRoom
<1>5. ASSUME NEW id, NEW p
      PROVE  RM!joinRoom(id, p) <=> RMP!joinRoom(id, p)
    BY <1>2, SameRoom DEF RM!joinRoom, RMP!joinRoom
<1>6. ASSUME NEW id, NEW p
      PROVE  RM!leaveRoom(id, p) <=> RMP!leaveRoom(id, p)
    BY <1>1, <1>2, <1>3, SameRoom DEF RM!leaveRoom, RMP!leaveRoom
<1>7. ASSUME NEW id, NEW p, NEW b
      PROVE  RM!setReadyOf(id, p, b) <=> RMP!setReadyOf(id, p, b)
    BY <1>2, SameRoom DEF RM!setReadyOf, RMP!setReadyOf
<1>8. ASSUME NEW id, NEW p, NEW c
      PROVE  RM!setCapacityOf(id, p, c) <=> RMP!setCapacityOf(id, p, c)
    BY <1>2, SameRoom DEF RM!setCapacityOf, RMP!setCapacityOf
<1>9. ASSUME NEW id, NEW p
      PROVE  RM!startGameOf(id, p) <=> RMP!startGameOf(id, p)
    BY <1>2, SameRoom DEF RM!startGameOf, RMP!startGameOf
<1>10. ASSUME NEW id, NEW p
       PROVE  RM!dissolveRoom(id, p) <=> RMP!dissolveRoom(id, p)
    BY <1>1, <1>2, <1>3, SameRoom DEF RM!dissolveRoom, RMP!dissolveRoom
<1>11. RM!exit <=> RMP!exit
    BY DEF RM!exit, RMP!exit
<1> QED
    BY <1>4, <1>5, <1>6, <1>7, <1>8, <1>9, <1>10, <1>11

LEMMA SameManager ==
    /\ RM!Init <=> RMP!Init
    /\ RM!Next <=> RMP!Next
    /\ RM!vars = RMP!vars
    /\ RM!TypeOK <=> RMP!TypeOK
    /\ \A id : RM!Members(id) = RMP!Members(id)
    /\ \A code : RM!getRoomId(code) = RMP!getRoomId(code)
<1>1. RM!Next <=> RMP!Next
    BY SameCalls DEF RM!Next, RMP!Next
<1>2. \A id : RM!Members(id) = RMP!Members(id)
    BY DEF RM!Members, RMP!Members,
          RM!ToSet, RMP!ToSet
<1>3. RM!TypeOK <=> RMP!TypeOK
    BY SameRoom DEF RM!TypeOK, RMP!TypeOK,
          RM!Ops, RMP!Ops
<1> QED
    BY <1>1, <1>2, <1>3 DEF RM!Init, RMP!Init,
          RM!vars, RMP!vars,
          RM!getRoomId, RMP!getRoomId

-----------------------------------------------------------------------------
(* The invariant.                                                          *)

\* Nobody asks for another capacity, and no request changes one.
RoomsOfFour == \A id \in DOMAIN rooms_ : rooms_[id].capacity = 4

\* Neither CurrentRoomBacked nor ViewIsMembership is inductive: a room's members
\* follow from the answers only as long as RoomManager's own invariant holds,
\* and the ids the codes lead to are ids of rooms made so far.
IInv ==
    /\ RMP!IInv
    /\ RoomsOfFour
    /\ TypeOK
    /\ next_room_id_ <= MaxRoomId + 1
    /\ CurrentRoomBacked
    /\ ViewIsMembership
    /\ HeardByMembersOnly

LEMMA RoomManagerTypes ==
    ASSUME IInv
    PROVE  /\ next_room_id_ \in Nat \ {0}
           /\ MaxRoomId \in Nat
           /\ DOMAIN rooms_ \subseteq 1..(next_room_id_ - 1)
           /\ code_to_id_ \in [DOMAIN code_to_id_ -> 1..(next_room_id_ - 1)]
BY LobbyAssumption DEF IInv, RMP!IInv, RMP!TypeOK

LEMMA CastsKeep ==
    ASSUME IInv
    PROVE  \A id \in 0..(next_room_id_ - 1) : AsInt(id) = id
<1>1. next_room_id_ \in 1..(MaxRoomId + 1) /\ MaxRoomId \in Nat
    BY LobbyAssumption DEF IInv, RMP!IInv, RMP!TypeOK
<1> QED
    BY <1>1, CastKeeps

\* A code leads to no room or to a room made so far.
LEMMA CodeLeadsToRoom ==
    ASSUME IInv, NEW code, RM!getRoomId(code) # 0
    PROVE  RM!getRoomId(code) \in 1..(next_room_id_ - 1)
BY RoomManagerTypes DEF RM!getRoomId

\* What a task finds at the head of the inbox.
LEMMA NextPacket ==
    ASSUME IInv, NEW u \in Players, inbox[u] # <<>>
    PROVE  /\ Head(inbox[u]) \in Packet
           /\ Tail(inbox[u]) \in Seq(Packet)
BY HeadTailProperties DEF IInv, TypeOK

LEMMA InboxStep ==
    ASSUME IInv, Next
    PROVE  inbox' \in [Players -> Seq(Packet)]
<1>0. inbox \in [Players -> Seq(Packet)]
    BY DEF IInv, TypeOK
<1>1. CASE \E u \in Players : Accept(u) \/ Close(u)
    BY <1>0, <1>1 DEF Accept, Close
<1>2. CASE \E u \in Players, pkt \in Packet : Receive(u, pkt)
    BY <1>0, <1>2 DEF Receive
<1>3. CASE \E u \in Players : Dispatch(u)
    BY <1>0, <1>3, NextPacket DEF Dispatch
<1>4. CASE Stop
    BY <1>0, <1>4 DEF Stop
<1> QED
    BY <1>1, <1>2, <1>3, <1>4 DEF Next

-----------------------------------------------------------------------------
(* The calls.                                                              *)

LEMMA CallsOfRoomManager ==
    ASSUME IInv
    PROVE  /\ \A u \in Players, id \in 1..(next_room_id_ - 1) :
                  RM!joinRoom(id, u) \/ RM!leaveRoom(id, u) => RM!Next
           /\ \A u \in Players, n \in RoomNames : RM!createRoom(u, 4, n) => RM!Next
           /\ RM!exit => RM!Next
<1>1. 1..(next_room_id_ - 1) \subseteq 1..MaxRoomId
    BY RoomManagerTypes DEF IInv
<1> QED
    BY <1>1 DEF RM!Next

LEMMA RoomsStep ==
    ASSUME IInv, RM!Next
    PROVE  /\ RMP!IInv'
           /\ RM!TypeOK'
           /\ rooms_' \in [DOMAIN rooms_' -> RM!RoomObject]
<1>1. RMP!IInv'
    BY SameManager, RoomManagerAssumptions, RMP!NextIInv DEF IInv
<1>2. RMP!TypeOK'
    BY <1>1 DEF RMP!IInv
<1>3. RM!TypeOK'
    BY <1>2, SameRoom DEF RM!TypeOK, RMP!TypeOK, RM!Ops, RMP!Ops
<1> QED
    BY <1>1, <1>3 DEF RM!TypeOK

-----------------------------------------------------------------------------
(* What a step does to the rooms and to CurrentRoomId, and whom it tells.  *)

\* The rooms and CurrentRoomId are left alone.
Idle == UNCHANGED <<roomVars, CurrentRoomId>>

NoCopies(msgs) == \A k \in 1..Len(msgs) : msgs[k].kind \notin Broadcasts

\* Nobody learns of a room.
Replies ==
    /\ Idle /\ UNCHANGED view
    /\ sent' \in Seq(Message) /\ NoCopies(sent')

Talks ==
    \E u \in Players :
        /\ Idle /\ UNCHANGED view
        /\ sent' = Copies(rooms_, CurrentRoomId[u], "chat")

\* The process ends, with the rooms as they are.
Ends ==
    /\ RM!exit /\ UNCHANGED <<CurrentRoomId, view>>
    /\ sent' = <<>>

Learns(u, kind, id, res) ==
    view' = [view EXCEPT ![u] = IF res # "OK" THEN @
                                ELSE IF kind = "leave" THEN @ \ {id} ELSE @ \cup {id}]

\* A request of u is answered, and then others are told.
Answers(u, kind, id, res, copies) ==
    /\ sent' = <<Answer(u, kind, id, res)>> \o copies
    /\ Learns(u, kind, id, res)

Creates ==
    \E u \in Players, n \in RoomNames :
        /\ RM!createRoom(u, 4, n) /\ UNCHANGED CurrentRoomId
        /\ Answers(u, "create", ret'.room, ret'.res, <<>>)

Joins ==
    \E u \in Players, id \in 1..(next_room_id_ - 1) :
        /\ RM!joinRoom(id, u) /\ moveTo(u, id, ret'.res)
        /\ Answers(u, "join", id, ret'.res, Copies(rooms_', CurrentRoomId'[u], "JOINED_ROOM"))

Leaves ==
    \E u \in Players, id \in 1..(next_room_id_ - 1) :
        /\ RM!leaveRoom(id, u) /\ moveTo(u, 0, ret'.res)
        /\ IF ret'.res = "BLOCKED"
           THEN sent' = <<>> /\ UNCHANGED view
           ELSE Answers(u, "leave", id, ret'.res, <<>>)

LEMMA AloneIsConcat == \A x : <<x>> = <<x>> \o <<>>
<1> TAKE x
<1>1. <<x>> \in Seq({x})
    OBVIOUS
<1> QED
    BY <1>1, ConcatEmptySeq

LEMMA CopiesAre ==
    ASSUME NEW rooms, NEW id, NEW kind \in Broadcasts
    PROVE  \A k \in DOMAIN Copies(rooms, id, kind) :
               Copies(rooms, id, kind)[k].kind = kind
BY DEF Copies, Answer

LEMMA CopiesTyped ==
    ASSUME NEW rooms, rooms \in [DOMAIN rooms -> RM!RoomObject], NEW id \in Nat, NEW kind \in Broadcasts
    PROVE  /\ Copies(rooms, id, kind) \in Seq(Message)
           /\ \A k \in 1..Len(Copies(rooms, id, kind)) :
                  Copies(rooms, id, kind)[k].kind \in Broadcasts
<1> DEFINE targets == RM!RoomBroadCast(rooms, id)
<1>1. targets \in Seq(Players)
    BY DEF RM!RoomBroadCast, RM!RoomObject
<1> HIDE DEF targets
<1>2. \A k \in DOMAIN targets : Answer(targets[k], kind, id, "OK") \in Message
    BY <1>1 DEF Answer, Message, RM!RoomResult
<1>3. [k \in DOMAIN targets |-> Answer(targets[k], kind, id, "OK")] \in Seq(Message)
    BY <1>1, <1>2
<1>4. Copies(rooms, id, kind) \in Seq(Message)
    BY <1>3 DEF Copies, targets
<1> QED
    BY <1>4, CopiesAre, LenProperties

\* Copies of what was said tell nobody where it is.
LEMMA CopiesTellNothing ==
    ASSUME IInv, NEW rooms, NEW id, NEW kind \in Broadcasts, Send(Copies(rooms, id, kind))
    PROVE  view' = view
<1>1. \A u : /\ Told(Copies(rooms, id, kind), u, {"create", "join"}) = {}
             /\ Told(Copies(rooms, id, kind), u, {"leave"}) = {}
    BY CopiesAre DEF Told, ToSet, Broadcasts
<1> QED
    BY <1>1 DEF Send, IInv, TypeOK

LEMMA NothingToldNothingLearnt ==
    ASSUME IInv, Send(<<>>)
    PROVE  view' = view
<1>1. \A u, kinds : Told(<<>>, u, kinds) = {}
    BY DEF Told, ToSet
<1> QED
    BY <1>1 DEF Send, IInv, TypeOK

\* Of one answer alone, or with copies behind it, only the answer tells.
LEMMA AnswerTells ==
    ASSUME IInv, NEW u \in Players, NEW kind, NEW id, NEW res,
           kind \in {"create", "join", "leave"},
           NEW copies \in Seq(Message),
           \A k \in 1..Len(copies) : copies[k].kind \in Broadcasts,
           Send(<<Answer(u, kind, id, res)>> \o copies)
    PROVE  Learns(u, kind, id, res)
<1> DEFINE a == Answer(u, kind, id, res)
           msgs == <<a>> \o copies
<1>1. ToSet(msgs) = {a} \cup ToSet(copies)
    <2>1. /\ DOMAIN msgs = 1..(1 + Len(copies))
          /\ msgs[1] = a
          /\ \A i \in 2..(1 + Len(copies)) : msgs[i] = copies[i - 1]
        BY LenProperties
    <2>2. \A i \in 1..Len(copies) : msgs[i + 1] = copies[i]
        BY <2>1, LenProperties
    <2> HIDE DEF msgs
    <2>3. DOMAIN copies = 1..Len(copies) /\ Len(copies) \in Nat
        BY LenProperties
    <2>4. ASSUME NEW x \in ToSet(msgs)
          PROVE  x \in {a} \cup ToSet(copies)
        <3>1. PICK i \in 1..(1 + Len(copies)) : x = msgs[i]
            BY <2>1 DEF ToSet
        <3>2. i # 1 => i - 1 \in DOMAIN copies /\ x = copies[i - 1]
            BY <2>1, <2>3, <3>1
        <3> QED
            BY <2>1, <3>1, <3>2 DEF ToSet
    <2>5. ASSUME NEW x \in ToSet(copies)
          PROVE  x \in ToSet(msgs)
        <3>1. PICK i \in 1..Len(copies) : x = copies[i]
            BY <2>3 DEF ToSet
        <3>2. i + 1 \in DOMAIN msgs /\ x = msgs[i + 1]
            BY <2>1, <2>2, <2>3, <3>1
        <3> QED
            BY <3>2 DEF ToSet
    <2>6. a \in ToSet(msgs)
        BY <2>1, <2>3 DEF ToSet
    <2> QED
        BY <2>4, <2>5, <2>6
<1>2. \A x \in ToSet(copies) : x.kind \in Broadcasts
    BY LenProperties DEF ToSet
<1>3. /\ a.to = u /\ a.kind = kind /\ a.room = id /\ a.res = res
    BY DEF Answer
<1> HIDE DEF a, msgs
<1>4. \A p, kinds : kinds \cap Broadcasts = {} =>
          Told(msgs, p, kinds) = IF p = u /\ kind \in kinds /\ res = "OK" THEN {id} ELSE {}
    BY <1>1, <1>2, <1>3 DEF Told
<1>5. view' = [p \in Players |-> (view[p] \cup Told(msgs, p, {"create", "join"}))
                                    \ Told(msgs, p, {"leave"})]
    BY DEF Send, msgs, a
<1>6. \A p \in Players :
          view'[p] = IF p # u \/ res # "OK" THEN view[p]
                     ELSE IF kind = "leave" THEN view[p] \ {id} ELSE view[p] \cup {id}
    BY <1>4, <1>5 DEF Broadcasts
<1> QED
    BY <1>5, <1>6 DEF Learns, IInv, TypeOK

LEMMA AloneTells ==
    ASSUME IInv, NEW u \in Players, NEW kind \in {"create", "leave"}, NEW id, NEW res,
           Send(<<Answer(u, kind, id, res)>>)
    PROVE  Learns(u, kind, id, res)
<1> DEFINE none == <<>>
<1>1. none \in Seq(Message) /\ \A k \in 1..Len(none) : none[k].kind \in Broadcasts
    OBVIOUS
<1>2. <<Answer(u, kind, id, res)>> = <<Answer(u, kind, id, res)>> \o none
    BY AloneIsConcat
<1> HIDE DEF none
<1>3. Send(<<Answer(u, kind, id, res)>> \o none)
    BY <1>2
<1> QED
    BY <1>1, <1>3, AnswerTells

\* An answer that tells nobody of a room.
Plain(m) ==
    /\ m \in Message /\ m.kind \notin Broadcasts
    /\ m.res # "OK" \/ m.kind \notin {"create", "join", "leave"}

LEMMA PlainReplies ==
    ASSUME IInv, NEW m, Plain(m), Send(<<m>>), Idle
    PROVE  Replies
<1>1. <<m>> \in Seq(Message) /\ NoCopies(<<m>>)
    BY DEF Plain, NoCopies
<1>2. ToSet(<<m>>) = {m}
    BY DEF ToSet
<1>3. \A p : Told(<<m>>, p, {"create", "join"}) = {} /\ Told(<<m>>, p, {"leave"}) = {}
    BY <1>2 DEF Told, Plain
<1>4. view' = view
    BY <1>3 DEF Send, IInv, TypeOK
<1> QED
    BY <1>1, <1>4 DEF Replies, Send

LEMMA JoinKinds ==
    ASSUME IInv, NEW u \in Players, NEW code, join(u, code)
    PROVE  Replies \/ Joins
<1> DEFINE id == RM!getRoomId(code)
<1>1. CASE id = 0
    <2>1. Plain(Answer(u, "join", 0, "NOT_FOUND"))
        BY DEF Answer, Plain, Message, RM!RoomResult, Broadcasts
    <2> QED
        BY <1>1, <2>1, PlainReplies DEF join, Idle
<1>2. CASE id # 0
    <2> DEFINE copies == Copies(rooms_', CurrentRoomId'[u], "JOINED_ROOM")
    <2>1. /\ RM!joinRoom(id, u) /\ moveTo(u, id, ret'.res)
          /\ Send(<<Answer(u, "join", id, ret'.res)>> \o copies)
        BY <1>2 DEF join, AnswerThen
    <2>2. id \in 1..(next_room_id_ - 1)
        BY <1>2, CodeLeadsToRoom
    <2>3. copies \in Seq(Message) /\ \A k \in 1..Len(copies) : copies[k].kind \in Broadcasts
        <3>1. rooms_' \in [DOMAIN rooms_' -> RM!RoomObject]
            BY <2>1, <2>2, CallsOfRoomManager, RoomsStep
        <3>2. CurrentRoomId'[u] \in Nat
            BY <2>1, <2>2, RoomManagerTypes, CastsKeep DEF moveTo, setPlayerRoom, IInv, TypeOK
        <3> QED
            BY <3>1, <3>2, CopiesTyped DEF Broadcasts
    <2>4. Learns(u, "join", id, ret'.res)
        BY <2>1, <2>3, AnswerTells
    <2> QED
        BY <2>1, <2>2, <2>4 DEF Joins, Answers, Send
<1> QED
    BY <1>1, <1>2

LEMMA LeaveKinds ==
    ASSUME IInv, NEW u \in Players, NEW code, leave(u, code)
    PROVE  Replies \/ Leaves
<1> DEFINE id == RM!getRoomId(code)
<1>1. CASE id = 0
    BY <1>1, NothingToldNothingLearnt DEF leave, Idle, Replies, NoCopies, Send
<1>2. CASE id # 0
    <2>1. /\ RM!leaveRoom(id, u) /\ moveTo(u, 0, ret'.res)
          /\ id \in 1..(next_room_id_ - 1)
        BY <1>2, CodeLeadsToRoom DEF leave
    <2>2. CASE ret'.res = "BLOCKED"
        BY <1>2, <2>1, <2>2, NothingToldNothingLearnt DEF leave, Leaves, Send
    <2>3. CASE ret'.res # "BLOCKED"
        <3>1. Send(<<Answer(u, "leave", id, ret'.res)>>)
            BY <1>2, <2>3 DEF leave
        <3>2. Learns(u, "leave", id, ret'.res)
            BY <3>1, AloneTells
        <3>3. sent' = <<Answer(u, "leave", id, ret'.res)>> \o <<>>
            BY <3>1, AloneIsConcat DEF Send
        <3> QED
            BY <2>1, <2>3, <3>2, <3>3 DEF Leaves, Answers
    <2> QED
        BY <2>2, <2>3
<1> QED
    BY <1>1, <1>2

\* No step does anything else.
LEMMA StepKinds ==
    ASSUME IInv, Next
    PROVE  Replies \/ Talks \/ Ends \/ Creates \/ Joins \/ Leaves
<1>1. CASE \E u \in Players : Accept(u) \/ Close(u)
    <2>1. PICK u \in Players : Accept(u) \/ Close(u)
        BY <1>1
    <2>2. CASE Accept(u) /\ Throw
        BY <2>2 DEF Throw, Ends
    <2>3. CASE Accept(u) /\ ~Throw
        <3>1. Send(<<Answer(u, "welcome", 0, "OK")>>) /\ Idle
            BY <2>3 DEF Accept, Idle
        <3>2. Plain(Answer(u, "welcome", 0, "OK"))
            BY DEF Answer, Plain, Message, RM!RoomResult, Broadcasts
        <3> QED
            BY <3>1, <3>2, PlainReplies
    <2>4. CASE Close(u)
        BY <2>4 DEF Close, Idle, Replies, NoCopies
    <2> QED
        BY <2>1, <2>2, <2>3, <2>4
<1>2. CASE \E u \in Players, pkt \in Packet : Receive(u, pkt)
    BY <1>2 DEF Receive, Idle, Replies, NoCopies
<1>3. CASE \E u \in Players : Dispatch(u)
    <2> DEFINE pkt(u) == Head(inbox[u])
    <2>1. PICK u \in Players : Dispatch(u)
        BY <1>3
    <2>2. pkt(u) \in Packet
        BY <2>1, NextPacket DEF Dispatch
    <2> HIDE DEF pkt
    <2>3. CASE pkt(u).kind = "chat" /\ chat(u, pkt(u).arg)
        BY <2>3, CopiesTellNothing DEF chat, Throw, Idle, Ends, Talks, Send, Broadcasts
    <2>4. CASE pkt(u).kind = "create" /\ create(u, pkt(u).arg)
        <3>1. pkt(u).arg \in RoomNames
            BY <2>2, <2>4 DEF Packet
        <3>2. Send(<<Answer(u, "create", ret'.room, ret'.res)>>)
            BY <2>4 DEF create
        <3>3. Learns(u, "create", ret'.room, ret'.res)
            BY <3>2, AloneTells
        <3>4. sent' = <<Answer(u, "create", ret'.room, ret'.res)>> \o <<>>
            BY <3>2, AloneIsConcat DEF Send
        <3> QED
            BY <2>4, <3>1, <3>3, <3>4 DEF create, Creates, Answers
    <2>5. CASE pkt(u).kind = "cut" /\ Throw
        BY <2>5 DEF Throw, Ends
    <2>6. CASE pkt(u).kind = "join" /\ join(u, pkt(u).arg)
        BY <2>6, JoinKinds
    <2>7. CASE pkt(u).kind = "leave" /\ leave(u, pkt(u).arg)
        BY <2>7, LeaveKinds
    <2>8. CASE pkt(u).kind = "list" /\ list(u)
        <3>1. Plain(Answer(u, "list", 0, "OK"))
            BY DEF Answer, Plain, Message, RM!RoomResult, Broadcasts
        <3> QED
            BY <2>8, <3>1, PlainReplies DEF list, Throw, Idle, Ends
    <2>9. CASE pkt(u).kind = "ignored" /\ ignored
        BY <2>9, NothingToldNothingLearnt DEF ignored, Idle, Replies, NoCopies, Send
    <2> QED
        BY <2>1, <2>3, <2>4, <2>5, <2>6, <2>7, <2>8, <2>9 DEF Dispatch, pkt
<1>4. CASE Stop
    BY <1>4 DEF Stop, Throw, Ends
<1> QED
    BY <1>1, <1>2, <1>3, <1>4 DEF Next

\* Each of them is a step of RoomManager, or none.
LEMMA StepOfRoomManager ==
    ASSUME IInv
    PROVE  /\ Ends \/ Creates \/ Joins \/ Leaves => RM!Next
           /\ [Next]_vars => [RM!Next]_(RM!vars)
<1>1. Ends \/ Creates \/ Joins \/ Leaves => RM!Next
    BY CallsOfRoomManager DEF Ends, Creates, Joins, Leaves
<1>2. Replies \/ Talks \/ UNCHANGED vars => UNCHANGED RM!vars
    BY DEF Replies, Talks, Idle, vars, roomVars, RM!vars
<1> QED
    BY <1>1, <1>2, StepKinds

-----------------------------------------------------------------------------
(* The steps keep the invariant.                                           *)

LEMMA CountersStep ==
    ASSUME IInv, Next
    PROVE  /\ next_room_id_' <= MaxRoomId + 1
           /\ next_room_id_' >= next_room_id_
           /\ CurrentRoomId' \in [Players -> 0..(next_room_id_' - 1)]
<1>1. /\ next_room_id_ \in Nat \ {0}
      /\ next_room_id_ <= MaxRoomId + 1
      /\ MaxRoomId \in Nat
      /\ CurrentRoomId \in [Players -> 0..(next_room_id_ - 1)]
    BY RoomManagerTypes DEF IInv, TypeOK
<1>2. CASE Replies \/ Talks \/ Ends
    BY <1>1, <1>2 DEF Replies, Talks, Ends, Idle, roomVars, RM!exit
<1>3. CASE Creates
    BY <1>1, <1>3 DEF Creates, RM!createRoom, RM!createFresh, RM!createWithoutCode,
                      RM!createBadCapacity, RM!CounterGoesOn
<1>4. CASE Joins \/ Leaves
    <2>1. next_room_id_' = next_room_id_
        BY <1>4 DEF Joins, Leaves, RM!joinRoom, RM!leaveRoom
    <2>2. PICK u \in Players, id \in 0..(next_room_id_ - 1) : moveTo(u, id, ret'.res)
        BY <1>1, <1>4 DEF Joins, Leaves
    <2> QED
        BY <1>1, <2>1, <2>2, CastsKeep DEF moveTo, setPlayerRoom
<1> QED
    BY <1>2, <1>3, <1>4, StepKinds

\* A request that was carried out, and what it returned.
Called(op, u, id) ==
    /\ RM!Next
    /\ thread = "running"
    /\ thread' = IF ret'.res = "BLOCKED" THEN "blocked" ELSE thread
    /\ ret' = [op |-> op, room |-> id, player |-> u, res |-> ret'.res]

LEMMA CalledAre ==
    ASSUME IInv
    PROVE  /\ \A u \in Players, n \in RoomNames :
                  RM!createRoom(u, 4, n) =>
                      /\ Called("createRoom", u, ret'.room)
                      /\ thread' = "running"
                      /\ ret'.res = "OK" => ret'.room = next_room_id_ /\ next_room_id_ <= MaxRoomId
                                              /\ next_room_id_' = next_room_id_ + 1
           /\ \A u \in Players, id \in 1..(next_room_id_ - 1) :
                  /\ RM!joinRoom(id, u) => Called("joinRoom", u, id)
                  /\ RM!leaveRoom(id, u) =>
                         /\ Called("leaveRoom", u, id)
                         /\ thread' = "blocked" <=> ret'.res = "BLOCKED"
<1> USE DEF Called, RM!Return
<1>1. ASSUME NEW u \in Players, NEW n \in RoomNames, RM!createRoom(u, 4, n)
      PROVE  /\ Called("createRoom", u, ret'.room)
             /\ thread' = "running"
             /\ ret'.res = "OK" => ret'.room = next_room_id_ /\ next_room_id_ <= MaxRoomId
                                     /\ next_room_id_' = next_room_id_ + 1
    BY <1>1, CallsOfRoomManager
    DEF RM!createRoom, RM!createFresh, RM!createWithoutCode, RM!createBadCapacity,
        RM!NewId, RM!CounterGoesOn
<1>2. ASSUME NEW u \in Players, NEW id \in 1..(next_room_id_ - 1), RM!joinRoom(id, u)
      PROVE  Called("joinRoom", u, id)
    BY <1>2, CallsOfRoomManager DEF RM!joinRoom, RM!NotFound, RM!OnRoom
<1>3. ASSUME NEW u \in Players, NEW id \in 1..(next_room_id_ - 1), RM!leaveRoom(id, u)
      PROVE  /\ Called("leaveRoom", u, id)
             /\ thread' = "blocked" <=> ret'.res = "BLOCKED"
    BY <1>3, CallsOfRoomManager DEF RM!leaveRoom, RM!NotFound, RM!OnRoom
<1> QED
    BY <1>1, <1>2, <1>3

\* Nobody else moves, and the caller only as it is told.
LEMMA MembersFollow ==
    ASSUME IInv, RM!Next, thread' = "running",
           NEW p \in Players, NEW id \in 1..MaxRoomId
    PROVE  /\ ret'.op \in {"createRoom", "joinRoom"} /\ ret'.player = p
               /\ ret'.room = id /\ ret'.res = "OK"
               => p \notin RM!Members(id) /\ (p \in RM!Members(id))'
           /\ ret'.op \in {"leaveRoom"} /\ ret'.player = p
               /\ ret'.room = id /\ ret'.res = "OK"
               => ~(p \in RM!Members(id))'
           /\ ret'.op \in {"createRoom", "joinRoom", "leaveRoom"}
               /\ ~(ret'.player = p /\ ret'.room = id /\ ret'.res = "OK")
               => (p \in RM!Members(id) <=> (p \in RM!Members(id))')
<1>1. RMP!MembersMatchAnswer
    BY SameManager, RoomManagerAssumptions, RMP!NextMembersMatchAnswer DEF IInv
<1>2. (\A x : RM!Members(x) = RMP!Members(x))'
    BY DEF RM!Members, RMP!Members, RM!ToSet, RMP!ToSet
<1> QED
    BY <1>1, <1>2, SameManager DEF RMP!MembersMatchAnswer, RMP!Got

-----------------------------------------------------------------------------
(* What clients conclude from the answers is so.                           *)

\* Rooms with somebody in them were made before.
LEMMA MembersInRange ==
    ASSUME RM!TypeOK, next_room_id_ <= MaxRoomId + 1
    PROVE  \A id, p : p \in RM!Members(id) =>
               id \in DOMAIN rooms_ /\ id \in 1..(next_room_id_ - 1) /\ id \in 1..MaxRoomId
BY LobbyAssumption DEF RM!TypeOK, RM!Members

LEMMA ViewMeans ==
    ASSUME IInv, thread # "blocked", NEW p \in Players
    PROVE  /\ \A id : id \in view[p] <=> p \in RM!Members(id)
           /\ \A id \in view[p] : id \in 1..MaxRoomId
BY MembersInRange DEF IInv, TypeOK, ViewIsMembership

LEMMA ViewStep ==
    ASSUME IInv, Next
    PROVE  ViewIsMembership' /\ view' \in [Players -> SUBSET (1..(next_room_id_' - 1))]
<1>0. /\ view \in [Players -> SUBSET (1..(next_room_id_ - 1))]
      /\ next_room_id_ \in Nat /\ next_room_id_' \in Nat /\ next_room_id_' >= next_room_id_
      /\ \A p \in Players : \A id \in view[p] : id \in 1..(next_room_id_' - 1)
      /\ next_room_id_' <= MaxRoomId + 1
    <2>1. [RM!Next]_(RM!vars) /\ RM!TypeOK'
        BY StepOfRoomManager, RoomsStep DEF IInv, TypeOK, RM!TypeOK, RM!vars
    <2> QED
        BY <2>1, CountersStep DEF IInv, TypeOK, RM!TypeOK
<1>1. CASE Replies \/ Talks \/ Ends
    <2>1. view' = view /\ rooms_' = rooms_ /\ (thread' = thread \/ thread = "running")
        BY <1>1 DEF Replies, Talks, Ends, Idle, roomVars, RM!exit
    <2>2. ViewIsMembership'
        BY <2>1 DEF IInv, ViewIsMembership, RM!Members
    <2> QED
        BY <1>0, <2>1, <2>2
<1>2. CASE Creates \/ Joins \/ Leaves
    <2> DEFINE Tells(op, u, id) ==
                   /\ Called(op, u, id)
                   /\ \/ view' = view /\ thread' = "blocked"
                      \/ \E kind : /\ Learns(u, kind, id, ret'.res)
                                   /\ kind = "leave" <=> op = "leaveRoom"
                   /\ ret'.res = "OK" => id \in 1..MaxRoomId /\ id \in 1..(next_room_id_' - 1)
    <2>0. \E op \in {"createRoom", "joinRoom", "leaveRoom"}, u \in Players, id \in Nat :
              Tells(op, u, id)
        <3>1. CASE Creates
            <4>1. PICK u \in Players, n \in RoomNames :
                      RM!createRoom(u, 4, n) /\ Learns(u, "create", ret'.room, ret'.res)
                BY <3>1 DEF Creates, Answers
            <4>2. ret'.room \in Nat
                BY <4>1, CallsOfRoomManager, RoomsStep DEF RM!TypeOK
            <4>3. Tells("createRoom", u, ret'.room)
                BY <1>0, <4>1, CalledAre, RoomManagerTypes
            <4> QED
                BY <4>2, <4>3
        <3>2. CASE Joins
            <4>1. PICK u \in Players, id \in 1..(next_room_id_ - 1) :
                      RM!joinRoom(id, u) /\ Learns(u, "join", id, ret'.res)
                BY <3>2 DEF Joins, Answers
            <4>2. Tells("joinRoom", u, id) /\ id \in Nat
                BY <1>0, <4>1, CalledAre, RoomManagerTypes
            <4> QED
                BY <4>2
        <3>3. CASE Leaves
            <4>1. PICK u \in Players, id \in 1..(next_room_id_ - 1) :
                      /\ RM!leaveRoom(id, u)
                      /\ \/ ret'.res = "BLOCKED" /\ view' = view
                         \/ Learns(u, "leave", id, ret'.res)
                BY <3>3 DEF Leaves, Answers
            <4>2. Tells("leaveRoom", u, id) /\ id \in Nat
                BY <1>0, <4>1, CalledAre, RoomManagerTypes
            <4> QED
                BY <4>2
        <3> QED
            BY <1>2, <3>1, <3>2, <3>3
    <2>1. PICK op \in {"createRoom", "joinRoom", "leaveRoom"}, u \in Players, id \in Nat :
              Tells(op, u, id)
        BY <2>0
    <2>2. view' \in [Players -> SUBSET (1..(next_room_id_' - 1))]
        BY <1>0, <2>1 DEF Learns
    <2>3. ASSUME thread' # "blocked", NEW p \in Players, NEW r
          PROVE  r \in view'[p] <=> r \in DOMAIN rooms_' /\ (p \in RM!Members(r))'
        <3>1. thread = "running" /\ thread' = "running" /\ RM!Next
            BY <2>1, <2>3 DEF Called
        <3>2. r \in view[p] <=> p \in RM!Members(r)
            BY <3>1, ViewMeans
        <3>3. r \in view'[p] <=> IF p = u /\ r = id /\ ret'.res = "OK"
                                 THEN op # "leaveRoom" ELSE r \in view[p]
            BY <1>0, <2>1, <2>3 DEF Learns
        <3>4. (p \in RM!Members(r))' => r \in DOMAIN rooms_' /\ r \in 1..MaxRoomId
            BY <1>0, <3>1, RoomsStep, LobbyAssumption DEF RM!TypeOK, RM!Members
        <3>5. CASE r \in 1..MaxRoomId
            BY <2>1, <3>1, <3>2, <3>3, <3>4, <3>5, MembersFollow DEF Called
        <3>6. CASE r \notin 1..MaxRoomId
            BY <1>0, <2>1, <3>1, <3>2, <3>3, <3>4, <3>6, ViewMeans
        <3> QED
            BY <3>5, <3>6
    <2>4. ViewIsMembership'
        BY <2>2, <2>3 DEF ViewIsMembership
    <2> QED
        BY <2>2, <2>4
<1> QED
    BY <1>1, <1>2, StepKinds

\* Chat goes to rooms that exist and that hold the sender.
LEMMA BackedStep ==
    ASSUME IInv, Next
    PROVE  CurrentRoomBacked'
<1>1. CASE Replies \/ Talks \/ Ends
    BY <1>1 DEF Replies, Talks, Ends, Idle, roomVars, RM!exit, IInv, CurrentRoomBacked,
                RM!Members
<1>2. CASE Creates \/ Joins \/ Leaves
    <2> SUFFICES ASSUME thread' # "blocked", NEW p \in Players, CurrentRoomId'[p] # 0
                 PROVE  (p \in RM!Members(CurrentRoomId[p]))'
        BY DEF CurrentRoomBacked
    <2>1. PICK op \in {"createRoom", "joinRoom", "leaveRoom"}, u \in Players, id \in Nat :
              /\ Called(op, u, id)
              /\ \/ op = "createRoom" /\ CurrentRoomId' = CurrentRoomId
                 \/ op = "joinRoom" /\ moveTo(u, id, ret'.res) /\ id \in 1..(next_room_id_ - 1)
                 \/ op = "leaveRoom" /\ moveTo(u, 0, ret'.res)
        <3>1. ret'.room \in Nat /\ 1..(next_room_id_ - 1) \subseteq Nat
            BY <1>2, StepOfRoomManager, RoomsStep, RoomManagerTypes DEF RM!TypeOK
        <3> QED
            BY <1>2, <3>1, CalledAre DEF Creates, Joins, Leaves
    <2>2. thread = "running" /\ thread' = "running" /\ RM!Next
        BY <2>1 DEF Called
    <2>3. /\ CurrentRoomId \in [Players -> 0..(next_room_id_ - 1)]
          /\ 1..(next_room_id_ - 1) \subseteq 1..MaxRoomId
          /\ CurrentRoomId[p] # 0 =>
                 /\ CurrentRoomId[p] \in 1..MaxRoomId
                 /\ p \in RM!Members(CurrentRoomId[p])
        BY <2>2, RoomManagerTypes DEF IInv, TypeOK, CurrentRoomBacked
    <2>6. AsInt(0) = 0 /\ \A x \in 1..(next_room_id_ - 1) : AsInt(x) = x
        BY RoomManagerTypes, CastsKeep
    <2>4. CASE op = "joinRoom" /\ ret'.res = "OK" /\ p = u
        <3>1. CurrentRoomId'[p] = id /\ id \in 1..MaxRoomId
            BY <2>1, <2>3, <2>4, <2>6 DEF moveTo, setPlayerRoom
        <3> QED
            BY <2>1, <2>2, <2>4, <3>1, MembersFollow DEF Called
    <2>5. CASE ~(op = "joinRoom" /\ ret'.res = "OK" /\ p = u)
        <3>1. CurrentRoomId'[p] = CurrentRoomId[p]
            BY <2>1, <2>3, <2>5, <2>6 DEF moveTo, setPlayerRoom
        <3>2. ~(op = "leaveRoom" /\ ret'.res = "OK" /\ p = u)
            BY <2>1, <2>3, <2>6 DEF moveTo, setPlayerRoom
        <3> QED
            BY <2>1, <2>2, <2>3, <2>5, <3>1, <3>2, MembersFollow DEF Called
    <2> QED
        BY <2>4, <2>5
<1> QED
    BY <1>1, <1>2, StepKinds

-----------------------------------------------------------------------------
(* Who hears what.                                                         *)

LEMMA CopiesFor ==
    ASSUME RM!TypeOK, NEW id \in Nat, NEW kind \in Broadcasts
    PROVE  /\ Copies(rooms_, id, kind) \in Seq(Message)
           /\ \A k \in 1..Len(Copies(rooms_, id, kind)) :
                  LET m == Copies(rooms_, id, kind)[k]
                  IN m.kind = kind /\ m.room = id /\ m.to \in Players /\ m.to \in RM!Members(id)
<1> DEFINE targets == RM!RoomBroadCast(rooms_, id)
<1>1. /\ targets \in Seq(Players)
      /\ \A k \in DOMAIN targets : targets[k] \in RM!Members(id)
    BY DEF RM!RoomBroadCast, RM!RoomObject, RM!TypeOK, RM!Members, RM!ToSet
<1>2. Copies(rooms_, id, kind) = [k \in DOMAIN targets |-> Answer(targets[k], kind, id, "OK")]
    BY DEF Copies
<1> HIDE DEF targets
<1>3. Copies(rooms_, id, kind) \in Seq(Message)
    BY CopiesTyped DEF RM!TypeOK
<1>4. DOMAIN targets = 1..Len(Copies(rooms_, id, kind))
    BY <1>2, <1>3, LenProperties
<1> QED
    BY <1>1, <1>2, <1>3, <1>4 DEF Answer

\* The same after a step.
LEMMA CopiesForNext ==
    ASSUME RM!TypeOK', NEW id \in Nat, NEW kind \in Broadcasts
    PROVE  /\ Copies(rooms_', id, kind) \in Seq(Message)
           /\ \A k \in 1..Len(Copies(rooms_', id, kind)) :
                  LET m == Copies(rooms_', id, kind)[k]
                  IN m.kind = kind /\ m.room = id /\ m.to \in Players /\ m.to \in RM!Members(id)'
<1> DEFINE targets == RM!RoomBroadCast(rooms_', id)
<1>1. /\ targets \in Seq(Players)
      /\ \A k \in DOMAIN targets : targets[k] \in RM!Members(id)'
    BY DEF RM!RoomBroadCast, RM!RoomObject, RM!TypeOK, RM!Members, RM!ToSet
<1>2. Copies(rooms_', id, kind) = [k \in DOMAIN targets |-> Answer(targets[k], kind, id, "OK")]
    BY DEF Copies
<1> HIDE DEF targets
<1>3. Copies(rooms_', id, kind) \in Seq(Message)
    BY CopiesTyped DEF RM!TypeOK
<1>4. DOMAIN targets = 1..Len(Copies(rooms_', id, kind))
    BY <1>2, <1>3, LenProperties
<1> QED
    BY <1>1, <1>2, <1>3, <1>4 DEF Answer

\* An answer, and behind it copies to who is in the room now.
LEMMA AnswerThenCopies ==
    ASSUME NEW a \in Message, NEW copies \in Seq(Message)
    PROVE  LET msgs == <<a>> \o copies
           IN /\ msgs \in Seq(Message)
              /\ msgs[1] = a
              /\ DOMAIN msgs = 1..(1 + Len(copies))
              /\ \A k \in 2..(1 + Len(copies)) : msgs[k] = copies[k - 1]
BY ConcatProperties, LenProperties

\* join is never called inside another method of its room.
LEMMA JoinReturns ==
    ASSUME IInv, NEW u \in Players, NEW id, RM!joinRoom(id, u)
    PROVE  thread' # "blocked"
<1>1. CASE RM!NotFound("joinRoom", id, u)
    BY <1>1 DEF RM!joinRoom, RM!NotFound, RM!Return
<1>2. CASE id \in DOMAIN rooms_ /\ RM!OnRoom("joinRoom", id, u, RM!join(rooms_[id], u))
    <2>1. thread = "running" /\ ~rooms_[id].mu
        BY <1>2 DEF RM!joinRoom, IInv, RMP!IInv, RMP!RoomsAtRest, RMP!AtRest
    <2>2. RM!join(rooms_[id], u).res # "BLOCKED"
        BY <2>1 DEF RM!join, RM!Done
    <2> QED
        BY <1>2, <2>1, <2>2 DEF RM!OnRoom, RM!Return
<1> QED
    BY <1>1, <1>2 DEF RM!joinRoom

LEMMA NextRuns == Next => thread = "running"
BY DEF Next, Accept, Receive, Close, Dispatch, Stop, Throw, RM!exit

LEMMA HeardStep ==
    ASSUME IInv, Next
    PROVE  sent' \in Seq(Message) /\ HeardByMembersOnly'
<1> DEFINE Heard == {k \in 1..Len(sent') : sent'[k].kind \in Broadcasts}
<1>1. sent' \in Seq(Message) /\ Heard = {} => HeardByMembersOnly'
    BY LenProperties DEF HeardByMembersOnly
<1>2. CASE Replies
    BY <1>1, <1>2 DEF Replies, NoCopies
<1>2a. CASE Ends
    <2>1. sent' = <<>> /\ <<>> \in Seq(Message) /\ Len(<<>>) = 0
        BY <1>2a DEF Ends
    <2> QED
        BY <1>1, <2>1
<1>3. CASE Talks
    <2>1. PICK u \in Players : /\ sent' = Copies(rooms_, CurrentRoomId[u], "chat")
                               /\ view' = view /\ rooms_' = rooms_ /\ thread' = thread
        BY <1>3 DEF Talks, Idle, roomVars
    <2>2. /\ CurrentRoomId[u] \in Nat
          /\ RM!TypeOK
          /\ "chat" \in Broadcasts
        BY DEF IInv, TypeOK, RM!TypeOK, Broadcasts
    <2>3. /\ sent' \in Seq(Message)
          /\ \A k \in 1..Len(sent') : /\ sent'[k].kind = "chat"
                                     /\ sent'[k].room = CurrentRoomId[u]
                                     /\ sent'[k].to \in Players
                                     /\ sent'[k].to \in RM!Members(CurrentRoomId[u])
        BY <2>1, <2>2, CopiesFor
    <2>4. thread = "running"
        BY <1>3, NextRuns
    <2>5. ASSUME NEW k \in 1..Len(sent')
          PROVE  sent'[k].room \in view'[sent'[k].to]
        BY <2>1, <2>3, <2>4, ViewMeans
    <2> QED
        BY <2>3, <2>5, LenProperties DEF HeardByMembersOnly, Broadcasts
<1>4. CASE Creates \/ Leaves
    <2>1. RM!TypeOK'
        BY <1>4, StepOfRoomManager, RoomsStep
    <2>2. CASE sent' = <<>>
        BY <1>1, <2>2
    <2>3. CASE sent' # <<>>
        <3>1. PICK u \in Players, kind \in {"create", "leave"}, id \in Nat :
                  sent' = <<Answer(u, kind, id, ret'.res)>> \o <<>>
            BY <1>4, <2>1, <2>3 DEF Creates, Leaves, Answers, RM!TypeOK
        <3>2. Answer(u, kind, id, ret'.res) \in Message
            BY <2>1 DEF Answer, Message, RM!TypeOK
        <3>3. sent' = <<Answer(u, kind, id, ret'.res)>>
            BY <3>1, AloneIsConcat
        <3> QED
            BY <1>1, <3>2, <3>3 DEF Answer, Broadcasts
    <2> QED
        BY <2>2, <2>3
<1>5. CASE Joins
    <2>1. PICK u \in Players, id \in 1..(next_room_id_ - 1) :
              /\ RM!joinRoom(id, u)
              /\ sent' = <<Answer(u, "join", id, ret'.res)>>
                             \o Copies(rooms_', CurrentRoomId'[u], "JOINED_ROOM")
        BY <1>5 DEF Joins, Answers
    <2>2. RM!TypeOK' /\ CurrentRoomId'[u] \in Nat /\ "JOINED_ROOM" \in Broadcasts
        BY <2>1, CallsOfRoomManager, RoomsStep, CountersStep DEF RM!TypeOK, Broadcasts
    <2>2a. PICK r \in Nat : r = CurrentRoomId'[u]
        BY <2>2
    <2> DEFINE a == Answer(u, "join", id, ret'.res)
               copies == Copies(rooms_', r, "JOINED_ROOM")
    <2>3. /\ copies \in Seq(Message)
          /\ \A k \in 1..Len(copies) : /\ copies[k].kind = "JOINED_ROOM"
                                       /\ copies[k].room = r
                                       /\ copies[k].to \in Players
                                       /\ copies[k].to \in RM!Members(r)'
        BY <2>2, CopiesForNext
    <2>4. a \in Message /\ a.kind \notin Broadcasts /\ Len(copies) \in Nat
        BY <2>1, <2>2, <2>3, RoomManagerTypes, LenProperties DEF Answer, Message, Broadcasts, RM!TypeOK
    <2> HIDE DEF a, copies
    <2>5. /\ sent' \in Seq(Message)
          /\ sent'[1] = a
          /\ DOMAIN sent' = 1..(1 + Len(copies))
          /\ \A k \in 2..(1 + Len(copies)) : sent'[k] = copies[k - 1]
        BY <2>1, <2>2a, <2>3, <2>4, AnswerThenCopies DEF a, copies
    <2>6. \A p \in Players : \A x : (p \in RM!Members(x))' => x \in view'[p]
        <3>1. thread' # "blocked"
            BY <2>1, JoinReturns
        <3> QED
            BY <3>1, ViewStep DEF ViewIsMembership, RM!Members
    <2>7. \A k \in DOMAIN sent' : sent'[k].kind \in Broadcasts <=> k # 1
        BY <2>3, <2>4, <2>5 DEF Broadcasts
    <2>8. ASSUME NEW k \in DOMAIN sent', k # 1
          PROVE  sent'[k].room \in view'[sent'[k].to]
        <3>1. k - 1 \in 1..Len(copies) /\ sent'[k] = copies[k - 1]
            BY <2>4, <2>5, <2>8
        <3> QED
            BY <2>3, <2>6, <3>1
    <2>9. HeardByMembersOnly'
        BY <2>4, <2>5, <2>7, <2>8 DEF HeardByMembersOnly
    <2> QED
        BY <2>5, <2>9
<1> QED
    BY <1>2, <1>2a, <1>3, <1>4, <1>5, StepKinds

-----------------------------------------------------------------------------
(* The theorems.                                                           *)

LEMMA InitIInv == Init => IInv
<1> SUFFICES ASSUME Init
             PROVE  IInv
    OBVIOUS
<1>1. RMP!IInv
    BY SameManager, RoomManagerAssumptions, RMP!InitIInv DEF Init
<1>2. RM!TypeOK
    BY <1>1, SameManager DEF RMP!IInv
<1>3. TypeOK
    <2>1. sent \in Seq(Message) /\ <<>> \in Seq(Packet)
        BY DEF Init
    <2> QED
        BY <1>2, <2>1 DEF TypeOK, Init, RM!Init
<1>4. CurrentRoomBacked /\ ViewIsMembership
    BY DEF Init, RM!Init, CurrentRoomBacked, ViewIsMembership
<1>5. HeardByMembersOnly
    BY DEF Init, HeardByMembersOnly
<1> QED
    BY <1>1, <1>3, <1>4, <1>5, LobbyAssumption DEF IInv, Init, RM!Init, RoomsOfFour

LEMMA NothingChanges ==
    ASSUME IInv, UNCHANGED vars
    PROVE  IInv'
<1>1. RMP!IInv'
    <2>1. UNCHANGED RMP!vars
        BY DEF vars, roomVars, RMP!vars
    <2> QED
        BY <2>1, RoomManagerAssumptions, RMP!NextIInv DEF IInv
<1>2. RM!TypeOK'
    BY DEF IInv, TypeOK, RM!TypeOK, vars, roomVars
<1>3. TypeOK'
    BY <1>2 DEF IInv, TypeOK, vars, roomVars
<1>4. CurrentRoomBacked' /\ ViewIsMembership' /\ HeardByMembersOnly'
    BY DEF IInv, vars, roomVars, CurrentRoomBacked, ViewIsMembership, HeardByMembersOnly,
           RM!Members
<1> QED
    BY <1>1, <1>3, <1>4 DEF IInv, vars, roomVars, RoomsOfFour

LEMMA FourStep ==
    ASSUME IInv, Next
    PROVE  RoomsOfFour'
<1>1. CASE Replies \/ Talks \/ Ends
    BY <1>1 DEF Replies, Talks, Ends, Idle, roomVars, RM!exit, IInv, RoomsOfFour
<1>2. CASE Creates
    <2>1. PICK u \in Players, n \in RoomNames : RM!createRoom(u, 4, n)
        BY <1>2 DEF Creates
    <2>2. \A code \in Codes : RM!newRoom(code, n, 4, u).capacity = 4
        BY RMP!NewRoomAtRest, SameRoom, RoomManagerAssumptions
    <2>3. CASE RM!createFresh(u, 4, n)
        <3>1. PICK code \in Codes :
                  rooms_' = RM!Put(rooms_, next_room_id_, RM!newRoom(code, n, 4, u))
            BY <2>3 DEF RM!createFresh, RM!FreeCodes, RM!NewId
        <3> QED
            BY <2>2, <3>1 DEF IInv, RoomsOfFour, RM!Put
    <2>4. CASE rooms_' = rooms_
        BY <2>4 DEF IInv, RoomsOfFour
    <2> QED
        BY <2>1, <2>3, <2>4 DEF RM!createRoom, RM!createWithoutCode, RM!createBadCapacity
<1>3. CASE Joins \/ Leaves
    <2>1. PICK u \in Players, id \in Nat : RM!joinRoom(id, u) \/ RM!leaveRoom(id, u)
        BY <1>3, RoomManagerTypes DEF Joins, Leaves
    <2>2. \A x \in DOMAIN rooms_' :
              x \in DOMAIN rooms_ /\ rooms_'[x].capacity = rooms_[x].capacity
        BY <2>1, SameCalls, RoomManagerAssumptions, RMP!CapacitiesStay DEF IInv
    <2> QED
        BY <2>2 DEF IInv, RoomsOfFour
<1> QED
    BY <1>1, <1>2, <1>3, StepKinds

LEMMA TypesStep ==
    ASSUME IInv, Next
    PROVE  TypeOK'
<1>1. RM!TypeOK'
    <2>1. CASE UNCHANGED RM!vars
        BY <2>1 DEF IInv, TypeOK, RM!TypeOK, RM!vars
    <2>2. CASE RM!Next
        BY <2>2, RoomsStep
    <2> QED
        BY <2>1, <2>2, StepOfRoomManager
<1>2. session' \in [Players -> {"none", "open", "closed"}]
    <2>1. session \in [Players -> {"none", "open", "closed"}]
        BY DEF IInv, TypeOK
    <2> QED
        BY <2>1 DEF Next, Accept, Receive, Close, Dispatch, Stop
<1> QED
    BY <1>1, <1>2, InboxStep, CountersStep, HeardStep, ViewStep DEF TypeOK

LEMMA NextIInv == IInv /\ [Next]_vars => IInv'
<1> SUFFICES ASSUME IInv, [Next]_vars
             PROVE  IInv'
    OBVIOUS
<1>1. CASE UNCHANGED vars
    BY <1>1, NothingChanges
<1>2. CASE Next
    <2>1. [RMP!Next]_(RMP!vars)
        BY <1>2, StepOfRoomManager, SameManager DEF RM!vars, RMP!vars
    <2>2. RMP!IInv'
        BY <2>1, RoomManagerAssumptions, RMP!NextIInv DEF IInv
    <2> QED
        BY <1>2, <2>2, TypesStep, FourStep, CountersStep, BackedStep, ViewStep, HeardStep DEF IInv
<1> QED
    BY <1>1, <1>2

\* The invariant holds of every behaviour of the Lobby.
THEOREM LobbyInvariance == Spec => []IInv
BY InitIInv, NextIInv, PTL DEF Spec

\* The Lobby's variables keep their types; a current room and a room of a
\* client's view are ids that createRoom gave out.
THEOREM LobbyTypeCorrect == Spec => []TypeOK
<1>1. IInv => TypeOK
    BY DEF IInv
<1> QED
    BY <1>1, LobbyInvariance, PTL

\* A client that only reads the answers of ParseRoomReq knows which rooms it is
\* in: no answer claims what did not happen, and nothing happens unanswered.
THEOREM ViewsAreMembership == Spec => []ViewIsMembership
<1>1. IInv => ViewIsMembership
    BY DEF IInv
<1> QED
    BY <1>1, LobbyInvariance, PTL

\* ParseRoomReq and chat send a room's messages only to clients that were told
\* before that they are in that room.
THEOREM OnlyMembersHear == Spec => []HeardByMembersOnly
<1>1. IInv => HeardByMembersOnly
    BY DEF IInv
<1> QED
    BY <1>1, LobbyInvariance, PTL

\* Chat never goes to a room that does not exist or that its sender is not in:
\* CurrentRoomId, which setPlayerRoom keeps apart from players_, stays backed.
THEOREM CurrentRoomsBacked == Spec => []CurrentRoomBacked
<1>1. IInv => CurrentRoomBacked
    BY DEF IInv
<1> QED
    BY <1>1, LobbyInvariance, PTL

\* Whatever the clients send and however sessions fail, the rooms only go
\* through steps of RoomManager, called with ids of rooms made before: every
\* theorem about RoomManager holds of the rooms of the Lobby.
THEOREM RoomsStepByStep == Spec => RoomsFollowRoomManager
<1>1. Init => RM!Init
    BY DEF Init
<1>2. IInv /\ [Next]_vars => [RM!Next]_(RM!vars)
    BY StepOfRoomManager
<1> QED
    BY <1>1, <1>2, LobbyInvariance, PTL DEF Spec, RoomsFollowRoomManager, RM!Spec

-----------------------------------------------------------------------------
(* The rooms as players see them.                                          *)

\* Who hears nothing.
LEMMA NobodyHears ==
    ASSUME \A k \in DOMAIN sent' : sent'[k].kind \notin Broadcasts
    PROVE  Service!Silence
<1>1. \A p : {k \in DOMAIN sent' : sent'[k].to = p /\ sent'[k].kind \in Broadcasts} = {}
    OBVIOUS
<1>2. \A p : Hears(p)' = 0
    BY <1>1, FS_EmptySet DEF Hears
<1> QED
    BY <1>2 DEF Service!Silence, Service!Say

\* A message to each of targets, behind n answers: each of them hears it once.
LEMMA EachHearsOnce ==
    ASSUME NEW targets \in Seq(Players), RMP!NoRepeats(targets), NEW n \in 0..1,
           DOMAIN sent' = 1..(n + Len(targets)),
           \A k \in 1..n : sent'[k].kind \notin Broadcasts,
           \A k \in (n + 1)..(n + Len(targets)) :
               sent'[k].kind \in Broadcasts /\ sent'[k].to = targets[k - n]
    PROVE  Service!Say(RM!ToSet(targets))
<1> DEFINE For(p) == {k \in DOMAIN sent' : sent'[k].to = p /\ sent'[k].kind \in Broadcasts}
<1>1. ASSUME NEW p \in RM!ToSet(targets)
      PROVE  Cardinality(For(p)) = 1
    <2>1. PICK i \in 1..Len(targets) : targets[i] = p
        BY DEF RM!ToSet
    <2>2. For(p) = {n + i}
        <3>1. n + i \in For(p)
            BY <2>1
        <3>2. ASSUME NEW k \in For(p)
              PROVE  k = n + i
            <4>1. k - n \in 1..Len(targets) /\ targets[k - n] = p
                BY <3>2
            <4> QED
                BY <2>1, <4>1 DEF RMP!NoRepeats
        <3> QED
            BY <3>1, <3>2
    <2> QED
        BY <2>2, FS_Singleton
<1>2. ASSUME NEW p, p \notin RM!ToSet(targets)
      PROVE  Cardinality(For(p)) = 0
    <2>1. For(p) = {}
        BY <1>2 DEF RM!ToSet
    <2> QED
        BY <2>1, FS_EmptySet
<1> QED
    BY <1>1, <1>2 DEF Service!Say, Hears

\* The players of a room, each once.
LEMMA TargetsAre ==
    ASSUME RMP!IInv, thread # "blocked", NEW id
    PROVE  LET targets == RM!RoomBroadCast(rooms_, id)
           IN /\ targets \in Seq(Players)
              /\ RMP!NoRepeats(targets)
              /\ RM!ToSet(targets) = RM!Members(id)
<1>1. CASE id \in DOMAIN rooms_
    <2>1. rooms_[id] \in RMP!RoomObject /\ RMP!NoRepeats(rooms_[id].players)
        BY <1>1 DEF RMP!IInv, RMP!TypeOK, RMP!RoomsAtRest, RMP!AtRest, RMP!Sound
    <2> QED
        BY <1>1, <2>1 DEF RM!RoomBroadCast, RM!Members, RMP!RoomObject
<1>2. CASE id \notin DOMAIN rooms_
    <2>1. <<>> \in Seq(Players) /\ RMP!NoRepeats(<<>>) /\ RM!ToSet(<<>>) = {}
        BY DEF RMP!NoRepeats, RM!ToSet
    <2> QED
        BY <1>2, <2>1 DEF RM!RoomBroadCast, RM!Members
<1> QED
    BY <1>1, <1>2

LEMMA TargetsAreNext ==
    ASSUME RMP!IInv', thread' # "blocked", NEW id
    PROVE  LET targets == RM!RoomBroadCast(rooms_', id)
           IN /\ targets \in Seq(Players)
              /\ RMP!NoRepeats(targets)
              /\ RM!ToSet(targets) = RM!Members(id)'
<1>1. CASE id \in DOMAIN rooms_'
    <2>1. rooms_'[id] \in RMP!RoomObject /\ RMP!NoRepeats(rooms_'[id].players)
        BY <1>1 DEF RMP!IInv, RMP!TypeOK, RMP!RoomsAtRest, RMP!AtRest, RMP!Sound
    <2> QED
        BY <1>1, <2>1 DEF RM!RoomBroadCast, RM!Members, RMP!RoomObject
<1>2. CASE id \notin DOMAIN rooms_'
    <2>1. <<>> \in Seq(Players) /\ RMP!NoRepeats(<<>>) /\ RM!ToSet(<<>>) = {}
        BY DEF RMP!NoRepeats, RM!ToSet
    <2> QED
        BY <1>2, <2>1 DEF RM!RoomBroadCast, RM!Members
<1> QED
    BY <1>1, <1>2

\* The moves of RoomManagerProofs, for members as the Lobby has them.
LEMMA JoinMoves ==
    ASSUME IInv, NEW u \in Players, NEW id \in Nat, RM!joinRoom(id, u), ret'.res = "OK"
    PROVE  /\ id \in DOMAIN rooms_
           /\ Len(rooms_[id].players) < rooms_[id].capacity
           /\ u \notin RM!Members(id)
           /\ \A x : RM!Members(x)' = IF x = id THEN RM!Members(id) \cup {u} ELSE RM!Members(x)
<1>1. (\A x : RM!Members(x) = RMP!Members(x))'
    BY DEF RM!Members, RMP!Members, RM!ToSet, RMP!ToSet
<1>2. /\ id \in DOMAIN rooms_
      /\ Len(rooms_[id].players) < rooms_[id].capacity
      /\ u \notin RMP!Members(id)
      /\ \A x : RMP!Members(x)' = IF x = id THEN RMP!Members(id) \cup {u} ELSE RMP!Members(x)
    BY SameCalls, RoomManagerAssumptions, RMP!JoinMoves DEF IInv
<1> QED
    BY <1>1, <1>2, SameManager

LEMMA LeaveMoves ==
    ASSUME IInv, NEW u \in Players, NEW id \in Nat, RM!leaveRoom(id, u),
           ret'.res \in {"OK", "BLOCKED"}
    PROVE  /\ u \in RM!Members(id)
           /\ \A x : RM!Members(x)' = IF x = id THEN RM!Members(id) \ {u} ELSE RM!Members(x)
<1>1. (\A x : RM!Members(x) = RMP!Members(x))'
    BY DEF RM!Members, RMP!Members, RM!ToSet, RMP!ToSet
<1>2. /\ u \in RMP!Members(id)
      /\ \A x : RMP!Members(x)' = IF x = id THEN RMP!Members(id) \ {u} ELSE RMP!Members(x)
    BY SameCalls, RoomManagerAssumptions, RMP!LeaveMoves DEF IInv
<1> QED
    BY <1>1, <1>2, SameManager

LEMMA MembersArePlayers ==
    ASSUME IInv, Next
    PROVE  \A x : RM!Members(x) \subseteq Players /\ RM!Members(x)' \subseteq Players
<1>1. RM!TypeOK /\ RM!TypeOK'
    BY StepOfRoomManager, RoomsStep DEF IInv, TypeOK, RM!TypeOK, RM!vars
<1> QED
    BY <1>1 DEF RM!TypeOK, RM!Members, RM!ToSet, RM!RoomObject

\* A request that was refused moves nobody.
LEMMA NobodyMoves ==
    ASSUME IInv, Next, RM!Next, thread' = "running",
           ret'.op \in {"joinRoom", "leaveRoom"}, ret'.res # "OK"
    PROVE  \A x : RM!Members(x)' = RM!Members(x)
<1>1. ASSUME NEW x \in 1..MaxRoomId
      PROVE  RM!Members(x)' = RM!Members(x)
    <2>1. \A p \in Players : (p \in RM!Members(x))' <=> p \in RM!Members(x)
        BY MembersFollow
    <2> QED
        BY <2>1, MembersArePlayers
<1>2. ASSUME NEW x, x \notin 1..MaxRoomId
      PROVE  RM!Members(x)' = RM!Members(x)
    <2>1. next_room_id_' <= MaxRoomId + 1 /\ RM!TypeOK'
        BY CountersStep, RoomsStep
    <2>2. x \notin DOMAIN rooms_ /\ x \notin DOMAIN rooms_'
        BY <1>2, <2>1, RoomManagerTypes DEF IInv, RM!TypeOK
    <2> QED
        BY <2>2 DEF RM!Members
<1> QED
    BY <1>1, <1>2

\* A player that speaks, in a room or in the lobby, where nobody hears it.
LEMMA Spoken ==
    ASSUME IInv, thread = "running", NEW u \in Players, NEW id \in 0..MaxRoomId,
           id # 0 => u \in RM!Members(id),
           Service!Say(RM!Members(id)),
           next_room_id_' = next_room_id_, \A x : RM!Members(x)' = RM!Members(x)
    PROVE  Service!Next
<1>1. next_room_id_ \in Nat /\ next_room_id_ <= MaxRoomId + 1 /\ MaxRoomId \in Nat
    BY RoomManagerTypes DEF IInv
<1>2. CASE id = 0
    <2>1. RM!Members(0) = {}
        BY MembersInRange DEF IInv, TypeOK, RM!TypeOK, RM!Members
    <2> QED
        BY <1>1, <1>2, <2>1 DEF Service!Next, Service!Nothing, Service!Silence
<1>3. CASE id # 0
    <2>1. Service!Talk(u, id)
        BY <1>3 DEF Service!Talk
    <2> QED
        BY <1>3, <2>1 DEF Service!Next
<1> QED
    BY <1>2, <1>3

\* The instance has a Cardinality of its own.
LEMMA SameCardinality == \A S : Service!Cardinality(S) = Cardinality(S)
BY Zenon DEF Service!Cardinality, Cardinality

\* Of at most four players, fewer than four when a seat is left.
LEMMA SeatsLeft ==
    ASSUME IInv, thread = "running", NEW id \in DOMAIN rooms_,
           Len(rooms_[id].players) < rooms_[id].capacity
    PROVE  RM!Members(id) # {} /\ Cardinality(RM!Members(id)) < 4
<1> DEFINE s == rooms_[id].players
<1>1. s \in Seq(Players) /\ s # <<>> /\ Len(s) < 4
    BY DEF IInv, RoomsOfFour, RMP!IInv, RMP!TypeOK, RMP!RoomObject, RMP!RoomsAtRest,
           RMP!AtRest, RMP!Sound
<1>2. RM!Members(id) = RM!ToSet(s)
    BY DEF RM!Members
<1> HIDE DEF s
<1>3. s \in Surjection(1..Len(s), RM!ToSet(s)) /\ s[1] \in RM!ToSet(s)
    <2>1. DOMAIN s = 1..Len(s) /\ 1 \in DOMAIN s
        BY <1>1
    <2>2. RM!ToSet(s) = {s[i] : i \in 1..Len(s)}
        BY <2>1 DEF RM!ToSet
    <2>3. s \in [1..Len(s) -> RM!ToSet(s)]
        BY <1>1, <2>1, <2>2
    <2>4. \A t \in RM!ToSet(s) : \E i \in 1..Len(s) : s[i] = t
        BY <2>2
    <2>5. s[1] \in RM!ToSet(s)
        BY <2>1, <2>2
    <2> QED
        BY <2>3, <2>4, <2>5 DEF Surjection
<1>4. IsFiniteSet(1..Len(s)) /\ Cardinality(1..Len(s)) = Len(s)
    <2>1. Len(s) \in Nat
        BY <1>1
    <2>2. /\ IsFiniteSet(1..Len(s))
          /\ Cardinality(1..Len(s)) = IF 1 > Len(s) THEN 0 ELSE Len(s) - 1 + 1
        BY <2>1, FS_Interval, 1 \in Int, Len(s) \in Int, Zenon
    <2> QED
        BY <2>1, <2>2
<1>5. IsFiniteSet(RM!ToSet(s)) /\ Cardinality(RM!ToSet(s)) <= Len(s)
    BY <1>3, <1>4, FS_Surjection
<1>6. Cardinality(RM!ToSet(s)) \in Nat
    BY <1>5, FS_CardinalityType
<1> QED
    BY <1>1, <1>2, <1>3, <1>5, <1>6

LEMMA IdsGrow ==
    ASSUME NEW a \in Nat, NEW b \in Nat, NEW c \in Nat, b >= a, b <= c + 1
    PROVE  1..(a - 1) \subseteq 1..(b - 1) /\ 1..(b - 1) \subseteq 1..c
OBVIOUS

LEMMA ServiceCreates ==
    ASSUME IInv, Creates, Next
    PROVE  Service!Next
<1>1. PICK u \in Players, n \in RoomNames, id \in Nat :
          /\ RM!createRoom(u, 4, n) /\ id = ret'.room
          /\ sent' = <<Answer(u, "create", id, ret'.res)>> \o <<>>
    <2>1. ret'.room \in Nat
        BY StepOfRoomManager, RoomsStep DEF RM!TypeOK
    <2> QED
        BY <2>1 DEF Creates, Answers
<1>2. Service!Silence
    BY <1>1, AloneIsConcat, NobodyHears DEF Answer, Broadcasts
<1>3. /\ thread = "running" /\ thread' = "running" /\ RM!Next
      /\ Called("createRoom", u, id)
      /\ next_room_id_ \in Nat \ {0} /\ next_room_id_ <= MaxRoomId + 1 /\ MaxRoomId \in Nat
      /\ next_room_id_' <= MaxRoomId + 1 /\ next_room_id_' >= next_room_id_ /\ next_room_id_' \in Nat
    <2>1. Called("createRoom", u, id) /\ thread' = "running" /\ RM!Next
        BY <1>1, CalledAre, StepOfRoomManager
    <2>2. next_room_id_' \in Nat
        BY <2>1, RoomsStep DEF RM!TypeOK
    <2> QED
        BY <2>1, <2>2, CountersStep, RoomManagerTypes, NextRuns DEF IInv
<1>4. CASE ret'.res = "OK"
    <2>1. id = next_room_id_ /\ id \in 1..MaxRoomId /\ next_room_id_' = next_room_id_ + 1
        BY <1>1, <1>3, <1>4, CalledAre
    <2>2. \A p \in Players : p \notin RM!Members(id)
        BY <1>3, <2>1, MembersInRange DEF IInv, TypeOK
    <2>3. \A p \in Players, x \in 1..MaxRoomId :
              (p \in RM!Members(x))' <=> (p = u /\ x = id) \/ p \in RM!Members(x)
        BY <1>3, <1>4, MembersFollow DEF Called
    <2>4. \A x \in 1..MaxRoomId :
              RM!Members(x)' = IF x = id THEN {u} ELSE RM!Members(x)
        BY <2>2, <2>3, MembersArePlayers
    <2>5. 1..(next_room_id_' - 1) = 1..(next_room_id_ - 1) \cup {id} /\ id \notin 1..(next_room_id_ - 1)
        BY <1>3, <2>1
    <2>6. Service!Open(u, id)
        BY <1>2, <2>1, <2>4, <2>5 DEF Service!Open
    <2> QED
        BY <1>3, <2>1, <2>6 DEF Service!Next
<1>5. CASE ret'.res # "OK"
    <2>1. \A p \in Players, x \in 1..MaxRoomId :
              (p \in RM!Members(x))' <=> p \in RM!Members(x)
        BY <1>3, <1>5, MembersFollow DEF Called
    <2>2. \A x \in 1..MaxRoomId : RM!Members(x)' = RM!Members(x)
        BY <2>1, MembersArePlayers
    <2>3. /\ 1..(next_room_id_ - 1) \subseteq 1..(next_room_id_' - 1)
          /\ 1..(next_room_id_' - 1) \subseteq 1..MaxRoomId
        BY <1>3, IdsGrow
    <2>4. UNCHANGED [x \in 1..MaxRoomId |-> RM!Members(x)]
        BY <2>2
    <2>5. Service!Nothing
        BY <1>2, <2>3, <2>4 DEF Service!Nothing
    <2> QED
        BY <1>3, <2>5 DEF Service!Next
<1> QED
    BY <1>4, <1>5

LEMMA ServiceTalks ==
    ASSUME IInv, Talks, Next
    PROVE  Service!Next
<1>1. PICK u \in Players : Idle /\ sent' = Copies(rooms_, CurrentRoomId[u], "chat")
    BY DEF Talks
<1>2. thread = "running"
    BY NextRuns
<1>3. /\ CurrentRoomId[u] \in 0..MaxRoomId
      /\ CurrentRoomId[u] # 0 => u \in RM!Members(CurrentRoomId[u])
    BY <1>2, RoomManagerTypes DEF IInv, TypeOK, CurrentRoomBacked
<1> DEFINE targets == RM!RoomBroadCast(rooms_, CurrentRoomId[u])
<1>4. /\ targets \in Seq(Players) /\ RMP!NoRepeats(targets)
      /\ RM!ToSet(targets) = RM!Members(CurrentRoomId[u])
    BY <1>2, TargetsAre DEF IInv
<1>5. /\ DOMAIN sent' = DOMAIN targets
      /\ \A k \in DOMAIN targets : sent'[k].kind \in Broadcasts /\ sent'[k].to = targets[k]
    BY <1>1 DEF Copies, Answer, Broadcasts
<1> HIDE DEF targets
<1>6. Service!Say(RM!ToSet(targets))
    <2>1. DOMAIN sent' = 1..(0 + Len(targets)) /\ \A k \in DOMAIN targets : k - 0 = k
        BY <1>4, <1>5
    <2> QED
        BY <1>4, <1>5, <2>1, EachHearsOnce
<1>7. next_room_id_' = next_room_id_ /\ \A x : RM!Members(x)' = RM!Members(x)
    BY <1>1 DEF Idle, roomVars, RM!Members
<1> QED
    BY <1>2, <1>3, <1>4, <1>6, <1>7, Spoken

LEMMA ServiceJoins ==
    ASSUME IInv, Joins, Next
    PROVE  Service!Next
<1>1. PICK u \in Players, id \in 1..(next_room_id_ - 1) :
          /\ RM!joinRoom(id, u) /\ moveTo(u, id, ret'.res)
          /\ sent' = <<Answer(u, "join", id, ret'.res)>>
                         \o Copies(rooms_', CurrentRoomId'[u], "JOINED_ROOM")
    BY DEF Joins, Answers
<1>2. /\ thread = "running" /\ thread' = "running" /\ RM!Next
      /\ Called("joinRoom", u, id)
      /\ id \in 1..MaxRoomId /\ id \in Nat
      /\ next_room_id_' = next_room_id_
    <2>1. Called("joinRoom", u, id) /\ thread' # "blocked"
        BY <1>1, CalledAre, JoinReturns
    <2>2. id \in 1..MaxRoomId /\ id \in Nat
        BY RoomManagerTypes DEF IInv
    <2> QED
        BY <1>1, <2>1, <2>2, NextRuns DEF Called, RM!joinRoom
<1>3. PICK r \in Nat : r = CurrentRoomId'[u]
    BY <1>1, <1>2, CountersStep DEF RM!TypeOK
<1> DEFINE a == Answer(u, "join", id, ret'.res)
           targets == RM!RoomBroadCast(rooms_', r)
           copies == Copies(rooms_', r, "JOINED_ROOM")
<1>4. /\ targets \in Seq(Players) /\ RMP!NoRepeats(targets)
      /\ RM!ToSet(targets) = RM!Members(r)'
    BY <1>2, RoomsStep, TargetsAreNext
<1>5. /\ DOMAIN copies = DOMAIN targets
      /\ \A k \in DOMAIN targets : copies[k].kind \in Broadcasts /\ copies[k].to = targets[k]
    BY DEF Copies, Answer, Broadcasts
<1>6. a \in Message /\ a.kind \notin Broadcasts /\ copies \in Seq(Message)
    <2>1. RM!TypeOK'
        BY <1>2, RoomsStep
    <2> QED
        BY <1>2, <2>1, CopiesForNext DEF Answer, Message, Broadcasts, RM!TypeOK
<1> HIDE DEF a, copies, targets
<1>7. Service!Say(RM!Members(r)')
    <2>1. /\ DOMAIN sent' = 1..(1 + Len(copies))
          /\ sent'[1] = a
          /\ \A k \in 2..(1 + Len(copies)) : sent'[k] = copies[k - 1]
        BY <1>1, <1>3, <1>6, AnswerThenCopies DEF a, copies
    <2>2. Len(copies) = Len(targets) /\ Len(targets) \in Nat
        BY <1>4, <1>5, <1>6, LenProperties
    <2>3. \A k \in 1..1 : sent'[k].kind \notin Broadcasts
        BY <1>6, <2>1
    <2>4. ASSUME NEW k \in (1 + 1)..(1 + Len(targets))
          PROVE  sent'[k].kind \in Broadcasts /\ sent'[k].to = targets[k - 1]
        <3>1. k - 1 \in DOMAIN targets /\ sent'[k] = copies[k - 1]
            BY <1>4, <2>1, <2>2
        <3> QED
            BY <1>5, <3>1
    <2>5. Service!Say(RM!ToSet(targets))
        BY <1>4, <2>1, <2>2, <2>3, <2>4, EachHearsOnce
    <2> QED
        BY <1>4, <2>5
<1>8. CASE ret'.res = "OK"
    <2>1. /\ id \in DOMAIN rooms_
          /\ Len(rooms_[id].players) < rooms_[id].capacity
          /\ u \notin RM!Members(id)
          /\ \A x : RM!Members(x)' = IF x = id THEN RM!Members(id) \cup {u} ELSE RM!Members(x)
        BY <1>1, <1>2, <1>8, JoinMoves
    <2>2. r = id
        BY <1>1, <1>3, <1>8, CastsKeep, RoomManagerTypes DEF moveTo, setPlayerRoom, IInv, TypeOK
    <2>3. RM!Members(id) # {} /\ Cardinality(RM!Members(id)) < 4
        BY <1>2, <2>1, SeatsLeft
    <2>4. Service!Say(RM!Members(id)')
        BY <1>7, <2>2
    <2>5. [x \in 1..MaxRoomId |-> RM!Members(x)'] =
              [[x \in 1..MaxRoomId |-> RM!Members(x)] EXCEPT ![id] = @ \cup {u}]
        BY <1>2, <2>1
    <2> DEFINE members == [x \in 1..MaxRoomId |-> RM!Members(x)]
    <2>6. members[id] = RM!Members(id) /\ members'[id] = RM!Members(id)'
        BY <1>2
    <2>7. /\ members[id] # {} /\ u \notin members[id] /\ Cardinality(members[id]) < 4
          /\ members' = [members EXCEPT ![id] = @ \cup {u}]
          /\ Service!Say(members'[id])
        BY <2>1, <2>3, <2>4, <2>5, <2>6 DEF Service!Say
    <2>8. Service!Enter(u, id)
        <3>1. UNCHANGED (1..(next_room_id_ - 1))
            BY <1>2
        <3> QED
            BY <2>7, <3>1, SameCardinality, Zenon DEF Service!Enter
    <2> QED
        BY <1>2, <2>8 DEF Service!Next
<1>9. CASE ret'.res # "OK"
    <2>1. \A x : RM!Members(x)' = RM!Members(x)
        BY <1>2, <1>9, NobodyMoves DEF Called
    <2>2. r = CurrentRoomId[u]
        BY <1>1, <1>3, <1>9 DEF moveTo
    <2>3. r \in 0..MaxRoomId /\ (r # 0 => u \in RM!Members(r))
        BY <1>2, <2>2, RoomManagerTypes DEF IInv, TypeOK, CurrentRoomBacked
    <2>4. Service!Say(RM!Members(r))
        BY <1>7, <2>1
    <2> QED
        BY <1>2, <2>1, <2>3, <2>4, Spoken
<1> QED
    BY <1>8, <1>9

LEMMA ServiceLeaves ==
    ASSUME IInv, Leaves, Next
    PROVE  Service!Next
<1>1. PICK u \in Players, id \in 1..(next_room_id_ - 1) :
          /\ RM!leaveRoom(id, u)
          /\ \/ sent' = <<>>
             \/ sent' = <<Answer(u, "leave", id, ret'.res)>> \o <<>>
    BY DEF Leaves, Answers
<1>2. Service!Silence
    BY <1>1, AloneIsConcat, NobodyHears DEF Answer, Broadcasts
<1>3. /\ thread = "running" /\ RM!Next /\ Called("leaveRoom", u, id)
      /\ id \in 1..MaxRoomId /\ id \in Nat
      /\ next_room_id_' = next_room_id_
    <2>1. id \in 1..MaxRoomId /\ id \in Nat
        BY RoomManagerTypes DEF IInv
    <2> QED
        BY <1>1, <2>1, CalledAre, NextRuns DEF Called, RM!leaveRoom
<1>4. CASE ret'.res \in {"OK", "BLOCKED"}
    <2>1. /\ u \in RM!Members(id)
          /\ \A x : RM!Members(x)' = IF x = id THEN RM!Members(id) \ {u} ELSE RM!Members(x)
        BY <1>1, <1>3, <1>4, LeaveMoves
    <2>2. Service!Leave(u, id)
        BY <1>2, <1>3, <2>1 DEF Service!Leave
    <2> QED
        BY <1>3, <2>2 DEF Service!Next
<1>5. CASE ret'.res \notin {"OK", "BLOCKED"}
    <2>1. thread' = "running"
        BY <1>3, <1>5 DEF Called
    <2>2. \A x : RM!Members(x)' = RM!Members(x)
        BY <1>3, <1>5, <2>1, NobodyMoves DEF Called
    <2>3. 1..(next_room_id_ - 1) \subseteq 1..MaxRoomId
        BY RoomManagerTypes DEF IInv
    <2>4. Service!Nothing
        BY <1>2, <1>3, <2>2, <2>3 DEF Service!Nothing
    <2> QED
        BY <1>3, <2>4 DEF Service!Next
<1> QED
    BY <1>4, <1>5

LEMMA ServiceOthers ==
    ASSUME IInv, Replies \/ Ends, Next
    PROVE  Service!Next
<1>1. Service!Silence
    <2>1. CASE Replies
        BY <2>1, NobodyHears, LenProperties DEF Replies, NoCopies
    <2>2. CASE Ends
        BY <2>2, NobodyHears DEF Ends
    <2> QED
        BY <2>1, <2>2
<1>2. next_room_id_' = next_room_id_ /\ \A x : RM!Members(x)' = RM!Members(x)
    BY DEF Replies, Ends, Idle, roomVars, RM!exit, RM!Members
<1>3. 1..(next_room_id_ - 1) \subseteq 1..MaxRoomId
    BY RoomManagerTypes DEF IInv
<1>4. Service!Nothing
    BY <1>1, <1>2, <1>3 DEF Service!Nothing
<1> QED
    BY <1>4, NextRuns DEF Service!Next

\* What players hear and who is in which room is what RoomService promises:
\* whatever sessions, codes, ids of rooms and current rooms do underneath, each
\* packet opens, enters or leaves one room for one player, or is said to
\* everybody in the speaker's room once and to nobody else, or does nothing.
THEOREM LobbyServesRooms == Spec => ServesRooms
<1>1. Init => Service!Init
    <2> SUFFICES ASSUME Init
                 PROVE  Service!Init
        OBVIOUS
    <2>1. \A x : RM!Members(x) = {}
        BY DEF Init, RM!Init, RM!Members
    <2>2. \A p : {k \in DOMAIN sent : sent[k].to = p /\ sent[k].kind \in Broadcasts} = {}
        BY DEF Init
    <2>3. \A p : Hears(p) = 0
        BY <2>2, FS_EmptySet DEF Hears
    <2>4. next_room_id_ = 1 /\ thread = "running"
        BY DEF Init, RM!Init
    <2> QED
        BY <2>1, <2>3, <2>4 DEF Service!Init
<1>2. IInv /\ Next => Service!Next
    BY StepKinds, ServiceOthers, ServiceTalks, ServiceCreates, ServiceJoins, ServiceLeaves
<1>3. UNCHANGED vars => UNCHANGED Service!vars
    BY DEF vars, roomVars, Service!vars, RM!Members, Hears
<1> QED
    BY <1>1, <1>2, <1>3, LobbyInvariance, PTL DEF Spec, ServesRooms, Service!Spec

=============================================================================
