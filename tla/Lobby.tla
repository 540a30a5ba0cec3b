-------------------------------- MODULE Lobby --------------------------------
(***************************************************************************)
(* The server as its clients drive it: sessions that receive packets       *)
(* (ClientSession.cpp), the dispatcher that serves them (MessageDispatcher *)
(* .cpp), the players' current rooms (PlayerManager.cpp) and the rooms     *)
(* themselves (RoomManager, on variables of the same names).               *)
(*                                                                         *)
(* CreateSession logs a new user in on every connection, so a session, its *)
(* user and its Player are one and the same here.  Each packet decoded is  *)
(* a task on the strand of its session: the tasks of one session run in    *)
(* order, those of different sessions in any order, and a task is one step *)
(* of the only thread.  A session is never removed, nor does closing its   *)
(* socket take its player out of a room.                                   *)
(***************************************************************************)
EXTENDS Integers, SequencesExt

CONSTANTS Players, NoPlayer, Codes, RoomNames, MaxRoomId,
          IntMax,       \* the greatest int, 2^31 - 1
          NotUtf8,      \* the room names that are no valid UTF-8
          MaxInbox      \* bound: packets of a session that wait at a time

ASSUME LobbyAssumption ==
    /\ NoPlayer \notin Players
    /\ MaxRoomId \in Nat /\ IntMax \in Nat /\ MaxRoomId <= IntMax
    /\ NotUtf8 \subseteq RoomNames
    /\ MaxInbox \in Nat \ {0}

VARIABLES
    rooms_, code_to_id_, next_room_id_, ready, thread, ret,  \* RoomManager
    session,         \* "none" yet, "open", or "closed" by either end
    inbox,           \* the decoded packets that wait on the session's strand
    CurrentRoomId,   \* Player::CurrentRoomId; 0 is the lobby
    sent,            \* what the step just made sent, in order
    view             \* history: the rooms a client is in by the answers it got

roomVars == <<rooms_, code_to_id_, next_room_id_, ready, thread, ret>>
vars == <<roomVars, session, inbox, CurrentRoomId, sent, view>>

\* ParseRoomReq asks for rooms of four.
RM == INSTANCE RoomManager WITH Capacities <- {4}

-----------------------------------------------------------------------------
(* Packets and messages.                                                   *)

\* What the handler tells apart: JSONDATA, an unknown type, an empty request
\* and the four requests with an empty case are all "ignored"; a body is
\* "unencodable" when encode throws on it (empty, or over 10 MB); a "cut"
\* request is a CREATEROOM that substr throws on (RoomRequest says which do).
Packet ==
    [kind : {"chat"}, arg : {"text", "unencodable"}]
      \cup [kind : {"ignored", "cut", "list"}, arg : {"none"}]
      \cup [kind : {"create"}, arg : RoomNames]
      \cup [kind : {"join", "leave"}, arg : Codes]

Broadcasts == {"chat", "JOINED_ROOM"}

\* room is not in the bytes of an answer: the client knows which of its
\* requests is answered, and so which room is meant.
Message ==
    [to : Players, kind : {"welcome", "create", "join", "leave", "list"} \cup Broadcasts,
     room : Nat, res : RM!RoomResult]

Answer(u, kind, id, res) == [to |-> u, kind |-> kind, room |-> id, res |-> res]

Copies(rooms, id, kind) ==
    LET targets == RM!RoomBroadCast(rooms, id)
    IN [k \in DOMAIN targets |-> Answer(targets[k], kind, id, "OK")]

\* The rooms that u is told about with OK in an answer of one of kinds.
Told(msgs, u, kinds) ==
    {m.room : m \in {x \in ToSet(msgs) : x.to = u /\ x.kind \in kinds /\ x.res = "OK"}}

\* What clients learn from the messages of a step, one of which at most is such
\* an answer.
Send(msgs) ==
    /\ sent' = msgs
    /\ view' = [u \in Players |-> (view[u] \cup Told(msgs, u, {"create", "join"}))
                                     \ Told(msgs, u, {"leave"})]

\* An exception nobody catches before main: io_context::run ends.
Throw ==
    /\ RM!exit
    /\ sent' = <<>>
    /\ UNCHANGED <<CurrentRoomId, view>>

-----------------------------------------------------------------------------

TypeOK ==
    /\ RM!TypeOK
    /\ session \in [Players -> {"none", "open", "closed"}]
    /\ inbox \in [Players -> Seq(Packet)]
    /\ CurrentRoomId \in [Players -> 0..(next_room_id_ - 1)]
    /\ sent \in Seq(Message)
    /\ view \in [Players -> SUBSET (1..(next_room_id_ - 1))]

Init ==
    /\ RM!Init
    /\ session = [u \in Players |-> "none"]
    /\ inbox = [u \in Players |-> <<>>]
    /\ CurrentRoomId = [u \in Players |-> 0]
    /\ sent = <<>>
    /\ view = [u \in Players |-> {}]

-----------------------------------------------------------------------------
(* Connections.                                                            *)

\* CreateSession: log in, start reading, and send the welcome message; it
\* throws when the peer is gone already (remote_endpoint, set_option).
Accept(u) ==
    /\ thread = "running"
    /\ session[u] = "none"
    /\ \/ /\ session' = [session EXCEPT ![u] = "open"]
          /\ Send(<<Answer(u, "welcome", 0, "OK")>>)
          /\ UNCHANGED <<roomVars, CurrentRoomId>>
       \/ /\ Throw
          /\ UNCHANGED session
    /\ UNCHANGED inbox

\* The bound on ids counts the requests that wait, so that none waits for ever.
CreatesWaiting ==
    LET Creates(u) == SelectSeq(inbox[u], LAMBDA pkt : pkt.kind = "create")
    IN FoldLeft(LAMBDA n, u : n + Len(Creates(u)), 0, SetToSeq(Players))

\* onRawDataReceived, for one of the packets decoded.
Receive(u, pkt) ==
    /\ thread = "running"
    /\ session[u] = "open"
    /\ Len(inbox[u]) < MaxInbox
    /\ pkt.kind = "create" => next_room_id_ + CreatesWaiting <= MaxRoomId
    /\ inbox' = [inbox EXCEPT ![u] = Append(@, pkt)]
    /\ sent' = <<>>
    /\ UNCHANGED <<roomVars, session, CurrentRoomId, view>>

CloseEmptiesRooms(u) ==
    /\ thread = "running"
    /\ session[u] = "open"
    /\ session' = [session EXCEPT ![u] = "closed"]
    /\ sent' = <<>>
    /\ rooms_' = [id \in {x \in DOMAIN rooms_ : rooms_[x].players # <<u>>} |->
                     [rooms_[id] EXCEPT !.players = RemoveFirst(@, u)]]
    /\ UNCHANGED <<code_to_id_, next_room_id_, ready, thread, ret>>
    /\ UNCHANGED <<inbox, CurrentRoomId, view>>

\* A read or a write fails: the socket is closed, and nothing else happens.
\* Packets that wait on the strand are still served.
Close(u) ==
    /\ thread = "running"
    /\ session[u] = "open"
    /\ session' = [session EXCEPT ![u] = "closed"]
    /\ sent' = <<>>
    /\ UNCHANGED <<roomVars, inbox, CurrentRoomId, view>>

-----------------------------------------------------------------------------
(* ProcessMessagePkt and ParseRoomReq: one definition per case.            *)

setPlayerRoomOffByOne(u, id) == CurrentRoomId' = [CurrentRoomId EXCEPT ![u] = id + 1]

setPlayerRoom(u, id) == CurrentRoomId' = [CurrentRoomId EXCEPT ![u] = id]

chatToOthers(u, body) ==
    /\ Send(SelectSeq(Copies(rooms_, CurrentRoomId[u], "chat"), LAMBDA m : m.to # u))
    /\ UNCHANGED <<roomVars, CurrentRoomId>>

chat(u, body) ==
    LET copies == Copies(rooms_, CurrentRoomId[u], "chat")
    IN IF body = "unencodable" /\ copies # <<>>
       THEN Throw
       ELSE /\ Send(copies)
            /\ UNCHANGED <<roomVars, CurrentRoomId>>

\* The creator's CurrentRoomId is not set.
create(u, name) ==
    /\ RM!createRoom(u, 4, name)
    /\ Send(<<Answer(u, "create", ret'.room, ret'.res)>>)
    /\ UNCHANGED CurrentRoomId

\* (int)room_id, which setPlayerRoom takes for a uint64_t again: an id that comes
\* out negative here is one that no room has.
AsInt(id) ==
    LET low == id % (2 * (IntMax + 1))
    IN IF low <= IntMax THEN low ELSE low - 2 * (IntMax + 1)

moveToAlways(u, id, res) == setPlayerRoom(u, AsInt(id))

moveTo(u, id, res) ==
    IF res = "OK" THEN setPlayerRoom(u, AsInt(id)) ELSE UNCHANGED CurrentRoomId

AnswerLast(copies, answer) == Append(copies, answer)

AnswerThen(copies, answer) == <<answer>> \o copies

\* JOINED_ROOM goes to the room the player is in now, also when the request
\* was refused.
join(u, code) ==
    LET id == RM!getRoomId(code)
    IN IF id = 0
       THEN /\ Send(<<Answer(u, "join", 0, "NOT_FOUND")>>)
            /\ UNCHANGED <<roomVars, CurrentRoomId>>
       ELSE /\ RM!joinRoom(id, u)
            /\ moveTo(u, id, ret'.res)
            /\ Send(AnswerThen(Copies(rooms_', CurrentRoomId'[u], "JOINED_ROOM"),
                               Answer(u, "join", id, ret'.res)))

\* No answer when no room ever had the code.  A player that leaves any of its
\* rooms is in the lobby afterwards.
leave(u, code) ==
    LET id == RM!getRoomId(code)
    IN IF id = 0
       THEN /\ Send(<<>>)
            /\ UNCHANGED <<roomVars, CurrentRoomId>>
       ELSE /\ RM!leaveRoom(id, u)
            /\ moveTo(u, 0, ret'.res)
            /\ Send(IF ret'.res = "BLOCKED" THEN <<>>
                    ELSE <<Answer(u, "leave", id, ret'.res)>>)

\* The list is dumped as JSON, which throws on a name that is not UTF-8; and
\* encode throws when the names, whose lengths are left out here, add up to more
\* than 10 MB.
list(u) ==
    \/ DOMAIN rooms_ # {} /\ Throw
    \/ /\ \A id \in DOMAIN rooms_ : rooms_[id].name \notin NotUtf8
       /\ Send(<<Answer(u, "list", 0, "OK")>>)
       /\ UNCHANGED <<roomVars, CurrentRoomId>>

ignored ==
    /\ Send(<<>>)
    /\ UNCHANGED <<roomVars, CurrentRoomId>>

\* The next task on the strand of u.
Dispatch(u) ==
    /\ thread = "running"
    /\ inbox[u] # <<>>
    /\ inbox' = [inbox EXCEPT ![u] = Tail(@)]
    /\ UNCHANGED session
    /\ LET pkt == Head(inbox[u])
       IN \/ pkt.kind = "chat" /\ chat(u, pkt.arg)
          \/ pkt.kind = "create" /\ create(u, pkt.arg)
          \/ pkt.kind = "cut" /\ Throw
          \/ pkt.kind = "join" /\ join(u, pkt.arg)
          \/ pkt.kind = "leave" /\ leave(u, pkt.arg)
          \/ pkt.kind = "list" /\ list(u)
          \/ pkt.kind = "ignored" /\ ignored

\* SIGINT or SIGTERM: io_context::stop.
Stop ==
    /\ Throw
    /\ UNCHANGED <<session, inbox>>

Next ==
    \/ \E u \in Players :
           \/ Accept(u)
           \/ \E pkt \in Packet : Receive(u, pkt)
           \/ Close(u)
           \/ Dispatch(u)
    \/ Stop

Spec == Init /\ [][Next]_vars

-----------------------------------------------------------------------------
(* Properties.                                                             *)

\* What a client can work out from the answers it was sent is where it is: no
\* answer claims a join or a leave that did not happen, and no player enters
\* or leaves a room without an answer that says so.
ViewIsMembership ==
    thread # "blocked" =>
        \A u \in Players : view[u] = {id \in DOMAIN rooms_ : u \in RM!Members(id)}

\* Chat goes to CurrentRoomId without a look at players_: so a CurrentRoomId
\* that is not the lobby is always a room that exists and has the player in it.
CurrentRoomBacked ==
    thread # "blocked" =>
        \A u \in Players :
            CurrentRoomId[u] # 0 => u \in RM!Members(CurrentRoomId[u])

\* A client hears a room only while it can know that it is in it: the answer
\* that lets a player in comes before the first message it hears there.
HeardByMembersOnly ==
    LET heard == {k \in DOMAIN sent : sent[k].kind \in Broadcasts}
    IN /\ \A k \in heard : sent[k].room \in view[sent[k].to]
       /\ \A k \in heard, j \in DOMAIN sent :
              sent[j].to = sent[k].to /\ sent[j].kind \notin Broadcasts => j < k

\* Whatever the dispatcher, the sessions and their failures do, the rooms go
\* through the steps of RoomManager only: what holds of those holds here.
RoomsFollowRoomManager == RM!Spec

Hears(u) == Cardinality({k \in DOMAIN sent : sent[k].to = u /\ sent[k].kind \in Broadcasts})

\* The rooms as players see them: whoever talks is in a room, is heard by
\* everybody in that room, itself included, once, and by nobody else; and rooms
\* change only by being opened, entered and left, one player at a time.
Service ==
    INSTANCE RoomService WITH
        Rooms <- 1..MaxRoomId, Seats <- 4,
        members <- [id \in 1..MaxRoomId |-> RM!Members(id)],
        opened <- 1..(next_room_id_ - 1),
        heard <- [u \in Players |-> Hears(u)],
        up <- thread = "running"

ServesRooms == Service!Spec

\* PlayerManager.hpp:18 "roomId = 0 means the lobby": a player whose
\* CurrentRoomId is 0 is in no room.
LobbyMeansNoRoom ==
    \A u \in Players :
        CurrentRoomId[u] = 0 => \A id \in DOMAIN rooms_ : u \notin RM!Members(id)

=============================================================================
