# Verification of the room server

TLA+ models of the chat and room server in this repository, checked with TLC on
small instances, and theorems about them checked with TLAPS for every instance.
Paths are relative to the repository; `Room.cpp:94` is a line of
`src/Room.cpp`.

## 1. The system

One process, one thread: `main` calls `io_context.run()` once (Server.cpp:74),
so every handler runs to its end before the next one starts. (The strands would
allow more threads: `Strand` models asio's code for any number, and what is shown
of it beyond one thread the server does not use today.) The mutexes in the
code are never contended, and what can interleave is handlers: the accept
handler, the completion handlers and posted tasks of each connection's strand,
and the heartbeat timer. An exception that leaves a handler ends
`io_context.run()` and with it the server (Server.cpp:78); one that waits for ever
stops it as well.

| component | state | operations | talks to |
|---|---|---|---|
| acceptor, `TcpServer` (Server.cpp) | the pending accept | accept, stop on a signal | SessionManager |
| SessionManager | `activeSessions_`, id counters, heartbeat timer | CreateSession, DeleteSession, BroadCastMsg, isConnectionFull, on_heartbeat | MessageDispatcher (login), ClientSession |
| ClientSession | codec, message counter, weak Player | sendMessage, sendHeartBeat, start, onRawDataReceived | TcpConnection, FrameProtocolCodec, MessageDispatcher (one task per packet) |
| TcpConnection | socket, strand, `writeQ_` | startRead, sendBytes, post_to_strand, close, doWrite | asio, ClientSession (callbacks) |
| FrameProtocolCodec | `buffer_`, `fragCache_` | encode, decode | |
| MessageDispatcher | none | Login, ProcessMessagePkt, ParseRoomReq | RoomManager, PlayerManager, ClientSession (answers) |
| PlayerManager, Player | `idToPlayerMap_`, `CurrentRoomId`, `RoomData` | OnLoginSuccess, LogOut, setPlayerRoom | ClientSession (weak pointers) |
| RoomManager | `rooms_`, `code_to_id_`, `next_room_id_` | create, join, leave, list, setReady, setCapacity, startGame, dissolve, RoomBroadCast | Room |
| Room | `players_`, `owner`, `capacity_`, `state_`, `mu_` | join, leave, setReady, setCapacity, startGame, broadcast | Player (CallSend) |
| JSONTranslator, RoomUtils | none | formatting of answers, drawing of codes | |
| asio (vendored) | per strand a lock and two queues; operations under way | post, execute, async_read_some, async_write | everything above |

What is hard here, and what would make each part correct:

* **Room and RoomManager.** `mu_` is a `std::mutex`, and methods that hold it
  call methods that lock it; a call that does so never returns, and with one
  thread neither does anything else. Rooms, codes and ids live in two tables
  and a counter that no single statement keeps together. Correct means: rooms
  that can be found are neither empty, overfull nor doubly occupied; a code
  resolves to its room and never to another; ids are not reused; membership
  follows from answered calls.
* **The bytes of a request.** Lengths are signed chars that nothing checks.
  Correct means: an honest request arrives as it was sent, and no other request
  has an outcome that depends on memory beside the string.
* **MessageDispatcher and PlayerManager.** `CurrentRoomId` duplicates what
  `players_` says, on three paths. Handlers may throw half way. Correct means:
  what the answers say is what the rooms say, chat reaches members and only
  members, and the current room is a room the player is in.
* **TcpConnection and ClientSession.** Sends come from handlers of any session
  while a write is under way; completions, posts and reads share one strand; a
  close meets all of them. Correct means: frames reach the peer whole, in order
  and once; none is stranded; packets are served in order, each once.
* **The strand.** Its lock is given up between the statements that make one
  thread the owner and those that run tasks. Correct means: tasks run in the
  order of posting, one at a time, each once, and none is forgotten when the
  owner leaves.
* **FrameProtocolCodec.** Reads cut frames anywhere; garbage, bad checksums and
  missing fragments must not spoil what follows.
* **SessionManager.** A bound on connections, a timer that must re-arm, and a
  removal path that is hardly ever taken.

## 2. The modules

| module | models | kind |
|---|---|---|
| `Room` | Room.cpp | operators from a room to an outcome |
| `RoomManager` | RoomManager.cpp, driven by any callers | state machine, uses `Room` |
| `RoomRequest` | the bytes of a room request, the loop that draws a code | state machine |
| `RoomService` | what the lobby promises to the players | abstract specification |
| `Lobby` | MessageDispatcher, PlayerManager, sessions, over `RoomManager` | composition, refines `RoomManager` and `RoomService` |
| `FrameStream` | what a connection promises | abstract specification |
| `TcpConnection` | TcpConnection.hpp and ClientSession's use of it | state machine, refines `FrameStream` |
| `SerialQueue` | what a strand promises | abstract specification |
| `Strand` | asio's strand, for any number of threads | state machine, refines `SerialQueue` |
| `Codec` | FrameProtocalCodec.hpp: encode at the peer, decode here | state machine |
| `Sessions` | Server.cpp, SessionManager.cpp, the player table | state machine |
| `MCRoomManager`, `MCLobby`, `MCRoomRequest`, `MCCodec` | | symmetry sets, bodies, dirt and taken codes for TLC |
| `RoomManagerProofs`, `RoomRequestProofs`, `LobbyProofs`, `SessionsProofs`, `StrandProofs`, `TcpConnectionProofs`, `CodecProofs` | | theorems |
| `CodecData` | | lemmas on what `encode` and `adler32` compute |

How they fit together: `RoomRequest` ends with the fields with which a request
of `Lobby` starts; `Lobby` calls the operators of `RoomManager`, which calls
those of `Room`; `TcpConnection` takes the queue that `SerialQueue` promises for
granted, and `Lobby` takes packets in the order in which `TcpConnection` serves
them; `Codec` turns the bytes that `TcpConnection` carries into packets;
`Sessions` is where sessions and players begin.

**Room.** A room is a record of the data members. Each method is an operator
that returns the room afterwards and the result; the result `"BLOCKED"` is a
call that waits for the mutex its own thread holds (`mu` is then still TRUE).
The nesting of calls is the code's: `leave` calls
`ensure_owner_after_leave_locked`, which calls `containsPlayer`. The `owner`
member is written where the code writes it, so not by the constructor.
`capacity` is 2..16 because `createRoom` and `setCapacity` are the only writers.
Notification through `sendFunc_` is left out: `RoomManager::sendCb_` is never
set, so the function is always empty.

**RoomManager.** One action per public method, for any player, id and argument:
the class does not rely on the dispatcher's discipline, and neither do its
properties. `ret` is the last call and what it returned. A blocked call sets
`thread` to `"blocked"`, after which nothing is enabled; `exit` is the end of
the process. The mutexes of the rooms are part of the state, so that the
properties can say which calls give them back. The draw of a code is the choice
of any code not yet in the table; giving up is possible as soon as one code is
taken (five draws may all hit it).

**Lobby.** A session, its user and its Player are one (CreateSession logs a new
user in per connection). `inbox[u]` holds the decoded packets that are posted to
the session's strand; `Dispatch(u)` runs the next of them, the whole handler, as
one step. `sent` is what that step passed to `sendMessage`, in order. `view` is
a history variable: the rooms a client can conclude it is in from the answers.
Packets are abstracted to what the handler tells apart, see the comment at
`Packet`. A read that decodes several packets is several `Receive` steps: they
only append to an inbox, so every order of dispatches remains possible.
`Throw` is an exception that leaves the handler; LISTROOMS throws for a name that
is not UTF-8 and, since the lengths of names are left out, may throw whenever there
are rooms, as `encode` does for an answer of more than 10 MB. JOINROOM hands
`setPlayerRoom` the id as an `int` (`AsInt`), which is the id while ids are at most
`IntMax`; the module assumes so: what is shown is about the first 2^31 - 1 rooms.

**RoomRequest.** `req` is the body of a packet, `pc` what `ParseRoomReq` takes
next or how it ended; one action per field. A subscript outside the string may
yield any byte, or end the process where the standard library is built with
assertions (`Abort`); `substr` throws when it would start outside. `DrawCode` is
one turn of `createRoom`'s loop, with the codes that are taken as a constant:
the handler runs alone, so they do not change meanwhile.

**RoomService.** Who is in which room, and how often each player hears what was
just said. Rooms are opened once; entering says so to everybody in the room, the
newcomer included. The service may go down at any step (`up`), which is where an
exception, the blocking `leave` and the end of the process go. `Lobby` implements
it with members taken from `rooms_` and hearing taken from `sent` (property
`ServesRooms`).

**TcpConnection.** `strand` is the queue of handlers that are ready, which is
what `Strand` is shown to be. `reading` and `writing` say where the operation of
that kind is: with the kernel, ended well or badly and waiting in the
io_context, or nowhere. `Kernel*` actions are the operating system and the peer
(external): reads bring one or several packets, writes take any number of
pieces, both may fail. `ReadCompletes` and `WriteCompletes` are the io_context
taking an operation that ended and putting its handler on the strand, so posts
and other completions may come between the two. `async_write` is a loop: `wrote`
starts the next `async_write_some` while pieces are left, and calls the
program's handler only then. `RunHandler` runs one handler: a posted send, a
posted packet task, a read completion, a write completion. `Send` is a handler
of anybody else that sends here (broadcast, heartbeat). `close` aborts the
operations still with the kernel and leaves those alone that have ended; an
operation started on a closed socket fails at once. A packet task answers, or
returns without an answer, or does not return at all: then, and at a `Stop`
(another session's handler that throws or waits for ever, or a signal),
`running` is FALSE and nothing is enabled. Posting goes on after a close, and
the frame that failed stays in `writeQ_`, as in the code. `posted` is a history
variable, the frames handed to `sendBytes`.

**FrameStream.** Frames are handed over, pieces are delivered in order, and the
connection may fail for good. `TcpConnection` implements it under
`up <- open /\ running`, the other variables by name (property `DeliversInOrder`).

**Strand.** One action per section of `strand_executor_service` that the lock or
the hand-over between threads makes atomic: `Enqueue` (under the lock),
`PushReady` (after it, without), `Schedule` or `InvokeAtOnce`, `Invoke`,
`RunReady`, `EndHandler`, `PushWaitingToReady` (under the lock), `Reschedule`. A
handler may throw: the thread then leaves the strand through the destructor of
`on_invoker_exit`, as in the code, and is gone from `io_context::run`. `posted`
and `ran` are history variables. `SerialQueue` has three actions (post, start,
finish); the refinement mapping puts the task that an owner has not pushed yet
in front of `ready_queue_`, and `waiting_queue_` behind it.

**Codec.** The stream is a sequence of cells: a byte of a body, a field of the
header, or one of the two cells that stand for the magic. Only the search for
the magic goes byte by byte in the code; everything else waits for a whole
header, so cutting inside a field shows nothing more than cutting before it.
The decoder reads cells by position, so it can take a body for a header as the
code can. One iteration of `decode`'s loop is one step and reads wait for the
end of the loop. The peer is this code's own `encode`, with a client that may
nest one message in another (`fragCache_` is kept by message id for that),
damage a frame (`Damages`), or send something else before the first frame
(`Dirt`). `sent` is what ought to come out. The chunk
size and the modulus of the checksum are constants (65521 in the code; 2 cells
and 251 in the runs, where bodies are a few cells long), and a packet's type is
always CHATMSG: nothing in the codec depends on the value except the test for
heartbeats.

**Sessions.** `conn` is where each connection of the outside world stands. An
accept completion is one of `Reject`, `Accept` and `AcceptReset`, according to
`isConnectionFull` and to whether the peer is still there (`remote_endpoint`
throws if not, which ends the process). A connection that closes changes
nothing in the tables. `DeleteSession` is enabled for any id, as a public method
is, and always fatal: the entry it looks up again after erasing it is a null
pointer, which `LogOut` dereferences. `beats` is a history variable, the parity
of the heartbeats a session was sent.

## 3. The runs

| run | configuration | what it shows |
|---|---|---|
| `rooms` | 3 players, 2 codes, capacities 1 and 2, ids up to 3 | the tables of rooms, codes and members under all call sequences; which calls give their locks back |
| `rooms_owner` | same | **violated**: no room ever has an owner |
| `rooms_leave` | same | **violated**: leaving a room with others in it blocks the process |
| `room_request` | chars of 3 bits, codes of 2 characters, 2 draws, every request up to 6 bytes | honest requests are understood, no outcome depends on memory beside the string |
| `lobby` | 2 sessions, 2 codes, 2 names (one not UTF-8), ids up to 2 (`IntMax` 3), one waiting packet each | answers, current rooms, broadcasts and rooms agree; the rooms follow `RoomManager`, the whole serves `RoomService` |
| `lobby_zero` | same | **violated**: `CurrentRoomId = 0` does not mean lobby |
| `connection` | 3 messages of 1 or 2 frames, 3 packets, frames in 2 pieces | order, one write at a time, what is held, service, refinement and liveness |
| `strand` | 3 threads, 5 tasks | one owner, the order of tasks, and that every task runs |
| `codec` | 4 bodies of 1 to 3 frames, 2 messages or heartbeats, 4 kinds of damage | what comes out is what was sent and undamaged, for every cutting; no parts of delivered messages stay |
| `codec_dirt` | 2 bodies, 3 messages or heartbeats, 4 kinds of dirt | after dirt only the first messages can be lost, perhaps all; decode returns and never sits on a complete frame |
| `codec_clear` | 3 bodies, 1 message, the same dirt | **violated**: half a magic is cleared as dirt |
| `sessions` | 4 connections, limit 2 | the limit, the tables, and two chains of handlers that must not break |

Bounds. *rooms*: with capacity 2 a third player meets FULL; capacity 1 is
refused; two codes and three ids let codes run out, collide, and belong to rooms
that are gone while others are made. *lobby*: two players make joins of an
occupied room, second rooms, broadcasts to others and the blocking leave; a full
room needs capacity + 1 players and is left to `rooms` (in the dispatcher a
refused join is one case, reached by ALREADY_IN_ROOM). `MaxRoomId` bounds
`createRoom`; in `Lobby` the bound is moved to the arrival of the request, so
that no request waits for ever because of it. One waiting packet per session is
enough to separate arrival from dispatch; the order within a session is the
subject of `connection`. *connection*: two pieces separate a partial write from
a complete one, two parts show that messages are not mixed, three messages put
one in the write, one in `writeQ_` and one on the strand; three packets allow a
read of two and another behind it. *codec*: one cell, a full chunk, a chunk and
one, and three chunks that begin with a magic; two messages are enough for one
inside the other and for one after a damaged one, and every cut of the stream is
tried, every sequence of cuts included. *room_request*: three bits give lengths
from -4 to 3, so negative, zero, exact and too long ones occur in both fields of
a six-byte request, and every request up to that length is tried; two draws make
a first that is taken and a last that is. *strand*: an owner, a thread that
posts behind it, and one that comes when the owner leaves; five tasks let both
queues hold two at a time. *codec_dirt*: noise shorter and longer than a header,
a frame of another version, a frame cut off in its header (the decoder then
takes the next frame's cells for the rest); three messages, so that one can be
lost while two follow. *sessions*: two connections fill the server, the third is
turned away, and the fourth waits while that happens.

Deadlock is not checked: the process may exit or block (that it blocks is the
finding of `rooms_leave`), and a connection whose bounds are used up rests.

Fairness. `FairSpec` of `TcpConnection` has weak fairness of `RunHandler`,
`ReadCompletes` and `WriteCompletes` (the io_context runs what is ready in turn,
and a strand hands its tasks out in order) and of the end of writes, one way or
the other. The last is an assumption about the peer: one that keeps its
connection open and never reads stalls `async_write`, and the code has no timeout
against that. Nothing is assumed about sends, reads or failures,
and nothing about handlers returning: a handler that throws or waits for ever is a
step to `~running`, which both liveness properties allow for. `FairSpec` of
`Strand` has weak fairness of each thread: what it is at goes on, handlers end,
and an idle thread takes an invoker that waits. `FairSpec` of `Codec` has weak
fairness of `Decode`, which is a loop of the only thread, and of reads while
something was sent. `FairSpec` of `Sessions` has weak fairness of the accept
handler while somebody waits, and of the timer: the io_context serves both in
turn. `RoomManager`, `Lobby` and `RoomRequest` state safety only and have no
fairness.

## 4. What is proved

Every theorem holds for all values of the constants that satisfy the named
assumptions of its module (`NoPlayerAssumption`, `RoomManagerAssumption`,
`RoomRequestAssumption`, `LobbyAssumption`, `SessionsAssumption`,
`StrandAssumption`, `TcpConnectionAssumption`, `CodecAssumption`), and the
bounds of the runs become arbitrary numbers.

**RoomManager** (`RoomManagerProofs`): `TypeCorrect`, `RoomsStaySound`,
`CodesResolve`, `LocksAlwaysReleased` (invariants); `CodesNeverRebound`,
`DeadRoomsStayDead`, `MembershipFollowsAnswers` (action properties). All follow
from one inductive invariant, `IInv` (theorem `Invariance`). Soundness of rooms
is not inductive by itself. That `leave` never leaves a room in a bad state
rests on a fact about blocking: either the room is empty afterwards, and
`leaveRoom` erases it in the same call, or the call does not return. That
`dissolveRoom` moves nobody rests on no room having an owner. So `IInv` adds
that between calls no mutex is held and every owner is null.
`LocksAlwaysReleased` adds the other half: a call that does not return holds the
mutex of one room, and is `setCapacity`, `startGame`, or a `leaveRoom` that
leaves somebody behind. There is one lemma per method of `Room` (what it does to
a room at rest) and one about `RemoveFirst` on a sequence without repetitions;
`TableStep` lifts them to the table, one lemma per action.
`MembershipFollowsAnswers` is a fact about the code as it is. If the ownership
code is repaired, `dissolveRoom` will move other players, and both the property
and the invariant have to say so: the proof breaks exactly there.

**RoomRequest** (`RoomRequestProofs`): every property of the module,
`RequestTypeCorrect`, `HonestAlwaysServed` and `OutcomeAlwaysInBytes`; so what
the run shows for eight values of a char, two characters of a code and six bytes
holds for 256 values, six characters and any request. The properties speak of
how a request ends; the invariant adds what was taken until then, and that the
offset behind the name is 2 and the signed second byte, whatever it is. From
this alone follows when the next read lies inside the string, and that an honest
request, whose second byte is the length of the name, has its password's length
exactly there. (`Half` is a constant instead of the number of bits because the
provers do not know powers.)

**Lobby** (`LobbyProofs`): every property of the module. `RoomsStepByStep`, the
rooms of the Lobby implement `RoomManager`, so what is proved there holds here;
`LobbyTypeCorrect`, `CurrentRoomsBacked`, `ViewsAreMembership`,
`OnlyMembersHear` (invariants); and `LobbyServesRooms`, the refinement of
`RoomService`. A step of the Lobby is classified (`StepKinds`) as no call, an
end, or a createRoom, joinRoom or leaveRoom, whose arguments the dispatcher got
from the tables. Membership then follows from the answer (the theorem above,
used through an instance of `RoomManagerProofs`), and in each case the new
`CurrentRoomId`, and what the client learns from the messages of the step, are
checked against it. The inductive invariant (`LobbyInvariance`) is the one of
`RoomManager` with these invariants and one more, that every room has four
seats: without it, a seat that `join` found free need not be one of those
`RoomService` counts. For the refinement, each player hears what is said in a
room once because `players_` holds nobody twice (`RoomsSound`), so a broadcast,
which goes through `players_` from front to back, has one copy for each
member.

**Sessions** (`SessionsProofs`): `SessionsTypeCorrect`, `LimitAlwaysHolds`,
`EverySessionHasItsPlayer`, `NullSessionsNeverAppear`, `OnceFullAlwaysFull`.
`TablesInStep` strengthens them: while the server runs, the sessions are exactly
the ids handed out so far, users and players were counted in the same calls, and
all are as many as the connections that were let in. That no id is missing is
why the size of a table that only grows can be read off a counter.

**Strand** (`StrandProofs`): `StrandTypeCorrect`, `AlwaysOneOwner`, and
`StrandIsSerial`, the refinement of `SerialQueue`. A strand would run tasks out
of order if it had two owners, or if an owner found tasks in `ready_queue_`
before it pushed its own; the invariant excludes both (`OwnerAlone`,
`TasksInHand`). No number of threads is assumed, nor that there is one.

**TcpConnection** (`TcpConnectionProofs`):
`ConnectionTypeCorrect`, `NeverTwoWrites`, `AlwaysServedInOrder`, and
`ConnectionDelivers`, the refinement of `FrameStream`. Where a write is can only
be told from the strand: `WriteInv` says that an operation under way and its
completions on the strand are at most one together, and `ReadInv` that the
packets on the strand are those read and not yet served, in order. For delivery,
`DInv` keeps account of every frame handed to `sendBytes`: the first d are
wholly on the wire, those in `writeQ_` follow, the front one perhaps in part, and
the sends on the strand are the rest, in order. `FramesAlwaysHeld` reads the
place of a frame off that account: the sends on the strand are numbered without
a gap, so the number of one is how many stand before it.

**Codec** (`CodecProofs`, over `CodecData`): `CodecTypeCorrect` and
`NoBacklogEver` for any dirt; and for a stream that begins with its first frame
(`wire = <<>>` in the initial state, which is what the run `codec` checks)
`DecodedIsSent` and `DeliveredLeaveNothing`. They hold for every chunk size,
modulus, body, damage and number of messages, and for every cutting of the
stream into reads.

`DecodesWhatWasSent` says nothing of a message that is under way. The invariant
(`StreamInv`, theorem `StreamIsFrames`) is about what decode has still to
handle: buffer and wire together are a sequence of frames, and handling these
one after the other leads from the packets given so far to those sent, never to
more on the way, and leaves `fragCache_` as the peer's next message needs it. A
read moves the cut between buffer and wire; a step of decode takes the first
frame off; the peer puts frames behind it. The last case is the work: a message
in one frame, in many, with another between its last two, and with each kind of
damage must do to packets and `fragCache_` what the invariant says (`Carries`,
`Ends` and the lemmas around them). TLC cannot evaluate `StreamInv`, which
quantifies over sequences of frames without a bound; what it implies TLC checks
in the run `codec`.

Behind dirt, `LossOnlyAtStart` proves `LosesOnlyAtStart` under one hypothesis,
`NoFalseFrame`. Without it the property is false: dirt can be the header of a
frame that takes the frames behind it for its body, with the checksum they happen
to have, and a body can contain a frame, which a decoder that has lost its place
takes for one. `NoFalseFrame` says that no such stream passes for a frame that
decode would give or keep something of: neither the end of some dirt nor the end
of a frame, with any frames of the peer behind it. A header found there by
mistake is allowed, and so is what it swallows, as long as the frame is one that
`handleSingleFrame` gives nothing of. The frames are those of the bodies and
damages at hand (`PeerFrames`), and TLC evaluates the hypothesis for those of
both runs before up to two frames (`MCNoFalseFrame`): a scrap of theirs that
begins with the magic and the version announces a body of at most three cells, so
that a false frame would end within the first frame behind it.

The invariant is `LossInv`. Either decode is `Lost`: nothing is out, nothing in
`fragCache_`, and the stream is such a scrap with frames behind it. Or it is
`Found`: `StreamInv` holds with the messages from some id on in place of all that
were sent. A lost decode drops cells, for whichever of its reasons and however
many; wherever this cuts the stream, what is left is a scrap or begins with a
frame (`CutAnywhere`), and in the second case it has found its place. Which frame
that is cannot be said beforehand, so `Lost` says of each of them that from there on
the messages with some id and later come out (`Hopeful`). It may be in the middle of
a message, also of one with another message amid its frames: such a rest gives
nothing, leaves in `fragCache_` what no later message minds, and does not disturb
the message amid (`LateStays`, `LeftEnds`, `NestedLate`).

The two recursions in encode are over data of any length. That the pieces of a
body joined are the body (`PiecesJoin`), and that one changed cell changes the
checksum (`SumChanges`; nothing else of Adler's function is used), are proved by
induction nevertheless. The prover has no rule of induction for formulas, but it
has well-founded relations, so a set of naturals that is not empty has a least
element, and that is induction for sets (`Induction`). A recursive function is
first shown to exist and then to be what its definition chooses.

Only model-checked: liveness (out of the prover's reach) and the four violations.

## 5. Findings

1. **A room has no owner** (`rooms_owner`). The constructor parameter `owner`
   hides the member (Room.cpp:6), which stays null; `dissolveRoom` refuses
   everybody.
2. **Leaving blocks the server** (`rooms_leave`). `leave` holds `mu_` and
   reaches `containsPlayer`, which locks it again (Room.cpp:177). Any LEAVEROOM
   from a room with two players ends all service. `setCapacity` and
   `startGame` have the same shape (Room.cpp:119, Room.cpp:128), and no request
   reaches them yet. `LocksReleased` shows that no other call blocks.
3. **`CurrentRoomId = 0` is not the lobby** (`lobby_zero`). CREATEROOM does not
   set it, so the creator's chat goes nowhere until it leaves and joins again.
4. **A good frame is cleared as dirt** (`codec_clear`). `decode` clears the
   buffer when it holds no whole magic, also when it ends in the first bytes of
   one (FrameProtocalCodec.hpp:124).

Seen while modelling, with no document that says otherwise: LEAVEROOM with an
unknown code gets no answer; a refused JOINROOM still broadcasts JOINED_ROOM to
the sender's current room; a chat packet with an empty body in an occupied room
ends the process, as does LISTROOMS while a room's name is not UTF-8, and a
CREATEROOM that ends in its name or right behind it (one cut off in the password
does not); the password is never looked at; a name whose length byte is -3 makes
the next read start before the string; `genRoomCode` draws letters and digits
while a remark in RoomUtils.hpp:10 speaks of digits; a write error leaves a queue
that only grows; a peer that resets its connection before the accept handler
runs ends the process (`remote_endpoint` throws, ClientSession.cpp:35 and
Server.cpp:38); sessions whose connection closed count towards the limit for
ever; `DeleteSession` is fatal whenever it is called; after a frame that throws
(`//断开连接`, FrameProtocalCodec.hpp:152, "disconnect") the connection goes on,
and the parts of a message whose total checksum was wrong stay in `fragCache_`.

## 6. Not modelled, and the plan

The repository's own code is about 1,500 lines, and the operations of it that
change state are actions or operators of the modules above. The other 195,000
lines under `src/` are vendored: nlohmann's json and the whole of asio. They are
left out, on purpose, but for what the server's order of events rests on: the
strand (`Strand`), and how operations on a socket start, proceed, end and are
aborted (`TcpConnection`: the loop of `async_write`, the reactor's completions).
The rest of asio is portability, templates and features the server does not use,
and json is pure functions on values. A model of either would say nothing about
this server, so the share of lines covered stays small.

Left out of the server's own code: JSONTranslator (formatting; its one exception
is in `Lobby!list`); `RoomUtils::isValidRoomCode`, `Room::sendTo`,
`JSONTranslator::ParseCommand` and `createGameCommandJSON` (no callers);
GameRoom.cpp (empty). Contention on the program's mutexes is left out because
there is one thread. `Lobby` is not composed with `Sessions`: they meet in
CreateSession, which `Lobby` has as its initial sessions, and in DeleteSession,
which ends the process whenever it is called, so the composition has no step that
the parts do not have.
