---------------------------- MODULE TcpConnection ----------------------------
(***************************************************************************)
(* One connection (TcpConnection.hpp) with the session that uses it        *)
(* (ClientSession.cpp): its strand, its write queue, and the two           *)
(* asynchronous operations, one read and one write, it has under way.      *)
(*                                                                         *)
(* The strand runs what was posted to it one after the other in the order  *)
(* of posting (module Strand).  An operation that has ended, well or badly *)
(* and be it at once, first waits in the io_context, and then its handler  *)
(* is put on the strand: posts may come between.  async_write is a loop of *)
(* async_write_some, each of which comes back through the strand.          *)
(***************************************************************************)
EXTENDS Integers, SequencesExt

CONSTANTS MaxMessages,    \* bound: messages sent on this connection
          MaxParts,       \* bound: frames that encode makes of a message
          MaxPackets,     \* bound: packets the peer sends
          Pieces          \* in how many parts the kernel may take a frame

ASSUME TcpConnectionAssumption ==
    /\ MaxMessages \in Nat /\ MaxPackets \in Nat
    /\ MaxParts \in Nat \ {0} /\ Pieces \in Nat \ {0}

VARIABLES
    running,     \* whether the thread in io_context::run goes on
    open,        \* socket_.is_open()
    strand,      \* the handlers that are ready to run, in order
    writeQ_,
    writing,     \* what has become of async_write_some,
    left,        \* and how many pieces of the front frame are not taken yet
    reading,     \* what has become of async_read_some,
    read_buffer_,\* and how many packets end in what it read
    wire,        \* what the peer has received
    arrived,     \* how many packets the peer has sent and we have read
    served,      \* the packets msgHandler_ was called with, in order
    posted,      \* history: the frames handed to sendBytes, in order
    messages     \* sentMsgUid_

writeVars == <<writeQ_, writing, left, wire>>
readVars == <<reading, read_buffer_, arrived, served>>
sendVars == <<posted, messages>>
vars == <<running, open, strand, writeVars, readVars, sendVars>>

Frame == [msg : 0..(MaxMessages - 1), part : 1..MaxParts]

Handler ==
    [kind : {"send"}, frame : Frame]                     \* sendBytes
      \cup [kind : {"packet"}, packet : 1..MaxPackets]   \* post_to_strand
      \cup [kind : {"read", "readError", "wrote", "writeError"}]

\* An operation is with the kernel, or ended and waiting in the io_context.
Operation == {"none", "kernel", "done", "failed"}

Count(kind) == Cardinality({k \in DOMAIN strand : strand[k].kind = kind})

TypeOK ==
    /\ running \in BOOLEAN /\ open \in BOOLEAN
    /\ strand \in Seq(Handler)
    /\ writeQ_ \in Seq(Frame)
    /\ writing \in Operation /\ left \in 0..Pieces
    /\ reading \in Operation /\ read_buffer_ \in 0..MaxPackets
    /\ wire \in Seq([frame : Frame, piece : 1..Pieces])
    /\ arrived \in 0..MaxPackets
    /\ served \in Seq(1..MaxPackets)
    /\ posted \in Seq(Frame)
    /\ messages \in 0..MaxMessages

\* After start: the first read is under way.
Init ==
    /\ running = TRUE /\ open = TRUE
    /\ strand = <<>>
    /\ writeQ_ = <<>>
    /\ writing = "none" /\ left = 0
    /\ reading = "kernel" /\ read_buffer_ = 0
    /\ wire = <<>>
    /\ arrived = 0
    /\ served = <<>>
    /\ posted = <<>>
    /\ messages = 0

-----------------------------------------------------------------------------
(* The kernel, the peer and the reactor.                                   *)

\* An operation that starts on a closed socket fails at once.
Started == IF open THEN "kernel" ELSE "failed"

\* A read brings the end of some number of packets.
KernelRead ==
    /\ running /\ reading = "kernel"
    /\ \E n \in 1..(MaxPackets - arrived) : arrived' = arrived + n /\ read_buffer_' = n
    /\ reading' = "done"
    /\ UNCHANGED <<running, open, strand, writeVars, served, sendVars>>

\* The peer closed its end or reset the connection.
KernelReadFails ==
    /\ running /\ reading = "kernel"
    /\ reading' = "failed"
    /\ UNCHANGED <<running, open, strand, writeVars, read_buffer_, arrived, served, sendVars>>

KernelWrite ==
    /\ running /\ writing = "kernel"
    /\ \E n \in 1..left :
           /\ wire' = wire \o [i \in 1..n |->
                  [frame |-> Head(writeQ_), piece |-> Pieces - left + i]]
           /\ left' = left - n
    /\ writing' = "done"
    /\ UNCHANGED <<running, open, strand, writeQ_, readVars, sendVars>>

KernelWriteFails ==
    /\ running /\ writing = "kernel"
    /\ writing' = "failed"
    /\ UNCHANGED <<running, open, strand, writeQ_, left, wire, readVars, sendVars>>

\* The io_context takes an operation that has ended out of its queue and hands
\* its handler to the strand.
ReadCompletes ==
    /\ running /\ reading \in {"done", "failed"}
    /\ strand' = Append(strand, [kind |-> IF reading = "done" THEN "read" ELSE "readError"])
    /\ reading' = "none"
    /\ UNCHANGED <<running, open, writeVars, read_buffer_, arrived, served, sendVars>>

WriteCompletes ==
    /\ running /\ writing \in {"done", "failed"}
    /\ strand' = Append(strand, [kind |-> IF writing = "done" THEN "wrote" ELSE "writeError"])
    /\ writing' = "none"
    /\ UNCHANGED <<running, open, writeQ_, left, wire, readVars, sendVars>>

-----------------------------------------------------------------------------
(* What handlers do.  rest is the strand without the handler that runs.    *)

\* encode and sendBytes: the frames of one message, in one go.
FramesOf(parts) == [k \in 1..parts |-> [msg |-> messages, part |-> k]]

Sends(frames) == [k \in DOMAIN frames |-> [kind |-> "send", frame |-> frames[k]]]

sendMessage(parts, rest) ==
    /\ messages < MaxMessages
    /\ messages' = messages + 1
    /\ posted' = posted \o FramesOf(parts)
    /\ strand' = rest \o Sends(FramesOf(parts))

\* async_write of the front of queue.
doWrite(queue) ==
    /\ writeQ_' = queue
    /\ writing' = Started
    /\ left' = Pieces

pushAlwaysWrites(frame) == doWrite(Append(writeQ_, frame))

push(frame) ==
    IF writeQ_ = <<>>
    THEN doWrite(<<frame>>)
    ELSE writeQ_' = Append(writeQ_, frame) /\ UNCHANGED <<writing, left>>

popOnly(queue) == writeQ_' = Tail(queue) /\ UNCHANGED <<writing, left>>

\* The handler given to async_write, on success.
pop(queue) ==
    IF Len(queue) > 1
    THEN doWrite(Tail(queue))
    ELSE writeQ_' = <<>> /\ UNCHANGED <<writing, left>>

\* async_write goes on until the whole frame is taken.
wrote ==
    IF left > 0
    THEN writing' = Started /\ UNCHANGED <<writeQ_, left>>
    ELSE pop(writeQ_)

\* Operations still with the kernel end with operation_aborted.
Aborted(op) == IF op = "kernel" THEN "failed" ELSE op

closeDropsQueue ==
    /\ open' = FALSE
    /\ writing' = Aborted(writing)
    /\ reading' = Aborted(reading)
    /\ writeQ_' = <<>>
    /\ UNCHANGED left

\* The frame that failed, and what is behind it, stay in writeQ_.
close ==
    /\ open' = FALSE
    /\ writing' = Aborted(writing)
    /\ reading' = Aborted(reading)
    /\ UNCHANGED <<writeQ_, left>>

FirstPacketOnly(n) == <<[kind |-> "packet", packet |-> arrived - n + 1]>>

PacketTasksFromNext(n) == [k \in 1..n |-> [kind |-> "packet", packet |-> arrived + k]]

\* onRawDataReceived posts a task for each of the n packets just read.
PacketTasks(n) == [k \in 1..n |-> [kind |-> "packet", packet |-> arrived - n + k]]

\* Then startRead reads on.
read(rest) ==
    /\ strand' = rest \o PacketTasks(read_buffer_)
    /\ reading' = Started
    /\ UNCHANGED read_buffer_

\* msgHandler_ may answer on this connection.  It may also not return: it throws,
\* which ends io_context::run, or waits for ever in leaveRoom (Lobby's Throw and
\* "blocked"), in either case before it answers.
packet(n, rest) ==
    /\ served' = Append(served, n)
    /\ \/ \E parts \in 1..MaxParts : sendMessage(parts, rest) /\ UNCHANGED running
       \/ strand' = rest /\ UNCHANGED sendVars /\ running' \in BOOLEAN

RunHandler ==
    /\ running /\ strand # <<>>
    /\ UNCHANGED <<wire, arrived>>
    /\ LET h == Head(strand)
           rest == Tail(strand)
       IN \/ /\ \/ h.kind = "send" /\ push(h.frame)
                \/ h.kind = "wrote" /\ wrote
             /\ strand' = rest
             /\ UNCHANGED <<running, open, reading, read_buffer_, served, sendVars>>
          \/ /\ h.kind \in {"writeError", "readError"} /\ close
             /\ strand' = rest
             /\ UNCHANGED <<running, read_buffer_, served, sendVars>>
          \/ /\ h.kind = "read" /\ read(rest)
             /\ UNCHANGED <<running, open, writeQ_, writing, left, served, sendVars>>
          \/ /\ h.kind = "packet" /\ packet(h.packet, rest)
             /\ UNCHANGED <<open, writeQ_, writing, left, reading, read_buffer_>>

\* Somebody else's handler sends here: a broadcast, a heartbeat, the welcome.
Send ==
    /\ running
    /\ \E parts \in 1..MaxParts : sendMessage(parts, strand)
    /\ UNCHANGED <<running, open, writeVars, readVars>>

\* A handler of somebody else throws or never returns, or a signal ends the server.
Stop ==
    /\ running
    /\ running' = FALSE
    /\ UNCHANGED <<open, strand, writeVars, readVars, sendVars>>

Next ==
    \/ KernelRead \/ KernelReadFails \/ KernelWrite \/ KernelWriteFails
    \/ ReadCompletes \/ WriteCompletes
    \/ RunHandler
    \/ Send \/ Stop

Spec == Init /\ [][Next]_vars

\* While it goes on, the io_context runs every handler that is ready, and the
\* kernel ends every write it was given, well or badly.  Nobody has to send, and
\* nobody promises that handlers return.
FairSpec ==
    /\ Spec
    /\ WF_vars(RunHandler) /\ WF_vars(ReadCompletes) /\ WF_vars(WriteCompletes)
    /\ WF_vars(KernelWrite \/ KernelWriteFails)

-----------------------------------------------------------------------------
(* Properties.                                                             *)

\* The peer receives what sendBytes was given: in order, nothing twice, nothing
\* left out, and the frames of a message never mixed with those of another,
\* whoever sends when, and however the kernel cuts the writes.
FS == INSTANCE FrameStream WITH up <- open /\ running
DeliversInOrder == FS!Spec

WritesUnderWay ==
    (IF writing = "none" THEN 0 ELSE 1) + Count("wrote") + Count("writeError")

\* Two writes are never under way at a time (the bytes would mix), and while
\* the socket is open a queue that is not empty has one under way: no frame
\* waits for a completion that will not come.
OneWrite ==
    /\ WritesUnderWay <= 1
    /\ open => (writeQ_ # <<>> <=> WritesUnderWay = 1)

\* A frame leaves the server by the wire or not at all: of whatever was handed
\* to sendBytes, in order, the first frames are wholly written, and the queue
\* and then the strand hold the rest, also for ever after the connection failed.
FramesHeld ==
    LET sends == {k \in DOMAIN strand : strand[k].kind = "send"}
        written == Len(posted) - Len(writeQ_) - Cardinality(sends)
        place(k) == Cardinality({j \in sends : j <= k})
    IN /\ written >= 0 /\ Pieces * written <= Len(wire)
       /\ \A i \in DOMAIN writeQ_ : writeQ_[i] = posted[written + i]
       /\ \A k \in sends :
              strand[k].frame = posted[written + Len(writeQ_) + place(k)]

\* Packets are handled in the order they arrived, none twice and none left out,
\* also those that wait on the strand when the socket closes.
ServedInOrder == \A k \in DOMAIN served : served[k] = k

\* A frame that was handed to sendBytes reaches the peer unless the connection
\* closes or the server stops serving.
FramesArrive ==
    \A i \in 1..(MaxMessages * MaxParts) :
        Len(posted) >= i ~> (Len(wire) >= i * Pieces \/ ~open \/ ~running)

\* Every packet that was read is handled, also when the connection fails
\* meanwhile, unless one handled before it, or somebody else's, ends all service.
PacketsServed ==
    \A n \in 1..MaxPackets : arrived >= n ~> (Len(served) >= n \/ ~running)

=============================================================================
