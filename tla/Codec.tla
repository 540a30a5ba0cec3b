-------------------------------- MODULE Codec --------------------------------
(***************************************************************************)
(* The framing of one direction of a connection (FrameProtocalCodec.hpp):  *)
(* encode on the side of the peer, which uses the same header file, and    *)
(* decode, which is fed whatever part of the stream a read brings.         *)
(*                                                                         *)
(* The stream is a sequence of cells.  A byte of a body is a cell, so is   *)
(* each field of the header, and the magic is two: the search for it goes  *)
(* byte by byte, all else waits for a whole header.  CHUNK_SIZE and the    *)
(* modulus of the checksum are scaled down with them.                      *)
(*                                                                         *)
(* One iteration of decode's loop is one step; reads wait until it ends.   *)
(***************************************************************************)
EXTENDS Integers, SequencesExt

CONSTANTS CHUNK_SIZE,
          MOD,            \* the modulus of the checksum
          Bodies,         \* the messages the peer may send
          Dirt,           \* what may precede the first frame of the stream
          Damages,        \* what an unfaithful peer does to a frame
          MaxMessages     \* bound: messages and heartbeats the peer sends

ASSUME CodecAssumption ==
    /\ CHUNK_SIZE \in Nat \ {0} /\ MaxMessages \in Nat
    /\ MOD \in Nat \ {0, 1} /\ MOD <= 65536     \* a and b are of 16 bits
    /\ Bodies \subseteq Seq(Nat) \ {<<>>}       \* encode refuses an empty body
    /\ Dirt \subseteq Seq(Nat)
    /\ Damages \subseteq {"missing", "payload", "checksum", "seq"}

VARIABLES
    wire,        \* the cells sent and not yet read
    buffer_,
    fragCache_,  \* by message id, the parts that have come; <<>> is missing
    decoding,    \* whether decode is running
    out,         \* history: the packets decode gave
    sentMsgUid_, \* of the peer
    sent,        \* history: the packets the peer sent undamaged, in the order
                 \* in which their last frames go out
    count        \* history: how much the peer sent, for the bound

peerVars == <<sentMsgUid_, sent, count>>
vars == <<wire, buffer_, fragCache_, decoding, out, peerVars>>

-----------------------------------------------------------------------------
(* proto.h                                                                 *)

PROTO_MAGIC == <<91, 92>>
VERSION == 1
CHATMSG == 0
HEARTBEAT == 1

FRAGMENTED(flags) == flags % 2 = 1
ENDPART(flags) == (flags \div 4) % 2 = 1

PROTO_HEADER_SIZE == 10

\* The header at the front of cells.
HeaderOf(cells) ==
    [version |-> cells[3], ptype |-> cells[4], payload_len |-> cells[5],
     flags |-> cells[6], msg_id |-> cells[7], seq |-> cells[8],
     total |-> cells[9], checksum |-> cells[10]]

DecodedPacket == [msgId : Nat, ptype : Nat, body : Seq(Nat)]

adler32(cells) ==
    LET sum[k \in 0..Len(cells)] ==
            IF k = 0 THEN [a |-> 1, b |-> 0]
            ELSE LET a == (sum[k - 1].a + cells[k]) % MOD
                 IN [a |-> a, b |-> (sum[k - 1].b + a) % MOD]
    IN sum[Len(cells)].b * 65536 + sum[Len(cells)].a

-----------------------------------------------------------------------------
(* encode                                                                  *)

createProtoHeader(ptype, len, id, flags, seq, total, checksum) ==
    PROTO_MAGIC \o <<VERSION, ptype, len, flags, id, seq, total, checksum>>

HeartbeatFrame == createProtoHeader(HEARTBEAT, 0, 0, 0, 0, 0, 0)

Smaller(m, n) == IF m < n THEN m ELSE n

totalParts(body) == (Len(body) + CHUNK_SIZE - 1) \div CHUNK_SIZE

msgPiece(body, i) ==
    SubSeq(body, i * CHUNK_SIZE + 1, Smaller((i + 1) * CHUNK_SIZE, Len(body)))

\* A long body goes in chunks, each with its own checksum but the last, which
\* carries that of the whole.
Chunk(id, body, i) ==
    LET piece == msgPiece(body, i)
        last == i = totalParts(body) - 1
    IN createProtoHeader(CHATMSG, Len(piece), id, IF last THEN 7 ELSE 3, i,
                         totalParts(body), adler32(IF last THEN body ELSE piece))
         \o piece

encode(id, body) ==
    IF Len(body) <= CHUNK_SIZE
    THEN <<createProtoHeader(CHATMSG, Len(body), id, 2, 0, 0, adler32(body)) \o body>>
    ELSE [k \in 1..totalParts(body) |-> Chunk(id, body, k - 1)]

-----------------------------------------------------------------------------
(* The peer.                                                               *)

PacketOf(id, body) == [msgId |-> id, ptype |-> CHATMSG, body |-> body]

PeerSends(frames, packets, ids) ==
    /\ count + ids <= MaxMessages
    /\ count' = count + ids
    /\ wire' = wire \o FlattenSeq(frames)
    /\ sent' = sent \o packets
    /\ UNCHANGED <<buffer_, fragCache_, decoding, out>>

sendMessage ==
    \E body \in Bodies :
        /\ PeerSends(encode(sentMsgUid_, body), <<PacketOf(sentMsgUid_, body)>>, 1)
        /\ sentMsgUid_' = sentMsgUid_ + 1

sendHeartBeat ==
    /\ PeerSends(<<HeartbeatFrame>>, <<>>, 1)
    /\ UNCHANGED sentMsgUid_

\* Two messages at once: the second goes out before the last frame of the first.
sendNested ==
    \E outer, inner \in Bodies :
        LET frames == encode(sentMsgUid_, outer)
        IN /\ Len(frames) > 1
           /\ PeerSends(Front(frames) \o encode(sentMsgUid_ + 1, inner) \o <<Last(frames)>>,
                        <<PacketOf(sentMsgUid_ + 1, inner), PacketOf(sentMsgUid_, outer)>>, 2)
           /\ sentMsgUid_' = sentMsgUid_ + 2

\* One frame is left out, or sent with another cell in its body, another
\* checksum, or a seq out of range.
Damaged(frames, k, how) ==
    CASE how = "missing" -> RemoveAt(frames, k)
      [] how = "payload" -> [frames EXCEPT ![k][PROTO_HEADER_SIZE + 1] = @ + 1]
      [] how = "checksum" -> [frames EXCEPT ![k][10] = @ + 1]
      [] how = "seq" -> [frames EXCEPT ![k][8] = frames[k][9]]

sendDamaged ==
    \E body \in Bodies, how \in Damages :
        LET frames == encode(sentMsgUid_, body)
        IN \E k \in DOMAIN frames :
            /\ how = "seq" => Len(frames) > 1     \* else seq is not looked at
            /\ PeerSends(Damaged(frames, k, how), <<>>, 1)
            /\ sentMsgUid_' = sentMsgUid_ + 1

-----------------------------------------------------------------------------
(* decode                                                                  *)

Init ==
    /\ wire \in Dirt
    /\ buffer_ = <<>>
    /\ fragCache_ = <<>>
    /\ decoding = FALSE
    /\ out = <<>>
    /\ sentMsgUid_ = 0
    /\ sent = <<>>
    /\ count = 0

\* A read brings any part of what was sent, and calls decode with it.
Read ==
    /\ ~decoding
    /\ \E n \in 1..Len(wire) :
           /\ buffer_' = buffer_ \o SubSeq(wire, 1, n)
           /\ wire' = SubSeq(wire, n + 1, Len(wire))
    /\ decoding' = TRUE
    /\ UNCHANGED <<fragCache_, out, peerVars>>

Drop(n) == buffer_' = SubSeq(buffer_, n + 1, Len(buffer_))

MagicAt(i) == SubSeq(buffer_, i + 1, i + Len(PROTO_MAGIC)) = PROTO_MAGIC

hdr == HeaderOf(buffer_)

HaveHeader == decoding /\ Len(buffer_) >= PROTO_HEADER_SIZE
InStep == HaveHeader /\ MagicAt(0)
HaveVersion == InStep /\ hdr.version = VERSION
HavePayload ==
    /\ HaveVersion /\ hdr.ptype # HEARTBEAT
    /\ Len(buffer_) >= PROTO_HEADER_SIZE + hdr.payload_len

WaitForHeader ==
    /\ decoding /\ Len(buffer_) < PROTO_HEADER_SIZE
    /\ decoding' = FALSE
    /\ UNCHANGED <<wire, buffer_, fragCache_, out, peerVars>>

DropToBefore(i) == Drop(i - 1) /\ UNCHANGED decoding

DropAndReturn(i) == Drop(i) /\ decoding' = FALSE

\* The magic at i becomes the front of the buffer, and the loop goes on.
DropTo(i) == Drop(i) /\ UNCHANGED decoding

\* The next magic is looked for.
Resync ==
    /\ HaveHeader /\ ~MagicAt(0)
    /\ \E i \in 1..(Len(buffer_) - Len(PROTO_MAGIC)) :
           /\ MagicAt(i)
           /\ \A j \in 1..(i - 1) : ~MagicAt(j)
           /\ DropTo(i)
    /\ UNCHANGED <<wire, fragCache_, out, peerVars>>

NoMagic ==
    /\ HaveHeader
    /\ \A i \in 0..(Len(buffer_) - Len(PROTO_MAGIC)) : ~MagicAt(i)
    /\ buffer_' = <<>>
    /\ decoding' = FALSE
    /\ UNCHANGED <<wire, fragCache_, out, peerVars>>

VersionMismatch ==
    /\ InStep /\ hdr.version # VERSION
    /\ buffer_' = <<>>
    /\ decoding' = FALSE
    /\ UNCHANGED <<wire, fragCache_, out, peerVars>>

\* Only the header goes, whatever payload_len says.
Heartbeat ==
    /\ HaveVersion /\ hdr.ptype = HEARTBEAT
    /\ Drop(PROTO_HEADER_SIZE)
    /\ UNCHANGED <<wire, fragCache_, decoding, out, peerVars>>

WaitForPayload ==
    /\ HaveVersion /\ hdr.ptype # HEARTBEAT
    /\ ~HavePayload
    /\ decoding' = FALSE
    /\ UNCHANGED <<wire, buffer_, fragCache_, out, peerVars>>

Forget(id) ==
    fragCache_' = [i \in DOMAIN fragCache_ \ {id} |-> fragCache_[i]]

Keep(id, parts) ==
    fragCache_' = [i \in DOMAIN fragCache_ \cup {id} |->
                      IF i = id THEN parts ELSE fragCache_[i]]

Deliver(body) ==
    out' = Append(out, [msgId |-> hdr.msg_id, ptype |-> hdr.ptype, body |-> body])

WholeMessage(body) ==
    /\ IF adler32(body) = hdr.checksum THEN Deliver(body) ELSE UNCHANGED out
    /\ UNCHANGED fragCache_

\* A message's parts, with the total of the first of them to come.
PartsOf(id, total) ==
    IF id \in DOMAIN fragCache_ THEN fragCache_[id] ELSE [k \in 1..total |-> <<>>]

MiddlePart(id, parts, body) ==
    /\ IF adler32(body) = hdr.checksum THEN Keep(id, parts) ELSE Forget(id)
    /\ UNCHANGED out

LastPartUnchecked(id, parts) == Deliver(FlattenSeq(parts)) /\ Forget(id)

LastPartClears(id, parts) ==
    LET full == FlattenSeq(parts)
    IN IF adler32(full) = hdr.checksum
       THEN Deliver(full) /\ Keep(id, <<>>)
       ELSE Forget(id) /\ UNCHANGED out

\* A message with a part missing is forgotten; of one whose checksum is wrong
\* the parts stay.
LastPart(id, parts) ==
    LET full == FlattenSeq(parts)
    IN IF \E k \in DOMAIN parts : parts[k] = <<>>
       THEN Forget(id) /\ UNCHANGED out
       ELSE IF adler32(full) = hdr.checksum
            THEN Deliver(full) /\ Forget(id)
            ELSE Keep(id, parts) /\ UNCHANGED out

Fragment(body) ==
    LET id == hdr.msg_id
        parts == PartsOf(id, hdr.total)
        placed == [parts EXCEPT ![hdr.seq + 1] = body]
    IN IF hdr.seq >= Len(parts)
       THEN Forget(id) /\ UNCHANGED out
       ELSE IF ENDPART(hdr.flags) THEN LastPart(id, placed)
            ELSE MiddlePart(id, placed, body)

DropAll(n) == buffer_' = <<>>

DropFrame(n) == Drop(PROTO_HEADER_SIZE + n)

\* What handleSingleFrame throws is caught, and the frame goes either way.
handleSingleFrame ==
    /\ HavePayload
    /\ LET body == SubSeq(buffer_, PROTO_HEADER_SIZE + 1,
                          PROTO_HEADER_SIZE + hdr.payload_len)
       IN IF FRAGMENTED(hdr.flags) THEN Fragment(body) ELSE WholeMessage(body)
    /\ DropFrame(hdr.payload_len)
    /\ UNCHANGED <<wire, decoding, peerVars>>

Decode ==
    \/ WaitForHeader \/ Resync \/ NoMagic \/ VersionMismatch
    \/ Heartbeat \/ WaitForPayload \/ handleSingleFrame

Peer == sendMessage \/ sendHeartBeat \/ sendNested \/ sendDamaged

Next == Peer \/ Read \/ Decode

Spec == Init /\ [][Next]_vars

\* decode is a loop of the only thread: it runs on.  Reads come while there is
\* something to read.
FairSpec == Spec /\ WF_vars(Decode) /\ WF_vars(Read)

-----------------------------------------------------------------------------
(* Properties.                                                             *)

TypeOK ==
    /\ wire \in Seq(Nat)
    /\ buffer_ \in Seq(Nat)
    /\ DOMAIN fragCache_ \subseteq Nat
    /\ \A id \in DOMAIN fragCache_ : fragCache_[id] \in Seq(Seq(Nat)) \ {<<>>}
    /\ decoding \in BOOLEAN
    /\ out \in Seq(DecodedPacket)
    /\ sentMsgUid_ \in Nat
    /\ sent \in Seq(DecodedPacket)
    /\ count \in 0..MaxMessages

AllRead == wire = <<>> /\ ~decoding

\* Wherever reads cut the stream, decode gives the messages that were sent whole,
\* in the order in which they became complete, and nothing else; a damaged
\* message costs no other, also when one is sent amid the parts of another.
DecodesWhatWasSent ==
    /\ IsPrefix(out, sent)
    /\ AllRead => out = sent /\ buffer_ = <<>>

\* When decode has returned, what it kept is the beginning of one frame: it
\* never sits on a frame that is complete.
NoBacklog ==
    (~decoding /\ Len(buffer_) >= PROTO_HEADER_SIZE) =>
        /\ MagicAt(0)
        /\ hdr.version = VERSION /\ hdr.ptype # HEARTBEAT
        /\ Len(buffer_) < PROTO_HEADER_SIZE + hdr.payload_len

\* A message that was delivered leaves no parts behind.
NoPartsOfDelivered ==
    \A k \in DOMAIN out : out[k].msgId \notin DOMAIN fragCache_

\* No magic in the buffer is taken for a buffer with nothing but dirt in it: no
\* frame begins in what is cleared, neither there nor with its magic half read.
OnlyDirtCleared ==
    [][ NoMagic =>
          LET stream == buffer_ \o wire
          IN \A i \in 1..Smaller(Len(buffer_), Len(stream) - 1) :
                 SubSeq(stream, i, i + 1) # PROTO_MAGIC ]_vars

PacketsFrom(id, packets) ==
    LET from[k \in 0..Len(packets)] ==
            IF k = 0 THEN <<>>
            ELSE IF packets[k].msgId >= id THEN Append(from[k - 1], packets[k])
            ELSE from[k - 1]
    IN from[Len(packets)]

\* The packets sent with this id and later ones.
SentFrom(id) == PacketsFrom(id, sent)

\* Dirt before the first frame, however reads cut it, may cost the messages that
\* begin first; from the first one that is delivered on, none is lost.
LosesOnlyAtStart ==
    \E id \in 0..sentMsgUid_ :
        /\ IsPrefix(out, SentFrom(id))
        /\ AllRead => out = SentFrom(id)

-----------------------------------------------------------------------------
(* LosesOnlyAtStart asks something of Dirt and Bodies: while decode has    *)
(* not found its place, no cells that are no frame may pass for one.       *)

WithDamages(frames) ==
    {frames} \cup {Damaged(frames, k, how) : k \in DOMAIN frames, how \in Damages}

Sendings ==
    UNION {WithDamages(encode(id, body)) : id \in 0..(MaxMessages - 1), body \in Bodies}

PeerFrames == {HeartbeatFrame} \cup UNION {Range(frames) : frames \in Sendings}

Remains(cells, first) == {SubSeq(cells, i, Len(cells)) : i \in first..Len(cells)}

\* What may stand before a frame: the end of the dirt, or of a frame whose
\* beginning went with the dirt.
Scraps ==
    (UNION {Remains(dirt, 1) : dirt \in Dirt}) \cup (UNION {Remains(f, 2) : f \in PeerFrames})

\* Nothing is delivered and nothing kept of such a message, when nothing else of
\* it has come.
Refused(h, body) ==
    \/ h.ptype = HEARTBEAT
    \/ FRAGMENTED(h.flags) /\ h.seq >= h.total
    \/ FRAGMENTED(h.flags) /\ ENDPART(h.flags) /\ h.total > 1
    \/ ~(FRAGMENTED(h.flags) /\ ENDPART(h.flags)) /\ adler32(body) # h.checksum

FalseFrame(stream) ==
    LET h == HeaderOf(stream)
    IN /\ Len(stream) >= PROTO_HEADER_SIZE
       /\ SubSeq(stream, 1, 2) = PROTO_MAGIC /\ h.version = VERSION
       /\ Len(stream) >= PROTO_HEADER_SIZE + h.payload_len
       /\ ~Refused(h, SubSeq(stream, PROTO_HEADER_SIZE + 1,
                             PROTO_HEADER_SIZE + h.payload_len))

NoFalseFrame ==
    \A scrap \in Scraps, frames \in Seq(PeerFrames) :
        ~FalseFrame(scrap \o FlattenSeq(frames))

\* decode returns from every call, whatever it was given.
DecodeReturns == decoding ~> ~decoding

=============================================================================
