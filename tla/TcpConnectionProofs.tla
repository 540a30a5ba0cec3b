------------------------- MODULE TcpConnectionProofs -------------------------
(***************************************************************************)
(* Theorems about TcpConnection, for any number of messages, frames,       *)
(* packets and pieces.                                                     *)
(*                                                                         *)
(* Neither OneWrite nor ServedInOrder is inductive: both depend on what    *)
(* waits on the strand.  The invariant says that each operation has at     *)
(* most one completion there, and only once the operation itself is over,  *)
(* and that the packets there are, in order, those read and not served.    *)
(*                                                                         *)
(* A connection implements FrameStream, for any number of messages, frames *)
(* and pieces: DeliversInOrder is a theorem.                               *)
(*                                                                         *)
(* The invariant keeps account of every frame handed to sendBytes: the     *)
(* first d are wholly on the wire, those of writeQ_ follow, the front one  *)
(* perhaps in part, and the tasks on the strand hold the rest, in order.   *)
(***************************************************************************)
EXTENDS TcpConnection, SequenceTheorems, FiniteSetTheorems, TLAPS

Quiet == {"send", "packet"}
WriteEnds == {"wrote", "writeError"}
ReadEnds == {"read", "readError"}

\* Where in s handlers of these kinds are.
At(s, kinds) == {i \in 1..Len(s) : s[i].kind \in kinds}

AtMostOne(S) == \A i, j \in S : i = j

\* The packets in s are those from lo to hi, in order.
PacketsAre(s, lo, hi) ==
    /\ \A i, j \in At(s, {"packet"}) : i < j => s[i].packet < s[j].packet
    /\ \A i \in At(s, {"packet"}) : s[i].packet \in lo..hi
    /\ \A n \in lo..hi : \E i \in At(s, {"packet"}) : s[i].packet = n

-----------------------------------------------------------------------------
(* What appending handlers and taking the first one do to a strand.        *)

LEMMA AppendedAt ==
    ASSUME NEW s \in Seq(Handler), NEW t \in Seq(Handler)
    PROVE  /\ s \o t \in Seq(Handler)
           /\ Len(s \o t) = Len(s) + Len(t)
           /\ \A i \in 1..Len(s) : (s \o t)[i] = s[i]
           /\ \A i \in (Len(s) + 1)..Len(s \o t) : (s \o t)[i] = t[i - Len(s)]
BY ConcatProperties, LenProperties

LEMMA TakenAt ==
    ASSUME NEW s \in Seq(Handler), s # <<>>
    PROVE  /\ Tail(s) \in Seq(Handler)
           /\ Head(s) \in Handler
           /\ Head(s) = s[1]
           /\ Len(s) \in Nat \ {0}
           /\ Len(Tail(s)) = Len(s) - 1
           /\ \A i \in 1..(Len(s) - 1) : Tail(s)[i] = s[i + 1]
BY HeadTailProperties, EmptySeq, LenProperties

LEMMA AppendOthers ==
    ASSUME NEW s \in Seq(Handler), NEW t \in Seq(Handler), NEW kinds,
           \A i \in 1..Len(t) : t[i].kind \notin kinds
    PROVE  At(s \o t, kinds) = At(s, kinds)
BY AppendedAt, LenProperties DEF At

LEMMA AppendEnd ==
    ASSUME NEW s \in Seq(Handler), NEW h \in Handler, NEW kinds, h.kind \in kinds
    PROVE  /\ Append(s, h) \in Seq(Handler)
           /\ At(Append(s, h), kinds) = At(s, kinds) \cup {Len(s) + 1}
BY AppendProperties, LenProperties DEF At

LEMMA AppendOther ==
    ASSUME NEW s \in Seq(Handler), NEW h \in Handler, NEW kinds, h.kind \notin kinds
    PROVE  At(Append(s, h), kinds) = At(s, kinds)
BY AppendProperties, LenProperties DEF At

LEMMA TakeOther ==
    ASSUME NEW s \in Seq(Handler), s # <<>>, NEW kinds, Head(s).kind \notin kinds
    PROVE  /\ At(s, kinds) = {} <=> At(Tail(s), kinds) = {}
           /\ AtMostOne(At(s, kinds)) => AtMostOne(At(Tail(s), kinds))
<1>1. \A i \in 1..Len(Tail(s)) : i \in At(Tail(s), kinds) <=> i + 1 \in At(s, kinds)
    BY TakenAt DEF At
<1>2. \A i \in At(s, kinds) : i - 1 \in 1..Len(Tail(s))
    BY TakenAt DEF At
<1>3. At(Tail(s), kinds) \subseteq 1..Len(Tail(s)) /\ At(s, kinds) \subseteq Nat
    BY LenProperties, TakenAt DEF At
<1>4. \A i \in At(s, kinds) : i - 1 \in At(Tail(s), kinds)
    BY <1>1, <1>2, <1>3, TakenAt
<1> QED
    BY <1>1, <1>3, <1>4, TakenAt DEF AtMostOne

LEMMA TakeOnly ==
    ASSUME NEW s \in Seq(Handler), s # <<>>, NEW kinds, Head(s).kind \in kinds,
           AtMostOne(At(s, kinds))
    PROVE  At(Tail(s), kinds) = {}
<1>1. 1 \in At(s, kinds)
    BY TakenAt DEF At
<1>2. \A i \in At(Tail(s), kinds) : i + 1 \in At(s, kinds) /\ i \in Nat \ {0}
    BY TakenAt DEF At
<1> QED
    BY <1>1, <1>2 DEF AtMostOne

LEMMA PacketsStay ==
    ASSUME NEW s \in Seq(Handler), NEW t \in Seq(Handler), NEW lo \in Int, NEW hi \in Int,
           PacketsAre(s, lo, hi), \A i \in 1..Len(t) : t[i].kind # "packet"
    PROVE  PacketsAre(s \o t, lo, hi)
<1>1. At(s \o t, {"packet"}) = At(s, {"packet"})
    BY AppendOthers
<1>2. \A i \in At(s, {"packet"}) : (s \o t)[i] = s[i]
    BY AppendedAt DEF At
<1> QED
    BY <1>1, <1>2 DEF PacketsAre

LEMMA PacketsAppended ==
    ASSUME NEW s \in Seq(Handler), NEW t \in Seq(Handler), NEW lo \in Int, NEW hi \in Int,
           PacketsAre(s, lo, hi), lo <= hi + 1,
           \A i \in 1..Len(t) : t[i].kind = "packet" /\ t[i].packet = hi + i
    PROVE  PacketsAre(s \o t, lo, hi + Len(t))
<1> DEFINE r == s \o t
           A == At(r, {"packet"})
<1>1. /\ Len(s) \in Nat /\ Len(t) \in Nat /\ Len(r) = Len(s) + Len(t)
      /\ \A i \in 1..Len(s) : r[i] = s[i]
      /\ \A i \in (Len(s) + 1)..Len(r) :
             i - Len(s) \in 1..Len(t) /\ r[i] = t[i - Len(s)]
    BY AppendedAt, LenProperties
<1>2. A = At(s, {"packet"}) \cup (Len(s) + 1)..Len(r)
    BY <1>1 DEF At
<1>3. \A i \in At(s, {"packet"}) : r[i] = s[i] /\ i \in 1..Len(s)
    BY <1>1 DEF At
<1>4. \A i \in (Len(s) + 1)..Len(r) : r[i].packet = hi + (i - Len(s))
    BY <1>1
<1>5. ASSUME NEW i \in A, NEW j \in A, i < j
      PROVE  r[i].packet < r[j].packet
    <2>1. CASE j \in At(s, {"packet"})
        <3>1. i \in At(s, {"packet"})
            BY <1>1, <1>2, <1>3, <1>5, <2>1
        <3> QED
            BY <1>3, <1>5, <2>1, <3>1 DEF PacketsAre
    <2>2. CASE i \in At(s, {"packet"}) /\ j \in (Len(s) + 1)..Len(r)
        <3>1. r[i].packet \in lo..hi
            BY <1>3, <2>2 DEF PacketsAre
        <3>2. j - Len(s) \in Nat \ {0}
            BY <1>1, <2>2
        <3>3. r[j].packet = hi + (j - Len(s))
            BY <1>4, <2>2
        <3>4. \A a \in lo..hi, b \in Nat \ {0} : a < hi + b
            OBVIOUS
        <3> QED
            BY <3>1, <3>2, <3>3, <3>4
    <2>3. CASE i \in (Len(s) + 1)..Len(r) /\ j \in (Len(s) + 1)..Len(r)
        BY <1>1, <1>4, <1>5, <2>3
    <2> QED
        BY <1>2, <2>1, <2>2, <2>3
<1>6. \A i \in A : r[i].packet \in lo..(hi + Len(t))
    BY <1>1, <1>2, <1>3, <1>4 DEF PacketsAre
<1>7. ASSUME NEW n \in lo..(hi + Len(t))
      PROVE  \E i \in A : r[i].packet = n
    <2>1. CASE n <= hi
        BY <1>1, <1>2, <1>3, <2>1 DEF PacketsAre
    <2>2. CASE n > hi
        <3>1. Len(s) + (n - hi) \in (Len(s) + 1)..Len(r)
            BY <1>1, <2>2
        <3>2. r[Len(s) + (n - hi)].packet = hi + ((Len(s) + (n - hi)) - Len(s))
            BY <1>4, <3>1
        <3>3. hi + ((Len(s) + (n - hi)) - Len(s)) = n
            BY <1>1
        <3> QED
            BY <1>2, <3>1, <3>2, <3>3
    <2>3. n <= hi \/ n > hi
        BY <1>1
    <2> QED
        BY <2>1, <2>2, <2>3
<1> QED
    BY <1>5, <1>6, <1>7 DEF PacketsAre

LEMMA PacketsTakeOther ==
    ASSUME NEW s \in Seq(Handler), s # <<>>, NEW lo \in Int, NEW hi \in Int,
           PacketsAre(s, lo, hi), Head(s).kind # "packet"
    PROVE  PacketsAre(Tail(s), lo, hi)
<1>1. \A i \in At(Tail(s), {"packet"}) :
          i \in Nat /\ i + 1 \in At(s, {"packet"}) /\ Tail(s)[i] = s[i + 1]
    BY TakenAt DEF At
<1>2. \A i \in At(s, {"packet"}) :
          i - 1 \in At(Tail(s), {"packet"}) /\ Tail(s)[i - 1] = s[i]
    BY TakenAt DEF At
<1>3. ASSUME NEW i \in At(Tail(s), {"packet"}), NEW j \in At(Tail(s), {"packet"}), i < j
      PROVE  Tail(s)[i].packet < Tail(s)[j].packet
    <2>1. i + 1 < j + 1
        BY <1>1, <1>3
    <2>2. s[i + 1].packet < s[j + 1].packet
        BY <1>1, <2>1 DEF PacketsAre
    <2> QED
        BY <1>1, <2>2
<1>4. \A i \in At(Tail(s), {"packet"}) : Tail(s)[i].packet \in lo..hi
    BY <1>1 DEF PacketsAre
<1>5. \A n \in lo..hi : \E i \in At(Tail(s), {"packet"}) : Tail(s)[i].packet = n
    BY <1>2 DEF PacketsAre
<1> QED
    BY <1>3, <1>4, <1>5 DEF PacketsAre

LEMMA PacketTaken ==
    ASSUME NEW s \in Seq(Handler), s # <<>>, NEW lo \in Int, NEW hi \in Int,
           PacketsAre(s, lo, hi), Head(s).kind = "packet"
    PROVE  /\ Head(s).packet = lo
           /\ lo <= hi
           /\ PacketsAre(Tail(s), lo + 1, hi)
<1>1. 1 \in At(s, {"packet"}) /\ s[1] = Head(s)
    BY TakenAt DEF At
<1>2. s[1].packet \in lo..hi
    BY <1>1 DEF PacketsAre
<1>3. At(s, {"packet"}) \subseteq Nat \ {0}
    BY TakenAt DEF At
<1>4. s[1].packet = lo
    <2>1. PICK i \in At(s, {"packet"}) : s[i].packet = lo
        BY <1>2 DEF PacketsAre
    <2>2. i # 1 => s[1].packet < lo
        BY <1>1, <1>3, <2>1 DEF PacketsAre
    <2> QED
        BY <1>2, <2>1, <2>2
<1>5. \A i \in At(Tail(s), {"packet"}) :
          i \in Nat \ {0} /\ i + 1 \in At(s, {"packet"}) /\ Tail(s)[i] = s[i + 1]
    BY TakenAt DEF At
<1>6. \A i \in At(s, {"packet"}) \ {1} :
          i - 1 \in At(Tail(s), {"packet"}) /\ Tail(s)[i - 1] = s[i]
    BY TakenAt DEF At
<1>7. ASSUME NEW i \in At(Tail(s), {"packet"})
      PROVE  Tail(s)[i].packet \in (lo + 1)..hi
    <2>1. s[1].packet < s[i + 1].packet
        BY <1>1, <1>5 DEF PacketsAre
    <2>2. s[i + 1].packet \in lo..hi
        BY <1>5 DEF PacketsAre
    <2>3. s[i + 1].packet \in (lo + 1)..hi
        BY <1>4, <2>1, <2>2
    <2> QED
        BY <1>5, <2>3
<1>8. ASSUME NEW i \in At(Tail(s), {"packet"}), NEW j \in At(Tail(s), {"packet"}), i < j
      PROVE  Tail(s)[i].packet < Tail(s)[j].packet
    <2>1. i + 1 < j + 1
        BY <1>5, <1>8
    <2>2. s[i + 1].packet < s[j + 1].packet
        BY <1>5, <2>1 DEF PacketsAre
    <2> QED
        BY <1>5, <2>2
<1>9. ASSUME NEW n \in (lo + 1)..hi
      PROVE  \E i \in At(Tail(s), {"packet"}) : Tail(s)[i].packet = n
    <2>1. PICK i \in At(s, {"packet"}) : s[i].packet = n
        BY DEF PacketsAre
    <2>2. i # 1
        BY <1>4, <2>1
    <2> QED
        BY <1>6, <2>1, <2>2
<1>10. PacketsAre(Tail(s), lo + 1, hi)
    BY <1>7, <1>8, <1>9 DEF PacketsAre
<1>11. lo <= hi
    BY <1>2
<1> QED
    BY <1>1, <1>4, <1>10, <1>11

-----------------------------------------------------------------------------
(* The invariant.                                                          *)

WriteInv ==
    /\ AtMostOne(At(strand, WriteEnds))
    /\ writing # "none" => At(strand, WriteEnds) = {}
    /\ writing # "none" \/ At(strand, WriteEnds) # {} => writeQ_ # <<>>
    /\ open /\ writeQ_ # <<>> => writing # "none" \/ At(strand, WriteEnds) # {}
    /\ writing = "kernel" => left # 0

\* The packets of the last read that have no task yet.
Unread == IF reading = "done" \/ At(strand, {"read"}) # {} THEN read_buffer_ ELSE 0

ReadInv ==
    /\ AtMostOne(At(strand, ReadEnds))
    /\ reading # "none" => At(strand, ReadEnds) = {}
    /\ read_buffer_ <= arrived
    /\ Len(served) <= arrived - Unread
    /\ PacketsAre(strand, Len(served) + 1, arrived - Unread)
    /\ ServedInOrder

IInv == TypeOK /\ WriteInv /\ ReadInv

LEMMA ReadIsReadEnd == At(strand, ReadEnds) = {} => At(strand, {"read"}) = {}
BY DEF At, ReadEnds

LEMMA Types ==
    ASSUME TypeOK
    PROVE  /\ strand \in Seq(Handler) /\ Len(strand) \in Nat
           /\ writeQ_ \in Seq(Frame) /\ posted \in Seq(Frame)
           /\ served \in Seq(1..MaxPackets) /\ Len(served) \in Nat
           /\ arrived \in Nat /\ read_buffer_ \in Nat /\ left \in Nat /\ messages \in Nat
           /\ arrived <= MaxPackets /\ read_buffer_ <= MaxPackets /\ left <= Pieces
           /\ MaxMessages \in Nat /\ MaxPackets \in Nat
           /\ MaxParts \in Nat \ {0} /\ Pieces \in Nat \ {0}
BY TcpConnectionAssumption, LenProperties DEF TypeOK

LEMMA FrontFrame ==
    ASSUME NEW q \in Seq(Frame), q # <<>>
    PROVE  /\ Head(q) \in Frame
           /\ Tail(q) \in Seq(Frame)
           /\ Len(q) > 1 => Tail(q) # <<>>
<1>1. Head(q) \in Frame /\ Tail(q) \in Seq(Frame) /\ Len(Tail(q)) = Len(q) - 1
    BY HeadTailProperties
<1>2. Len(q) \in Nat /\ Len(<<>>) = 0
    BY LenProperties
<1> QED
    BY <1>1, <1>2

\* The frames of one message, as tasks.
LEMMA FramesAreHandlers ==
    ASSUME TypeOK, NEW parts \in 1..MaxParts, messages < MaxMessages
    PROVE  /\ FramesOf(parts) \in Seq(Frame)
           /\ Sends(FramesOf(parts)) \in Seq(Handler)
           /\ Len(Sends(FramesOf(parts))) = Len(FramesOf(parts))
           /\ \A i \in 1..Len(Sends(FramesOf(parts))) :
                  Sends(FramesOf(parts))[i].kind = "send"
<1>1. parts \in Nat /\ \A k \in 1..parts : k \in 1..MaxParts
    BY Types
<1>2. messages \in 0..(MaxMessages - 1)
    BY Types
<1>3. FramesOf(parts) \in [1..parts -> Frame]
    BY <1>1, <1>2 DEF FramesOf, Frame
<1>4. FramesOf(parts) \in Seq(Frame) /\ DOMAIN FramesOf(parts) = 1..parts
    BY <1>1, <1>3, SeqDef
<1>5. \A f \in Frame : [kind |-> "send", frame |-> f] \in Handler
    BY DEF Handler
<1>6. Sends(FramesOf(parts)) \in [1..parts -> Handler]
    BY <1>3, <1>4, <1>5 DEF Sends
<1>7. Sends(FramesOf(parts)) \in Seq(Handler) /\ Len(Sends(FramesOf(parts))) = parts
    BY <1>1, <1>6, SeqDef, LenProperties
<1>8. Len(FramesOf(parts)) = parts
    BY <1>1, <1>3, <1>4, LenProperties
<1> QED
    BY <1>4, <1>7, <1>8 DEF Sends

LEMMA PacketTasksAre ==
    ASSUME TypeOK, read_buffer_ <= arrived
    PROVE  /\ PacketTasks(read_buffer_) \in Seq(Handler)
           /\ Len(PacketTasks(read_buffer_)) = read_buffer_
           /\ \A i \in 1..read_buffer_ :
                  /\ PacketTasks(read_buffer_)[i].kind = "packet"
                  /\ PacketTasks(read_buffer_)[i].packet = (arrived - read_buffer_) + i
<1>1. \A k \in 1..read_buffer_ : arrived - read_buffer_ + k \in 1..MaxPackets
    BY Types
<1>2. \A p \in 1..MaxPackets : [kind |-> "packet", packet |-> p] \in Handler
    BY DEF Handler
<1>3. PacketTasks(read_buffer_) \in [1..read_buffer_ -> Handler]
    BY <1>1, <1>2 DEF PacketTasks
<1> read_buffer_ \in Nat
    BY Types
<1>4. PacketTasks(read_buffer_) \in Seq(Handler)
    BY <1>3, SeqDef
<1>5. Len(PacketTasks(read_buffer_)) = read_buffer_
    BY <1>3, <1>4, LenProperties
<1> QED
    BY <1>4, <1>5 DEF PacketTasks

\* What the handlers at the front of the strand are.
LEMMA HandlerTypes ==
    ASSUME NEW h \in Handler
    PROVE  /\ h.kind \in Quiet \cup WriteEnds \cup ReadEnds
           /\ h.kind = "send" => h.frame \in Frame
           /\ h.kind = "packet" => h.packet \in 1..MaxPackets
BY DEF Handler, Quiet, WriteEnds, ReadEnds

LEMMA EndsAreHandlers ==
    \A k \in WriteEnds \cup ReadEnds : [kind |-> k] \in Handler
BY DEF Handler, WriteEnds, ReadEnds

-----------------------------------------------------------------------------
(* The kernel and the io_context.                                          *)

LEMMA KernelReadStep == ASSUME IInv, KernelRead PROVE IInv'
<1> USE DEF KernelRead, writeVars, sendVars
<1>1. PICK n \in 1..(MaxPackets - arrived) : arrived' = arrived + n /\ read_buffer_' = n
    OBVIOUS
<1>2. arrived + n \in 0..MaxPackets /\ n \in 0..MaxPackets /\ n <= arrived + n
    BY Types DEF IInv
<1>3. TypeOK'
    BY <1>1, <1>2 DEF IInv, TypeOK, Operation
<1>4. WriteInv'
    BY DEF IInv, WriteInv
<1>5. Unread = 0 /\ Unread' = n /\ arrived' - Unread' = arrived
    BY <1>1, ReadIsReadEnd, Types DEF IInv, ReadInv, Unread
<1>6. ReadInv'
    BY <1>1, <1>2, <1>5, Types DEF IInv, ReadInv, ServedInOrder
<1> QED
    BY <1>3, <1>4, <1>6 DEF IInv

LEMMA KernelReadFailsStep == ASSUME IInv, KernelReadFails PROVE IInv'
<1> USE DEF KernelReadFails, writeVars, sendVars
<1>1. TypeOK'
    BY DEF IInv, TypeOK, Operation
<1>2. WriteInv'
    BY DEF IInv, WriteInv
<1>3. Unread' = Unread
    BY DEF Unread
<1>4. ReadInv'
    BY <1>3 DEF IInv, ReadInv, ServedInOrder
<1> QED
    BY <1>1, <1>2, <1>4 DEF IInv

LEMMA KernelWriteStep == ASSUME IInv, KernelWrite PROVE IInv'
<1> USE DEF KernelWrite, readVars, sendVars
<1>1. PICK n \in 1..left :
          /\ wire' = wire \o [i \in 1..n |->
                  [frame |-> Head(writeQ_), piece |-> Pieces - left + i]]
          /\ left' = left - n
    OBVIOUS
<1> DEFINE Piece == [frame : Frame, piece : 1..Pieces]
           taken == [i \in 1..n |-> [frame |-> Head(writeQ_), piece |-> Pieces - left + i]]
<1>2. Head(writeQ_) \in Frame
    <2>1. writeQ_ # <<>> /\ writeQ_ \in Seq(Frame)
        BY Types DEF IInv, WriteInv
    <2> QED
        BY <2>1, FrontFrame
<1>3. n \in Nat /\ left - n \in 0..Pieces /\ \A i \in 1..n : Pieces - left + i \in 1..Pieces
    <2>1. left \in Nat /\ Pieces \in Nat /\ left <= Pieces
        BY Types DEF IInv
    <2>2. n \in 1..left
        OBVIOUS
    <2> QED
        BY ONLY <2>1, <2>2
<1>4. taken \in [1..n -> Piece]
    BY <1>2, <1>3
<1>5. taken \in Seq(Piece)
    BY <1>3, <1>4, SeqDef
<1>6. wire' \in Seq(Piece)
    BY <1>1, <1>5, ConcatProperties DEF IInv, TypeOK
<1>7. TypeOK'
    BY <1>1, <1>3, <1>6 DEF IInv, TypeOK, Operation
<1>8. WriteInv'
    BY DEF IInv, WriteInv
<1>9. ReadInv'
    BY DEF IInv, ReadInv, ServedInOrder, Unread
<1> QED
    BY <1>7, <1>8, <1>9 DEF IInv

LEMMA KernelWriteFailsStep == ASSUME IInv, KernelWriteFails PROVE IInv'
<1> USE DEF KernelWriteFails, readVars, sendVars
<1>1. TypeOK'
    BY DEF IInv, TypeOK, Operation
<1>2. WriteInv'
    BY DEF IInv, WriteInv
<1>3. ReadInv'
    BY DEF IInv, ReadInv, ServedInOrder, Unread
<1> QED
    BY <1>1, <1>2, <1>3 DEF IInv

LEMMA ReadCompletesStep == ASSUME IInv, ReadCompletes PROVE IInv'
<1> USE DEF ReadCompletes, writeVars, sendVars
<1> DEFINE h == [kind |-> IF reading = "done" THEN "read" ELSE "readError"]
<1>1. h \in Handler /\ h.kind \in ReadEnds /\ h.kind \notin WriteEnds /\ h.kind # "packet"
    BY EndsAreHandlers DEF ReadEnds, WriteEnds
<1>2. strand' = Append(strand, h) /\ strand \in Seq(Handler) /\ Len(strand) \in Nat
    BY Types DEF IInv
<1>3. strand' \in Seq(Handler) /\ At(strand', ReadEnds) = At(strand, ReadEnds) \cup {Len(strand) + 1}
    BY <1>1, <1>2, AppendEnd
<1>4. TypeOK'
    BY <1>3 DEF IInv, TypeOK, Operation
<1>5. WriteInv'
    BY <1>1, <1>2, AppendOther DEF IInv, WriteInv
<1>6. At(strand, ReadEnds) = {}
    BY DEF IInv, ReadInv
<1>7. Unread' = Unread
    <2>1. At(strand, {"read"}) = {}
        BY <1>6, ReadIsReadEnd
    <2>2. CASE reading = "done"
        <3>1. h.kind \in {"read"}
            BY <2>2
        <3>2. At(Append(strand, h), {"read"}) = At(strand, {"read"}) \cup {Len(strand) + 1}
            BY ONLY <1>1, <1>2, <3>1, AppendEnd
        <3> QED
            BY <1>2, <2>2, <3>2 DEF Unread
    <2>3. CASE reading = "failed"
        BY <1>1, <1>2, <2>1, <2>3, AppendOther DEF Unread
    <2> QED
        BY <2>2, <2>3
<1>8. PacketsAre(strand', Len(served) + 1, arrived - Unread)
    <2>1. strand' = strand \o <<h>>
        BY <1>1, <1>2, AppendIsConcat
    <2>2. <<h>> \in Seq(Handler) /\ \A i \in 1..Len(<<h>>) : <<h>>[i].kind # "packet"
        BY <1>1
    <2>3. Len(served) + 1 \in Int /\ arrived - Unread \in Int
        BY Types DEF IInv, Unread
    <2> QED
        BY <1>2, <2>1, <2>2, <2>3, PacketsStay DEF IInv, ReadInv
<1>9. ReadInv'
    BY <1>3, <1>6, <1>7, <1>8 DEF IInv, ReadInv, ServedInOrder, AtMostOne
<1> QED
    BY <1>4, <1>5, <1>9 DEF IInv

LEMMA WriteCompletesStep == ASSUME IInv, WriteCompletes PROVE IInv'
<1> USE DEF WriteCompletes, readVars, sendVars
<1> DEFINE h == [kind |-> IF writing = "done" THEN "wrote" ELSE "writeError"]
<1>1. h \in Handler /\ h.kind \in WriteEnds /\ h.kind \notin ReadEnds
          /\ h.kind # "packet" /\ h.kind # "read"
    BY EndsAreHandlers DEF ReadEnds, WriteEnds
<1>2. strand' = Append(strand, h) /\ strand \in Seq(Handler) /\ Len(strand) \in Nat
    BY Types DEF IInv
<1>3. strand' \in Seq(Handler) /\ At(strand', WriteEnds) = At(strand, WriteEnds) \cup {Len(strand) + 1}
    BY <1>1, <1>2, AppendEnd
<1>4. TypeOK'
    BY <1>3 DEF IInv, TypeOK, Operation
<1>5. WriteInv'
    BY <1>3 DEF IInv, WriteInv, AtMostOne
<1>6. At(strand', ReadEnds) = At(strand, ReadEnds) /\ Unread' = Unread
    BY <1>1, <1>2, AppendOther DEF Unread
<1>7. PacketsAre(strand', Len(served) + 1, arrived - Unread)
    <2>1. strand' = strand \o <<h>>
        BY <1>1, <1>2, AppendIsConcat
    <2>2. <<h>> \in Seq(Handler) /\ \A i \in 1..Len(<<h>>) : <<h>>[i].kind # "packet"
        BY <1>1
    <2>3. Len(served) + 1 \in Int /\ arrived - Unread \in Int
        BY Types DEF IInv, Unread
    <2> QED
        BY <1>2, <2>1, <2>2, <2>3, PacketsStay DEF IInv, ReadInv
<1>8. ReadInv'
    BY <1>6, <1>7 DEF IInv, ReadInv, ServedInOrder
<1> QED
    BY <1>4, <1>5, <1>8 DEF IInv

-----------------------------------------------------------------------------
(* What handlers do.                                                       *)

\* Handlers that are no completions go on the strand, at the end.
LEMMA QuietAppended ==
    ASSUME NEW s \in Seq(Handler), NEW t \in Seq(Handler),
           \A i \in 1..Len(t) : t[i].kind \in Quiet
    PROVE  /\ s \o t \in Seq(Handler)
           /\ At(s \o t, WriteEnds) = At(s, WriteEnds)
           /\ At(s \o t, ReadEnds) = At(s, ReadEnds)
           /\ At(s \o t, {"read"}) = At(s, {"read"})
<1>1. \A i \in 1..Len(t) : t[i].kind \notin WriteEnds /\ t[i].kind \notin ReadEnds
                               /\ t[i].kind \notin {"read"}
    BY DEF Quiet, WriteEnds, ReadEnds
<1> QED
    BY <1>1, AppendOthers, AppendedAt

\* What a step that posts a message adds to strand s.
LEMMA MessagePosted ==
    ASSUME IInv, NEW s \in Seq(Handler), NEW parts \in 1..MaxParts, sendMessage(parts, s)
    PROVE  /\ strand' \in Seq(Handler)
           /\ posted' \in Seq(Frame)
           /\ messages' \in 0..MaxMessages
           /\ At(strand', WriteEnds) = At(s, WriteEnds)
           /\ At(strand', ReadEnds) = At(s, ReadEnds)
           /\ At(strand', {"read"}) = At(s, {"read"})
           /\ \A lo, hi \in Int : PacketsAre(s, lo, hi) => PacketsAre(strand', lo, hi)
<1> DEFINE t == Sends(FramesOf(parts))
<1>1. messages < MaxMessages /\ messages' = messages + 1
      /\ posted' = posted \o FramesOf(parts) /\ strand' = s \o t
    BY DEF sendMessage
<1>2. /\ FramesOf(parts) \in Seq(Frame)
      /\ t \in Seq(Handler)
      /\ \A i \in 1..Len(t) : t[i].kind = "send"
    BY <1>1, FramesAreHandlers DEF IInv
<1>3. posted' \in Seq(Frame) /\ messages' \in 0..MaxMessages
    BY <1>1, <1>2, Types, ConcatProperties DEF IInv
<1>4. /\ strand' \in Seq(Handler)
      /\ At(strand', WriteEnds) = At(s, WriteEnds)
      /\ At(strand', ReadEnds) = At(s, ReadEnds)
      /\ At(strand', {"read"}) = At(s, {"read"})
    BY <1>1, <1>2, QuietAppended DEF Quiet
<1>5. \A lo, hi \in Int : PacketsAre(s, lo, hi) => PacketsAre(strand', lo, hi)
    BY <1>1, <1>2, PacketsStay
<1> QED
    BY <1>3, <1>4, <1>5

LEMMA SendStep == ASSUME IInv, Send PROVE IInv'
<1>1. PICK parts \in 1..MaxParts : sendMessage(parts, strand)
    BY DEF Send
<1>2. UNCHANGED <<running, open, writeVars, readVars>>
    BY DEF Send
<1>3. strand \in Seq(Handler) /\ Len(served) + 1 \in Int /\ arrived - Unread \in Int
    BY Types DEF IInv, Unread
<1>4. TypeOK'
    BY <1>1, <1>2, <1>3, MessagePosted DEF IInv, TypeOK, writeVars, readVars
<1>5. WriteInv'
    BY <1>1, <1>2, <1>3, MessagePosted DEF IInv, WriteInv, writeVars
<1>6. Unread' = Unread
    BY <1>1, <1>2, <1>3, MessagePosted DEF Unread, readVars
<1>7. ReadInv'
    BY <1>1, <1>2, <1>3, <1>6, MessagePosted DEF IInv, ReadInv, ServedInOrder, readVars
<1> QED
    BY <1>4, <1>5, <1>7 DEF IInv

\* The handler at the front is no completion of a write: those stay.
LEMMA OtherTaken ==
    ASSUME IInv, strand # <<>>, NEW kinds, Head(strand).kind \notin kinds
    PROVE  /\ Tail(strand) \in Seq(Handler)
           /\ At(strand, kinds) = {} <=> At(Tail(strand), kinds) = {}
           /\ AtMostOne(At(strand, kinds)) => AtMostOne(At(Tail(strand), kinds))
BY TakeOther, TakenAt, Types DEF IInv

\* A step that leaves the read and the packets alone, and takes the handler of
\* something else.
LEMMA ReadInvKept ==
    ASSUME IInv, strand # <<>>, Head(strand).kind \in {"send"} \cup WriteEnds,
           strand' = Tail(strand), UNCHANGED <<read_buffer_, arrived, served>>,
           reading' = reading \/ (reading = "kernel" /\ reading' = "failed")
    PROVE  ReadInv'
<1>1. /\ Head(strand).kind \notin ReadEnds
      /\ Head(strand).kind \notin {"read"}
      /\ Head(strand).kind # "packet"
    BY DEF WriteEnds, ReadEnds
<1>2. Unread' = Unread
    BY <1>1, OtherTaken, ReadIsReadEnd DEF Unread, IInv, ReadInv
<1>3. strand \in Seq(Handler) /\ Len(served) + 1 \in Int /\ arrived - Unread \in Int
    BY Types DEF IInv, Unread
<1>4. PacketsAre(Tail(strand), Len(served) + 1, arrived - Unread)
    BY <1>1, <1>3, PacketsTakeOther DEF IInv, ReadInv
<1>5. /\ AtMostOne(At(Tail(strand), ReadEnds))
      /\ At(strand, ReadEnds) = {} <=> At(Tail(strand), ReadEnds) = {}
    BY <1>1, OtherTaken DEF IInv, ReadInv
<1> QED
    BY <1>2, <1>4, <1>5 DEF IInv, ReadInv, ServedInOrder

\* The same for the write, when the handler taken has nothing to do with it.
LEMMA WriteInvKept ==
    ASSUME IInv, strand # <<>>, Head(strand).kind \notin WriteEnds,
           At(strand', WriteEnds) = At(Tail(strand), WriteEnds),
           UNCHANGED <<writeQ_, left>>,
           \/ UNCHANGED <<open, writing>>
           \/ ~open' /\ writing' = Aborted(writing)
    PROVE  WriteInv'
<1>1. /\ AtMostOne(At(Tail(strand), WriteEnds))
      /\ At(strand, WriteEnds) = {} <=> At(Tail(strand), WriteEnds) = {}
    BY OtherTaken DEF IInv, WriteInv
<1> QED
    BY <1>1 DEF IInv, WriteInv, Aborted

\* sendBytes: a write begins only when the queue was empty.
LEMMA PushStep ==
    ASSUME IInv, strand # <<>>, Head(strand).kind = "send", push(Head(strand).frame),
           strand' = Tail(strand), UNCHANGED <<running, open, wire, readVars, sendVars>>
    PROVE  IInv'
<1> DEFINE f == Head(strand).frame
<1>1. /\ Head(strand) \in Handler /\ f \in Frame
      /\ Head(strand).kind \notin WriteEnds
      /\ Tail(strand) \in Seq(Handler)
    BY TakenAt, HandlerTypes, Types DEF IInv, WriteEnds
<1>2. /\ writeQ_' \in Seq(Frame) /\ writeQ_' # <<>>
      /\ writing' \in Operation /\ left' \in 0..Pieces /\ (writing' = "kernel" => left' # 0)
    <2>1. <<f>> \in Seq(Frame) /\ <<f>> # <<>>
        BY <1>1
    <2>2. Append(writeQ_, f) \in Seq(Frame) /\ Append(writeQ_, f) # <<>>
        <3>1. writeQ_ \in Seq(Frame)
            BY Types DEF IInv
        <3> QED
            BY ONLY <1>1, <3>1, AppendProperties
    <2>3. Pieces \in 0..Pieces /\ Pieces # 0
        BY Types DEF IInv
    <2> QED
        BY <2>1, <2>2, <2>3 DEF push, doWrite, Started, Operation, IInv, TypeOK, WriteInv
<1>3. TypeOK'
    BY <1>1, <1>2 DEF IInv, TypeOK, readVars, sendVars
<1>4. /\ AtMostOne(At(Tail(strand), WriteEnds))
      /\ At(strand, WriteEnds) = {} <=> At(Tail(strand), WriteEnds) = {}
    BY <1>1, OtherTaken DEF IInv, WriteInv
<1>5. WriteInv'
    <2>1. CASE writeQ_ = <<>>
        <3>1. At(strand, WriteEnds) = {} /\ writing' # "none"
            BY <2>1 DEF IInv, WriteInv, push, doWrite, Started
        <3> QED
            BY <1>2, <1>4, <3>1 DEF WriteInv
    <2>2. CASE writeQ_ # <<>>
        BY <1>2, <1>4, <2>2 DEF IInv, WriteInv, push
    <2> QED
        BY <2>1, <2>2
<1>6. ReadInv'
    BY ReadInvKept DEF readVars
<1> QED
    BY <1>3, <1>5, <1>6 DEF IInv

\* The completion of a write: the next piece, the next frame, or none.
LEMMA WroteStep ==
    ASSUME IInv, strand # <<>>, Head(strand).kind = "wrote", wrote,
           strand' = Tail(strand), UNCHANGED <<running, open, wire, readVars, sendVars>>
    PROVE  IInv'
<1>1. /\ Head(strand).kind \in WriteEnds
      /\ strand \in Seq(Handler)
      /\ Tail(strand) \in Seq(Handler)
    BY TakenAt, Types DEF IInv, WriteEnds
<1>2. At(Tail(strand), WriteEnds) = {} /\ At(strand, WriteEnds) # {}
    <2>1. 1 \in At(strand, WriteEnds)
        BY <1>1, TakenAt DEF At
    <2> QED
        BY <1>1, <2>1, TakeOnly DEF IInv, WriteInv
<1>3. writeQ_ # <<>> /\ writeQ_ \in Seq(Frame) /\ Pieces \in 0..Pieces /\ Pieces # 0
    BY <1>2, Types DEF IInv, WriteInv
<1>4. /\ writeQ_' \in Seq(Frame)
      /\ writing' \in Operation /\ left' \in 0..Pieces
      /\ writing' = "kernel" => left' # 0
      /\ writing' # "none" <=> writeQ_' # <<>>
    <2>1. writing = "none"
        BY <1>2 DEF IInv, WriteInv
    <2>2. CASE left > 0
        BY <1>3, <2>2, Types DEF wrote, Started, Operation, IInv, TypeOK
    <2>3. CASE ~(left > 0) /\ Len(writeQ_) > 1
        BY <1>3, <2>3, FrontFrame DEF wrote, pop, doWrite, Started, Operation
    <2>4. CASE ~(left > 0) /\ ~(Len(writeQ_) > 1)
        BY <1>3, <2>1, <2>4 DEF wrote, pop, IInv, TypeOK
    <2> QED
        BY <2>2, <2>3, <2>4
<1>5. TypeOK'
    BY <1>1, <1>4 DEF IInv, TypeOK, readVars, sendVars
<1>6. WriteInv'
    BY <1>2, <1>4 DEF WriteInv, AtMostOne
<1>7. ReadInv'
    BY <1>1, ReadInvKept DEF readVars
<1> QED
    BY <1>5, <1>6, <1>7 DEF IInv

LEMMA WriteErrorStep ==
    ASSUME IInv, strand # <<>>, Head(strand).kind = "writeError", close,
           strand' = Tail(strand),
           UNCHANGED <<running, wire, arrived, read_buffer_, served, sendVars>>
    PROVE  IInv'
<1>1. /\ Head(strand).kind \in WriteEnds
      /\ strand \in Seq(Handler)
      /\ Tail(strand) \in Seq(Handler)
    BY TakenAt, Types DEF IInv, WriteEnds
<1>2. TypeOK'
    BY <1>1 DEF close, Aborted, Operation, IInv, TypeOK, sendVars
<1>3. At(Tail(strand), WriteEnds) = {} /\ At(strand, WriteEnds) # {}
    <2>1. 1 \in At(strand, WriteEnds)
        BY <1>1, TakenAt DEF At
    <2> QED
        BY <1>1, <2>1, TakeOnly DEF IInv, WriteInv
<1>4. WriteInv'
    BY <1>3 DEF close, Aborted, IInv, WriteInv, AtMostOne
<1>5. ReadInv'
    BY <1>1, ReadInvKept DEF close, Aborted
<1> QED
    BY <1>2, <1>4, <1>5 DEF IInv

LEMMA ReadErrorStep ==
    ASSUME IInv, strand # <<>>, Head(strand).kind = "readError", close,
           strand' = Tail(strand),
           UNCHANGED <<running, wire, arrived, read_buffer_, served, sendVars>>
    PROVE  IInv'
<1>1. /\ Head(strand).kind \in ReadEnds
      /\ Head(strand).kind \notin WriteEnds
      /\ Head(strand).kind \notin {"read"}
      /\ Head(strand).kind # "packet"
      /\ strand \in Seq(Handler)
      /\ Tail(strand) \in Seq(Handler)
    BY TakenAt, Types DEF IInv, WriteEnds, ReadEnds
<1>2. TypeOK'
    BY <1>1 DEF close, Aborted, Operation, IInv, TypeOK, sendVars
<1>3. WriteInv'
    BY <1>1, WriteInvKept DEF close
<1>4. At(Tail(strand), ReadEnds) = {} /\ reading = "none" /\ reading' = "none"
    <2>1. 1 \in At(strand, ReadEnds)
        BY <1>1, TakenAt DEF At
    <2> QED
        BY <1>1, <2>1, TakeOnly DEF IInv, ReadInv, close, Aborted
<1>5. Unread' = Unread
    BY <1>1, <1>4, OtherTaken DEF Unread
<1>6. PacketsAre(Tail(strand), Len(served) + 1, arrived - Unread)
    <2>1. Len(served) + 1 \in Int /\ arrived - Unread \in Int
        BY Types DEF IInv, Unread
    <2> QED
        BY <1>1, <2>1, PacketsTakeOther DEF IInv, ReadInv
<1>7. ReadInv'
    BY <1>4, <1>5, <1>6 DEF IInv, ReadInv, ServedInOrder, AtMostOne
<1> QED
    BY <1>2, <1>3, <1>7 DEF IInv

\* onRawDataReceived: the tasks for what was read come after those that wait.
LEMMA ReadStep ==
    ASSUME IInv, strand # <<>>, Head(strand).kind = "read", read(Tail(strand)),
           UNCHANGED <<running, open, writeQ_, writing, left, wire, arrived, served, sendVars>>
    PROVE  IInv'
<1> DEFINE t == PacketTasks(read_buffer_)
<1>1. /\ Head(strand).kind \in ReadEnds
      /\ Head(strand).kind \in {"read"}
      /\ Head(strand).kind \notin WriteEnds
      /\ Head(strand).kind # "packet"
      /\ strand \in Seq(Handler)
      /\ Tail(strand) \in Seq(Handler)
    BY TakenAt, Types DEF IInv, WriteEnds, ReadEnds
<1>2. /\ strand' = Tail(strand) \o t
      /\ reading' = Started
      /\ read_buffer_' = read_buffer_
    BY DEF read
<1>3. /\ t \in Seq(Handler) /\ Len(t) = read_buffer_
      /\ \A i \in 1..Len(t) : t[i].kind = "packet" /\ t[i].packet = (arrived - read_buffer_) + i
    BY PacketTasksAre DEF IInv, ReadInv
<1>4. /\ strand' \in Seq(Handler)
      /\ At(strand', WriteEnds) = At(Tail(strand), WriteEnds)
      /\ At(strand', ReadEnds) = At(Tail(strand), ReadEnds)
      /\ At(strand', {"read"}) = At(Tail(strand), {"read"})
    BY <1>1, <1>2, <1>3, QuietAppended DEF Quiet
<1>5. TypeOK'
    BY <1>2, <1>4 DEF Started, Operation, IInv, TypeOK, sendVars
<1>6. WriteInv'
    BY <1>1, <1>4, WriteInvKept
<1>7. 1 \in At(strand, ReadEnds) /\ 1 \in At(strand, {"read"})
    BY <1>1, TakenAt DEF At
<1>8. At(strand', ReadEnds) = {} /\ At(strand', {"read"}) = {}
    <2>1. At(Tail(strand), ReadEnds) = {}
        BY <1>1, TakeOnly DEF IInv, ReadInv
    <2>2. At(Tail(strand), {"read"}) = {}
        BY <2>1 DEF At, ReadEnds
    <2> QED
        BY <1>4, <2>1, <2>2
<1>9. Unread = read_buffer_ /\ Unread' = 0
    BY <1>2, <1>7, <1>8 DEF Unread, Started
<1>10. PacketsAre(strand', Len(served) + 1, arrived)
    <2>1. /\ Len(served) + 1 \in Int /\ arrived - read_buffer_ \in Int
          /\ Len(served) + 1 <= (arrived - read_buffer_) + 1
          /\ (arrived - read_buffer_) + read_buffer_ = arrived
        BY <1>9, Types DEF IInv, ReadInv
    <2>2. PacketsAre(Tail(strand), Len(served) + 1, arrived - read_buffer_)
        BY <1>1, <1>9, <2>1, PacketsTakeOther DEF IInv, ReadInv
    <2>3. PacketsAre(Tail(strand) \o t, Len(served) + 1, (arrived - read_buffer_) + Len(t))
        BY <1>1, <1>3, <2>1, <2>2, PacketsAppended
    <2> QED
        BY <1>2, <1>3, <2>1, <2>3
<1>11. Len(served) <= arrived /\ arrived' - Unread' = arrived
    BY <1>9, Types DEF IInv, ReadInv
<1>12. ReadInv'
    BY <1>2, <1>8, <1>10, <1>11 DEF IInv, ReadInv, ServedInOrder, AtMostOne
<1> QED
    BY <1>5, <1>6, <1>12 DEF IInv

\* msgHandler_: the packet at the front is the next one to serve.
LEMMA PacketStep ==
    ASSUME IInv, strand # <<>>, Head(strand).kind = "packet",
           packet(Head(strand).packet, Tail(strand)),
           UNCHANGED <<open, writeVars, reading, read_buffer_, arrived>>
    PROVE  IInv'
<1> DEFINE n == Head(strand).packet
           rest == Tail(strand)
<1>1. /\ Head(strand) \in Handler /\ n \in 1..MaxPackets
      /\ Head(strand).kind \notin ReadEnds
      /\ Head(strand).kind \notin {"read"}
      /\ Head(strand).kind \notin WriteEnds
      /\ strand \in Seq(Handler)
      /\ rest \in Seq(Handler)
    BY TakenAt, HandlerTypes, Types DEF IInv, WriteEnds, ReadEnds
<1>2. Len(served) + 1 \in Int /\ arrived - Unread \in Int
    BY Types DEF IInv, Unread
<1>3. /\ n = Len(served) + 1
      /\ Len(served) + 1 <= arrived - Unread
      /\ PacketsAre(rest, (Len(served) + 1) + 1, arrived - Unread)
    BY <1>1, <1>2, PacketTaken DEF IInv, ReadInv
<1>4. /\ strand' \in Seq(Handler)
      /\ posted' \in Seq(Frame) /\ messages' \in 0..MaxMessages
      /\ At(strand', WriteEnds) = At(rest, WriteEnds)
      /\ At(strand', ReadEnds) = At(rest, ReadEnds)
      /\ At(strand', {"read"}) = At(rest, {"read"})
      /\ PacketsAre(strand', (Len(served) + 1) + 1, arrived - Unread)
    <2>1. CASE \E parts \in 1..MaxParts : sendMessage(parts, rest)
        <3>1. PICK parts \in 1..MaxParts : sendMessage(parts, rest)
            BY <2>1
        <3>2. (Len(served) + 1) + 1 \in Int
            BY <1>2, Types DEF IInv
        <3>3. \A lo, hi \in Int : PacketsAre(rest, lo, hi) => PacketsAre(strand', lo, hi)
            BY <1>1, <3>1, MessagePosted
        <3>4. PacketsAre(strand', (Len(served) + 1) + 1, arrived - Unread)
            BY <1>2, <1>3, <3>2, <3>3
        <3> QED
            BY <1>1, <3>1, <3>4, MessagePosted
    <2>2. CASE strand' = rest /\ UNCHANGED sendVars
        BY <1>1, <1>3, <2>2 DEF sendVars, IInv, TypeOK
    <2> QED
        BY <2>1, <2>2 DEF packet
<1>5. /\ served' = Append(served, n)
      /\ served' \in Seq(1..MaxPackets)
      /\ Len(served') = Len(served) + 1
      /\ \A k \in 1..Len(served) : served'[k] = served[k]
      /\ served'[Len(served) + 1] = n
    BY <1>1, AppendProperties, Types DEF packet, IInv
<1>6. TypeOK'
    <2>1. running' \in BOOLEAN
        BY DEF packet, IInv, TypeOK
    <2> QED
        BY <1>4, <1>5, <2>1 DEF IInv, TypeOK, writeVars
<1>7. WriteInv'
    BY <1>1, <1>4, WriteInvKept DEF writeVars
<1>8. Unread' = Unread
    BY <1>1, <1>4, OtherTaken DEF Unread
<1>9. /\ AtMostOne(At(rest, ReadEnds))
      /\ At(strand, ReadEnds) = {} <=> At(rest, ReadEnds) = {}
    BY <1>1, OtherTaken DEF IInv, ReadInv
<1>10. ServedInOrder'
    <2>1. DOMAIN served = 1..Len(served) /\ DOMAIN served' = 1..(Len(served) + 1)
        BY <1>5, LenProperties, Types DEF IInv
    <2>2. \A k \in 1..Len(served) : served[k] = k
        BY <2>1 DEF IInv, ReadInv, ServedInOrder
    <2>3. \A m \in Nat : \A k \in 1..(m + 1) : k \in 1..m \/ k = m + 1
        OBVIOUS
    <2>4. Len(served) \in Nat
        BY Types DEF IInv
    <2> QED
        BY <1>3, <1>5, <2>1, <2>2, <2>3, <2>4 DEF ServedInOrder
<1>11. ReadInv'
    BY <1>3, <1>4, <1>5, <1>8, <1>9, <1>10 DEF IInv, ReadInv
<1> QED
    BY <1>6, <1>7, <1>11 DEF IInv

-----------------------------------------------------------------------------
(* The theorems.                                                           *)

LEMMA StopStep == ASSUME IInv, Stop PROVE IInv'
BY DEF Stop, writeVars, readVars, sendVars, IInv, TypeOK, WriteInv, ReadInv, Unread,
       ServedInOrder

LEMMA InitIInv == Init => IInv
<1> SUFFICES ASSUME Init
             PROVE  IInv
    OBVIOUS
<1> USE DEF Init
<1>1. At(strand, WriteEnds) = {} /\ At(strand, ReadEnds) = {} /\ At(strand, {"read"}) = {}
      /\ At(strand, {"packet"}) = {}
    BY LenProperties DEF At
<1>2. TypeOK
    BY TcpConnectionAssumption DEF TypeOK, Operation
<1>3. WriteInv
    BY <1>1 DEF WriteInv, AtMostOne
<1>4. Unread = 0 /\ Len(served) = 0
    BY <1>1 DEF Unread
<1>5. ReadInv
    BY <1>1, <1>4 DEF ReadInv, AtMostOne, PacketsAre, ServedInOrder
<1> QED
    BY <1>2, <1>3, <1>5 DEF IInv

LEMMA RunHandlerStep == ASSUME IInv, RunHandler PROVE IInv'
<1> DEFINE h == Head(strand)
<1>1. strand # <<>> /\ UNCHANGED <<wire, arrived>>
    BY DEF RunHandler
<1>2. CASE h.kind = "send" /\ push(h.frame) /\ strand' = Tail(strand)
           /\ UNCHANGED <<running, open, reading, read_buffer_, served, sendVars>>
    BY <1>1, <1>2, PushStep DEF readVars
<1>3. CASE h.kind = "wrote" /\ wrote /\ strand' = Tail(strand)
           /\ UNCHANGED <<running, open, reading, read_buffer_, served, sendVars>>
    BY <1>1, <1>3, WroteStep DEF readVars
<1>4. CASE h.kind \in {"writeError", "readError"} /\ close /\ strand' = Tail(strand)
           /\ UNCHANGED <<running, read_buffer_, served, sendVars>>
    BY <1>1, <1>4, WriteErrorStep, ReadErrorStep
<1>5. CASE h.kind = "read" /\ read(Tail(strand))
           /\ UNCHANGED <<running, open, writeQ_, writing, left, served, sendVars>>
    BY <1>1, <1>5, ReadStep
<1>6. CASE h.kind = "packet" /\ packet(h.packet, Tail(strand))
           /\ UNCHANGED <<open, writeQ_, writing, left, reading, read_buffer_>>
    BY <1>1, <1>6, PacketStep DEF writeVars
<1> QED
    BY <1>2, <1>3, <1>4, <1>5, <1>6 DEF RunHandler

LEMMA NextIInv == IInv /\ [Next]_vars => IInv'
<1> SUFFICES ASSUME IInv, [Next]_vars
             PROVE  IInv'
    OBVIOUS
<1>1. CASE UNCHANGED vars
    BY <1>1 DEF vars, writeVars, readVars, sendVars, IInv, TypeOK, WriteInv, ReadInv, Unread,
                ServedInOrder
<1>2. CASE Next
    BY <1>2, KernelReadStep, KernelReadFailsStep, KernelWriteStep, KernelWriteFailsStep,
       ReadCompletesStep, WriteCompletesStep, RunHandlerStep, SendStep,
       StopStep DEF Next
<1> QED
    BY <1>1, <1>2

\* The invariant holds of every connection.
THEOREM ConnectionInvariance == Spec => []IInv
BY InitIInv, NextIInv, PTL DEF Spec

\* Every variable keeps its type; above all async_write never looks at the
\* front of an empty queue.
THEOREM ConnectionTypeCorrect == Spec => []TypeOK
<1>1. IInv => TypeOK
    BY DEF IInv
<1> QED
    BY <1>1, ConnectionInvariance, PTL

LEMMA WritesCounted == IInv => OneWrite
<1> SUFFICES ASSUME IInv
             PROVE  OneWrite
    OBVIOUS
<1> DEFINE Of(kind) == {k \in DOMAIN strand : strand[k].kind = kind}
<1>1. At(strand, WriteEnds) = Of("wrote") \cup Of("writeError")
      /\ Of("wrote") \cap Of("writeError") = {}
    BY LenProperties, Types DEF At, WriteEnds, IInv
<1>2. CASE At(strand, WriteEnds) = {}
    <2>1. Of("wrote") = {} /\ Of("writeError") = {}
        BY <1>1, <1>2
    <2>2. Count("wrote") = 0 /\ Count("writeError") = 0
        BY <2>1, FS_EmptySet DEF Count
    <2> QED
        BY <1>2, <2>2 DEF OneWrite, WritesUnderWay, IInv, WriteInv
<1>3. CASE At(strand, WriteEnds) # {}
    <2>1. PICK i : At(strand, WriteEnds) = {i}
        BY <1>3 DEF IInv, WriteInv, AtMostOne
    <2>2. \/ Of("wrote") = {i} /\ Of("writeError") = {}
          \/ Of("wrote") = {} /\ Of("writeError") = {i}
        BY <1>1, <2>1
    <2>3. Cardinality({i}) = 1 /\ Cardinality({}) = 0
        BY FS_EmptySet, FS_Singleton
    <2>4. \/ Count("wrote") = 1 /\ Count("writeError") = 0
          \/ Count("wrote") = 0 /\ Count("writeError") = 1
        BY <2>2, <2>3 DEF Count
    <2> QED
        BY <1>3, <2>4 DEF OneWrite, WritesUnderWay, IInv, WriteInv
<1> QED
    BY <1>2, <1>3

\* However sends, completions and failures are interleaved, two writes are never
\* under way, and no frame in the queue is left without one that will end.
THEOREM NeverTwoWrites == Spec => []OneWrite
BY WritesCounted, ConnectionInvariance, PTL

\* Packets are served in the order of their arrival, none twice, none left out.
THEOREM AlwaysServedInOrder == Spec => []ServedInOrder
<1>1. IInv => ServedInOrder
    BY DEF IInv, ReadInv
<1> QED
    BY <1>1, ConnectionInvariance, PTL

Piece == [frame : Frame, piece : 1..Pieces]

-----------------------------------------------------------------------------
(* Prefixes, and frames in pieces.                                         *)

LEMMA PrefixAt ==
    ASSUME NEW S, NEW s \in Seq(S), NEW t \in Seq(S)
    PROVE  FS!IsPrefix(s, t) <=> Len(s) <= Len(t) /\ \A i \in 1..Len(s) : s[i] = t[i]
<1>1. Len(s) \in Nat /\ Len(t) \in Nat
    BY LenProperties
<1>2. CASE Len(s) <= Len(t)
    <2>1. /\ SubSeq(s, 1, Len(s)) \in Seq(S) /\ Len(SubSeq(s, 1, Len(s))) = Len(s)
          /\ \A i \in 1..Len(s) : SubSeq(s, 1, Len(s))[i] = s[i]
        BY <1>1, SubSeqProperties
    <2>2. /\ SubSeq(t, 1, Len(s)) \in Seq(S) /\ Len(SubSeq(t, 1, Len(s))) = Len(s)
          /\ \A i \in 1..Len(s) : SubSeq(t, 1, Len(s))[i] = t[i]
        BY <1>1, <1>2, SubSeqProperties
    <2>3. SubSeq(s, 1, Len(s)) = SubSeq(t, 1, Len(s)) <=> \A i \in 1..Len(s) : s[i] = t[i]
        BY <2>1, <2>2, SeqEqual
    <2> QED
        BY <1>2, <2>3 DEF FS!IsPrefix
<1>3. CASE ~(Len(s) <= Len(t))
    BY <1>3 DEF FS!IsPrefix
<1> QED
    BY <1>2, <1>3

LEMMA JoinedAt ==
    ASSUME NEW S, NEW s \in Seq(S), NEW t \in Seq(S), NEW n \in Nat, Len(t) = n
    PROVE  /\ s \o t \in Seq(S) /\ Len(s \o t) = Len(s) + n
           /\ \A i \in 1..Len(s) : (s \o t)[i] = s[i]
           /\ \A i \in (Len(s) + 1)..(Len(s) + n) : (s \o t)[i] = t[i - Len(s)]
<1>1. Len(s) \in Nat /\ Len(t) \in Nat
    BY LenProperties
<1>2. /\ s \o t \in Seq(S) /\ Len(s \o t) = Len(s) + Len(t)
      /\ \A i \in 1..(Len(s) + Len(t)) :
             (s \o t)[i] = IF i <= Len(s) THEN s[i] ELSE t[i - Len(s)]
    BY ConcatProperties
<1> QED
    BY <1>1, <1>2

\* Where piece j of frame d + 1 is.
LEMMA PieceIndex ==
    ASSUME NEW P \in Nat \ {0}, NEW d \in Nat, NEW j \in 1..P, NEW i, i = P * d + j
    PROVE  /\ (i - 1) \div P = d
           /\ ((i - 1) % P) + 1 = j
OBVIOUS

LEMMA PieceInRange ==
    ASSUME NEW P \in Nat \ {0}, NEW d \in Nat, NEW n \in Nat, d < n, NEW j \in 1..P
    PROVE  P * d + j \in 1..(P * n)
<1>1. P * (d + 1) <= P * n
    OBVIOUS
<1>2. P * (d + 1) = P * d + P /\ P * d \in Nat /\ P * n \in Nat
    OBVIOUS
<1> QED
    BY <1>1, <1>2

\* Every piece belongs to a frame.
LEMMA FrameOfPiece ==
    ASSUME NEW P \in Nat \ {0}, NEW n \in Nat, NEW i \in 1..(P * n)
    PROVE  /\ (i - 1) \div P \in 0..(n - 1)
           /\ ((i - 1) % P) + 1 \in 1..P
OBVIOUS

LEMMA StreamOf ==
    ASSUME NEW frames \in Seq(Frame)
    PROVE  /\ FS!Stream(frames) \in Seq(Piece)
           /\ Len(FS!Stream(frames)) = Pieces * Len(frames)
           /\ \A i \in 1..(Pieces * Len(frames)) :
                  FS!Stream(frames)[i] =
                      [frame |-> frames[((i - 1) \div Pieces) + 1], piece |-> ((i - 1) % Pieces) + 1]
<1>1. Pieces \in Nat \ {0} /\ Len(frames) \in Nat /\ Pieces * Len(frames) \in Nat
    BY TcpConnectionAssumption, LenProperties
<1>2. \A i \in 1..(Pieces * Len(frames)) :
          /\ ((i - 1) \div Pieces) + 1 \in 1..Len(frames)
          /\ ((i - 1) % Pieces) + 1 \in 1..Pieces
    BY <1>1, FrameOfPiece
<1>3. \A k \in 1..Len(frames) : frames[k] \in Frame
    BY ElementOfSeq
<1>4. FS!Stream(frames) \in [1..(Pieces * Len(frames)) -> Piece]
    BY <1>2, <1>3 DEF FS!Stream, Piece
<1>5. FS!Stream(frames) \in Seq(Piece)
    BY <1>1, <1>4, SeqDef
<1>6. Len(FS!Stream(frames)) = Pieces * Len(frames)
    BY <1>1, <1>4, <1>5, LenProperties
<1> QED
    BY <1>5, <1>6 DEF FS!Stream

\* More frames make the stream longer and change nothing of it.
LEMMA StreamGrows ==
    ASSUME NEW s \in Seq(Frame), NEW t \in Seq(Frame),
           NEW i \in 1..(Pieces * Len(s))
    PROVE  /\ i \in 1..(Pieces * Len(s \o t))
           /\ FS!Stream(s \o t)[i] = FS!Stream(s)[i]
<1>1. Pieces \in Nat \ {0} /\ Len(s) \in Nat /\ Len(t) \in Nat
    BY TcpConnectionAssumption, LenProperties
<1>2. s \o t \in Seq(Frame) /\ Len(s \o t) = Len(s) + Len(t)
          /\ \A k \in 1..Len(s) : (s \o t)[k] = s[k]
    BY ConcatProperties
<1>3. Pieces * Len(s \o t) = Pieces * Len(s) + Pieces * Len(t)
          /\ Pieces * Len(s) \in Nat /\ Pieces * Len(t) \in Nat
    BY <1>1, <1>2
<1>4. i \in 1..(Pieces * Len(s \o t))
    BY <1>3
<1>5. ((i - 1) \div Pieces) + 1 \in 1..Len(s)
    BY <1>1, FrameOfPiece
<1> QED
    BY <1>2, <1>4, <1>5, StreamOf

-----------------------------------------------------------------------------
(* The frames on the strand.                                               *)

\* num numbers the frames that wait in s from lo to hi, in order; they are the
\* frames of q with these numbers.
Numbers(num, s, q, lo, hi) ==
    /\ num \in [At(s, {"send"}) -> lo..hi]
    /\ \A i, j \in At(s, {"send"}) : i < j => num[i] < num[j]
    /\ \A k \in lo..hi : \E i \in At(s, {"send"}) : num[i] = k
    /\ \A i \in At(s, {"send"}) : s[i].frame = q[num[i]]

SendsAre(s, q, lo, hi) ==
    \E num \in [At(s, {"send"}) -> lo..hi] : Numbers(num, s, q, lo, hi)

LEMMA SendsStay ==
    ASSUME NEW s \in Seq(Handler), NEW t \in Seq(Handler), NEW q,
           NEW lo \in Int, NEW hi \in Int,
           SendsAre(s, q, lo, hi), \A i \in 1..Len(t) : t[i].kind # "send"
    PROVE  SendsAre(s \o t, q, lo, hi)
<1>1. At(s \o t, {"send"}) = At(s, {"send"})
    BY AppendOthers
<1>2. \A i \in At(s, {"send"}) : (s \o t)[i] = s[i]
    BY AppendedAt DEF At
<1>3. PICK num \in [At(s, {"send"}) -> lo..hi] : Numbers(num, s, q, lo, hi)
    BY DEF SendsAre
<1>4. Numbers(num, s \o t, q, lo, hi)
    BY <1>1, <1>2, <1>3 DEF Numbers
<1> QED
    BY <1>1, <1>4 DEF SendsAre

LEMMA SendsTakeOther ==
    ASSUME NEW s \in Seq(Handler), s # <<>>, NEW q, NEW lo \in Int, NEW hi \in Int,
           SendsAre(s, q, lo, hi), Head(s).kind # "send"
    PROVE  SendsAre(Tail(s), q, lo, hi)
<1> DEFINE A == At(s, {"send"})
           B == At(Tail(s), {"send"})
<1>1. \A i \in B : i \in Nat /\ i + 1 \in A /\ Tail(s)[i] = s[i + 1]
    BY TakenAt DEF At
<1>2. \A i \in A : i \in Nat /\ i - 1 \in B
    BY TakenAt DEF At
<1>3. PICK num \in [A -> lo..hi] : Numbers(num, s, q, lo, hi)
    BY DEF SendsAre
<1> DEFINE next == [i \in B |-> num[i + 1]]
<1>4. next \in [B -> lo..hi]
    BY <1>1, <1>3
<1>5. ASSUME NEW i \in B, NEW j \in B, i < j
      PROVE  next[i] < next[j]
    <2>1. i + 1 \in A /\ j + 1 \in A /\ i + 1 < j + 1
        BY <1>1, <1>5
    <2> QED
        BY <1>3, <2>1 DEF Numbers
<1>6. ASSUME NEW k \in lo..hi
      PROVE  \E i \in B : next[i] = k
    <2>1. PICK i \in A : num[i] = k
        BY <1>3 DEF Numbers
    <2>2. i - 1 \in B /\ (i - 1) + 1 = i
        BY <1>2
    <2> QED
        BY <2>1, <2>2
<1>7. \A i \in B : Tail(s)[i].frame = q[next[i]]
    BY <1>1, <1>3 DEF Numbers
<1>8. Numbers(next, Tail(s), q, lo, hi)
    BY <1>4, <1>5, <1>6, <1>7 DEF Numbers
<1> QED
    BY <1>4, <1>8 DEF SendsAre

LEMMA SendTaken ==
    ASSUME NEW s \in Seq(Handler), s # <<>>, NEW q, NEW lo \in Int, NEW hi \in Int,
           SendsAre(s, q, lo, hi), Head(s).kind = "send"
    PROVE  /\ lo <= hi
           /\ Head(s).frame = q[lo]
           /\ SendsAre(Tail(s), q, lo + 1, hi)
<1> DEFINE A == At(s, {"send"})
           B == At(Tail(s), {"send"})
<1>1. \A i \in B : i \in Nat \ {0} /\ i + 1 \in A /\ Tail(s)[i] = s[i + 1]
    BY TakenAt DEF At
<1>2. \A i \in A \ {1} : i \in Nat /\ i - 1 \in B
    BY TakenAt DEF At
<1>3. 1 \in A /\ s[1] = Head(s) /\ \A i \in A : i \in Nat \ {0}
    BY TakenAt DEF At
<1>4. PICK num \in [A -> lo..hi] : Numbers(num, s, q, lo, hi)
    BY DEF SendsAre
<1>5. num[1] \in lo..hi
    BY <1>3
<1>6. num[1] = lo
    <2>1. lo \in lo..hi
        BY <1>5
    <2>2. PICK i \in A : num[i] = lo
        BY <1>4, <2>1 DEF Numbers
    <2>3. i # 1 => num[1] < lo
        BY <1>3, <1>4, <2>2 DEF Numbers
    <2> QED
        BY <1>5, <2>2, <2>3
<1> DEFINE next == [i \in B |-> num[i + 1]]
<1>7. ASSUME NEW i \in B
      PROVE  num[i + 1] \in (lo + 1)..hi
    <2>1. i + 1 \in A /\ 1 < i + 1
        BY <1>1
    <2>2. num[1] < num[i + 1] /\ num[i + 1] \in lo..hi
        BY <1>3, <1>4, <2>1 DEF Numbers
    <2> QED
        BY <1>6, <2>2
<1>8. next \in [B -> (lo + 1)..hi]
    BY <1>7
<1>9. ASSUME NEW i \in B, NEW j \in B, i < j
      PROVE  next[i] < next[j]
    <2>1. i + 1 \in A /\ j + 1 \in A /\ i + 1 < j + 1
        BY <1>1, <1>9
    <2> QED
        BY <1>4, <2>1 DEF Numbers
<1>10. ASSUME NEW k \in (lo + 1)..hi
       PROVE  \E i \in B : next[i] = k
    <2>1. k \in lo..hi /\ k # lo
        OBVIOUS
    <2>2. PICK i \in A : num[i] = k
        BY <1>4, <2>1 DEF Numbers
    <2>3. i - 1 \in B /\ (i - 1) + 1 = i
        BY <1>2, <1>6, <2>1, <2>2
    <2> QED
        BY <2>2, <2>3
<1>11. \A i \in B : Tail(s)[i].frame = q[next[i]]
    BY <1>1, <1>4 DEF Numbers
<1>12. Numbers(next, Tail(s), q, lo + 1, hi)
    BY <1>8, <1>9, <1>10, <1>11 DEF Numbers
<1>13. lo <= hi
    BY <1>5
<1> QED
    BY <1>3, <1>4, <1>6, <1>8, <1>12, <1>13 DEF SendsAre, Numbers

LEMMA SendsAppended ==
    ASSUME NEW s \in Seq(Handler), NEW t \in Seq(Handler),
           NEW q \in Seq(Frame), NEW f \in Seq(Frame), NEW lo \in Nat \ {0},
           SendsAre(s, q, lo, Len(q)), lo <= Len(q) + 1,
           Len(t) = Len(f), \A i \in 1..Len(t) : t[i].kind = "send" /\ t[i].frame = f[i]
    PROVE  SendsAre(s \o t, q \o f, lo, Len(q \o f))
<1> DEFINE A == At(s, {"send"})
           r == s \o t
           B == At(r, {"send"})
           new == (Len(s) + 1)..Len(r)
           hi == Len(q)
<1>1. /\ Len(s) \in Nat /\ Len(t) \in Nat /\ Len(r) = Len(s) + Len(t) /\ hi \in Nat
      /\ \A i \in 1..Len(s) : r[i] = s[i]
      /\ \A i \in new : i - Len(s) \in 1..Len(t) /\ r[i] = t[i - Len(s)]
    <2>1. Len(s) \in Nat /\ Len(t) \in Nat /\ hi \in Nat
        BY LenProperties
    <2>2. /\ Len(r) = Len(s) + Len(t)
          /\ \A i \in 1..Len(s) : r[i] = s[i]
          /\ \A i \in new : r[i] = t[i - Len(s)]
        BY ONLY AppendedAt, s \in Seq(Handler), t \in Seq(Handler)
    <2>3. \A i \in new : i - Len(s) \in 1..Len(t)
        BY <2>1, <2>2
    <2> QED
        BY <2>1, <2>2, <2>3
<1>2. /\ Len(q \o f) = hi + Len(t)
      /\ \A k \in 1..hi : (q \o f)[k] = q[k]
      /\ \A k \in (hi + 1)..(hi + Len(t)) : (q \o f)[k] = f[k - hi]
    BY <1>1, ConcatProperties
<1>3. B = A \cup new /\ A \subseteq 1..Len(s)
    BY <1>1 DEF At
<1>4. PICK num \in [A -> lo..hi] : Numbers(num, s, q, lo, hi)
    BY DEF SendsAre
<1> DEFINE more == [i \in B |-> IF i \in A THEN num[i] ELSE hi + (i - Len(s))]
<1>5. \A i \in new : i \notin A /\ more[i] = hi + (i - Len(s))
                         /\ more[i] \in (hi + 1)..(hi + Len(t))
    BY <1>1, <1>3
<1>6. \A i \in A : more[i] = num[i] /\ more[i] \in lo..hi
    BY <1>3, <1>4
<1>7. more \in [B -> lo..(hi + Len(t))]
    BY <1>1, <1>3, <1>5, <1>6
<1>8. ASSUME NEW i \in B, NEW j \in B, i < j
      PROVE  more[i] < more[j]
    <2>1. CASE j \in A
        <3>1. i \in A
            BY <1>1, <1>3, <1>8, <2>1
        <3> QED
            BY <1>4, <1>6, <1>8, <2>1, <3>1 DEF Numbers
    <2>2. CASE i \in A /\ j \in new
        <3>1. more[i] \in lo..hi /\ more[j] \in (hi + 1)..(hi + Len(t))
            BY <1>5, <1>6, <2>2
        <3> QED
            BY ONLY <1>1, <3>1, lo \in Nat
    <2>3. CASE i \in new /\ j \in new
        <3>1. i \in Int /\ j \in Int /\ hi \in Int /\ Len(s) \in Int
            BY <1>1, <2>3
        <3>2. more[i] = hi + (i - Len(s)) /\ more[j] = hi + (j - Len(s))
            BY <1>5, <2>3
        <3> QED
            BY <1>8, <3>1, <3>2
    <2> QED
        BY <1>3, <2>1, <2>2, <2>3
<1>9. ASSUME NEW k \in lo..(hi + Len(t))
      PROVE  \E i \in B : more[i] = k
    <2>1. CASE k <= hi
        <3>1. k \in lo..hi
            BY <1>1, <2>1
        <3>2. PICK i \in A : num[i] = k
            BY <1>4, <3>1 DEF Numbers
        <3> QED
            BY <1>3, <1>6, <3>2
    <2>2. CASE k > hi
        <3>1. Len(s) + (k - hi) \in new /\ hi + ((Len(s) + (k - hi)) - Len(s)) = k
            BY <1>1, <2>2
        <3> QED
            BY <1>3, <1>5, <3>1
    <2>3. k <= hi \/ k > hi
        BY <1>1
    <2> QED
        BY <2>1, <2>2, <2>3
<1>10. ASSUME NEW i \in B
       PROVE  r[i].frame = (q \o f)[more[i]]
    <2>1. CASE i \in A
        <3>1. num[i] \in 1..hi /\ r[i] = s[i]
            BY <1>1, <1>3, <2>1
        <3> QED
            BY <1>2, <1>4, <1>6, <2>1, <3>1 DEF Numbers
    <2>2. CASE i \in new
        <3>1. i - Len(s) \in 1..Len(t) /\ r[i].frame = f[i - Len(s)]
            BY <1>1, <2>2
        <3>2. (hi + (i - Len(s))) - hi = i - Len(s)
            BY <1>1, <2>2
        <3> QED
            BY <1>2, <1>5, <2>2, <3>1, <3>2
    <2> QED
        BY <1>3, <2>1, <2>2
<1>11. Numbers(more, r, q \o f, lo, hi + Len(t))
    BY <1>7, <1>8, <1>9, <1>10 DEF Numbers
<1> QED
    BY <1>2, <1>7, <1>11 DEF SendsAre

-----------------------------------------------------------------------------
(* The invariant.                                                          *)

Account(d) ==
    /\ d + Len(writeQ_) <= Len(posted)
    /\ \A i \in 1..Len(writeQ_) : writeQ_[i] = posted[d + i]
    /\ SendsAre(strand, posted, d + Len(writeQ_) + 1, Len(posted))
    /\ Len(wire) = Pieces * d + (IF writeQ_ = <<>> THEN 0 ELSE Pieces - left)
    /\ Len(wire) <= Pieces * Len(posted)
    /\ \A i \in 1..Len(wire) : wire[i] = FS!Stream(posted)[i]

DeliveryInv ==
    /\ writing = "kernel" => open
    /\ \E d \in Nat : Account(d)

DInv == IInv /\ DeliveryInv

LEMMA DTypes ==
    ASSUME IInv
    PROVE  /\ Len(writeQ_) \in Nat /\ Len(posted) \in Nat /\ Len(wire) \in Nat
           /\ wire \in Seq(Piece)
BY LenProperties DEF IInv, TypeOK, Piece

\* A step that changes nothing the account is about, but perhaps what waits on
\* the strand behind the frames.
LEMMA AccountKept ==
    ASSUME NEW d \in Nat, Account(d),
           UNCHANGED <<writeQ_, left, wire, posted>>,
           SendsAre(strand', posted, d + Len(writeQ_) + 1, Len(posted))
    PROVE  Account(d)'
BY DEF Account

LEMMA EndAccounted ==
    ASSUME IInv, NEW d \in Nat, Account(d), NEW h \in Handler, h.kind # "send",
           strand' = Append(strand, h), UNCHANGED <<writeQ_, left, wire, posted>>
    PROVE  Account(d)'
<1>1. strand' = strand \o <<h>> /\ strand \in Seq(Handler)
    BY AppendIsConcat, Types DEF IInv
<1>2. <<h>> \in Seq(Handler) /\ \A i \in 1..Len(<<h>>) : <<h>>[i].kind # "send"
    OBVIOUS
<1>3. d + Len(writeQ_) + 1 \in Int /\ Len(posted) \in Int
    BY DTypes
<1>4. SendsAre(strand, posted, d + Len(writeQ_) + 1, Len(posted))
    BY DEF Account
<1>5. SendsAre(strand', posted, d + Len(writeQ_) + 1, Len(posted))
    BY <1>1, <1>2, <1>3, <1>4, SendsStay
<1> QED
    BY <1>5, AccountKept

\* A handler that is no frame is taken, and others that are none come behind.
LEMMA TakenAccounted ==
    ASSUME IInv, NEW d \in Nat, Account(d), strand # <<>>, Head(strand).kind # "send"
    PROVE  SendsAre(Tail(strand), posted, d + Len(writeQ_) + 1, Len(posted))
<1>1. d + Len(writeQ_) + 1 \in Int /\ Len(posted) \in Int /\ strand \in Seq(Handler)
    BY DTypes, Types DEF IInv
<1>2. SendsAre(strand, posted, d + Len(writeQ_) + 1, Len(posted))
    BY DEF Account
<1> QED
    BY <1>1, <1>2, SendsTakeOther

\* A message is posted: its frames come last, on the strand as in posted.
LEMMA PostAccounted ==
    ASSUME IInv, NEW d \in Nat, Account(d),
           NEW s \in Seq(Handler), SendsAre(s, posted, d + Len(writeQ_) + 1, Len(posted)),
           NEW parts \in 1..MaxParts, sendMessage(parts, s),
           UNCHANGED <<writeQ_, left, wire>>
    PROVE  /\ Account(d)'
           /\ posted' \in Seq(Frame) /\ FS!IsPrefix(posted, posted')
<1> DEFINE f == FramesOf(parts)
           t == Sends(f)
<1>1. messages < MaxMessages /\ posted' = posted \o f /\ strand' = s \o t
    BY DEF sendMessage
<1>2. /\ f \in Seq(Frame) /\ t \in Seq(Handler) /\ Len(t) = Len(f)
      /\ \A i \in 1..Len(t) : t[i].kind = "send" /\ t[i].frame = f[i]
    <2>1. f \in Seq(Frame) /\ t \in Seq(Handler)
        BY <1>1, FramesAreHandlers DEF IInv
    <2>2. Len(t) = Len(f)
        BY <1>1, FramesAreHandlers DEF IInv
    <2>3. ASSUME NEW i \in 1..Len(t)
          PROVE  t[i].kind = "send" /\ t[i].frame = f[i]
        <3>1. i \in DOMAIN f
            BY <2>1, <2>2, LenProperties
        <3>2. t[i] = [kind |-> "send", frame |-> f[i]]
            BY <3>1 DEF Sends
        <3> QED
            BY ONLY <3>2
    <2> QED
        BY ONLY <2>1, <2>2, <2>3
<1>3. /\ posted \in Seq(Frame) /\ Len(posted) \in Nat /\ Len(writeQ_) \in Nat
      /\ Len(f) \in Nat /\ Len(wire) \in Nat
    BY <1>2, DTypes, Types, LenProperties DEF IInv
<1>4. /\ posted' \in Seq(Frame) /\ Len(posted') = Len(posted) + Len(f)
      /\ \A i \in 1..Len(posted) : posted'[i] = posted[i]
    BY <1>1, <1>2, <1>3, ConcatProperties
<1>5. FS!IsPrefix(posted, posted')
    <2>1. Len(posted) <= Len(posted')
        BY <1>3, <1>4
    <2> QED
        BY <1>3, <1>4, <2>1, PrefixAt
<1>6. SendsAre(strand', posted', d + Len(writeQ_) + 1, Len(posted'))
    <2>1. d + Len(writeQ_) + 1 \in Nat \ {0} /\ d + Len(writeQ_) + 1 <= Len(posted) + 1
        BY <1>3 DEF Account
    <2> QED
        BY <1>1, <1>2, <1>3, <2>1, SendsAppended
<1>7. \A i \in 1..Len(wire) : wire[i] = FS!Stream(posted')[i]
    <2>1. \A i \in 1..Len(wire) : i \in 1..(Pieces * Len(posted))
        BY <1>3, TcpConnectionAssumption DEF Account
    <2> QED
        BY <1>1, <1>2, <1>3, <2>1, StreamGrows DEF Account
<1>8. Len(wire) <= Pieces * Len(posted')
    <2>1. Pieces * Len(posted') = Pieces * Len(posted) + Pieces * Len(f)
              /\ Pieces * Len(posted) \in Nat /\ Pieces * Len(f) \in Nat
        BY <1>3, <1>4, TcpConnectionAssumption
    <2> QED
        BY <1>3, <2>1 DEF Account
<1>9. ASSUME NEW i \in 1..Len(writeQ_)
      PROVE  writeQ_[i] = posted'[d + i]
    <2>1. d + Len(writeQ_) <= Len(posted) /\ writeQ_[i] = posted[d + i]
        BY DEF Account
    <2>2. d + i \in 1..Len(posted)
        BY <1>3, <2>1
    <2> QED
        BY <1>4, <2>1, <2>2
<1>10. d + Len(writeQ_) <= Len(posted')
    BY <1>3, <1>4 DEF Account
<1>11. Account(d)'
    BY <1>6, <1>7, <1>8, <1>9, <1>10 DEF Account
<1> QED
    BY <1>4, <1>5, <1>11

-----------------------------------------------------------------------------
(* Every step is a step of FrameStream, or none, and keeps the account.    *)

\* What a step must be.
Fits == DeliveryInv' /\ [FS!Next]_(FS!vars)

\* A step that FrameStream does not see.
LEMMA NothingSeen ==
    ASSUME UNCHANGED <<posted, wire, open, running>>
    PROVE  [FS!Next]_(FS!vars)
BY DEF FS!vars

LEMMA FailSeen ==
    ASSUME UNCHANGED <<posted, wire>>, ~(open /\ running)'
    PROVE  [FS!Next]_(FS!vars)
BY DEF FS!Next, FS!Fail

LEMMA PostSeen ==
    ASSUME posted' \in Seq(Frame), FS!IsPrefix(posted, posted'), UNCHANGED <<wire, open, running>>
    PROVE  [FS!Next]_(FS!vars)
BY DEF FS!Next, FS!Post

LEMMA KernelWriteFits == ASSUME DInv, KernelWrite PROVE Fits
<1> USE DEF KernelWrite, readVars, sendVars
<1>1. PICK n \in 1..left :
          /\ wire' = wire \o [i \in 1..n |->
                  [frame |-> Head(writeQ_), piece |-> Pieces - left + i]]
          /\ left' = left - n
    OBVIOUS
<1>2. PICK d \in Nat : Account(d)
    BY DEF DInv, DeliveryInv
<1> DEFINE taken == [i \in 1..n |-> [frame |-> Head(writeQ_), piece |-> Pieces - left + i]]
<1>3. /\ n \in Nat \ {0} /\ left \in Nat /\ n <= left /\ left <= Pieces /\ Pieces \in Nat \ {0}
      /\ Len(wire) \in Nat /\ Len(posted) \in Nat /\ Len(writeQ_) \in Nat
      /\ wire \in Seq(Piece) /\ posted \in Seq(Frame)
    <2>1. left \in Nat /\ left <= Pieces /\ Pieces \in Nat \ {0} /\ posted \in Seq(Frame)
        BY Types DEF DInv, IInv
    <2>2. n \in 1..left
        OBVIOUS
    <2>3. n \in Nat \ {0} /\ n <= left
        BY ONLY <2>1, <2>2
    <2>4. /\ Len(wire) \in Nat /\ Len(posted) \in Nat /\ Len(writeQ_) \in Nat
          /\ wire \in Seq(Piece)
        BY DTypes DEF DInv
    <2> QED
        BY ONLY <2>1, <2>3, <2>4
<1>4. writeQ_ # <<>> /\ Head(writeQ_) = posted[d + 1] /\ d < Len(posted)
          /\ Head(writeQ_) \in Frame
    <2>1. writeQ_ # <<>> /\ writeQ_ \in Seq(Frame)
        BY Types DEF DInv, IInv, WriteInv
    <2>2. Len(writeQ_) \in Nat \ {0} /\ Head(writeQ_) = writeQ_[1] /\ Head(writeQ_) \in Frame
        BY ONLY <2>1, EmptySeq, HeadTailProperties
    <2>3. 1 \in 1..Len(writeQ_) /\ d + Len(writeQ_) <= Len(posted)
        BY <1>2, <2>2 DEF Account
    <2>4. d < Len(posted)
        BY <1>3, <2>2, <2>3
    <2> QED
        BY <1>2, <2>1, <2>2, <2>3, <2>4 DEF Account
<1>5. Len(wire) = Pieces * d + (Pieces - left)
    BY <1>2, <1>4 DEF Account
<1>6. /\ taken \in Seq(Piece) /\ Len(taken) = n
      /\ \A i \in 1..n : taken[i] = [frame |-> posted[d + 1], piece |-> Pieces - left + i]
    <2>1. \A i \in 1..n : Pieces - left + i \in 1..Pieces
        BY ONLY <1>3
    <2>2. taken \in [1..n -> Piece]
        BY <1>4, <2>1 DEF Piece
    <2>3. n \in Nat
        BY <1>3
    <2>4. taken \in Seq(Piece)
        BY ONLY <2>2, <2>3, SeqDef
    <2>5. Len(taken) = n
        BY ONLY <2>2, <2>3, <2>4, LenProperties
    <2> QED
        BY <1>4, <2>4, <2>5
<1>7. /\ wire' \in Seq(Piece) /\ Len(wire') = Len(wire) + n
      /\ \A i \in 1..Len(wire) : wire'[i] = wire[i]
      /\ \A i \in (Len(wire) + 1)..(Len(wire) + n) : wire'[i] = taken[i - Len(wire)]
    <2>1. wire' = wire \o taken
        BY <1>1
    <2> QED
        <3> HIDE DEF taken
        <3>1. wire \in Seq(Piece) /\ taken \in Seq(Piece) /\ n \in Nat /\ Len(taken) = n
            BY <1>3, <1>6
        <3> QED
            BY ONLY <2>1, <3>1, JoinedAt
<1>8. ASSUME NEW i \in (Len(wire) + 1)..(Len(wire) + n)
      PROVE  /\ i \in 1..(Pieces * Len(posted))
             /\ wire'[i] = FS!Stream(posted)[i]
    <2> DEFINE j == Pieces - left + (i - Len(wire))
    <2>1. j \in 1..Pieces /\ i = Pieces * d + j /\ i - Len(wire) \in 1..n
        <3>1. Pieces * d \in Int
            BY ONLY <1>3, d \in Nat
        <3>2. i \in (Len(wire) + 1)..(Len(wire) + n)
            OBVIOUS
        <3> QED
            BY ONLY <1>3, <1>5, <3>1, <3>2
    <2> HIDE DEF j
    <2>2. Pieces * d + j \in 1..(Pieces * Len(posted))
        BY ONLY <1>3, <1>4, <2>1, PieceInRange, d \in Nat
    <2>3. i \in 1..(Pieces * Len(posted))
        BY <2>1, <2>2
    <2>4. (i - 1) \div Pieces = d /\ ((i - 1) % Pieces) + 1 = j
        BY ONLY <1>3, <2>1, PieceIndex, d \in Nat
    <2>5. FS!Stream(posted)[i] = [frame |-> posted[d + 1], piece |-> j]
        BY <1>3, <2>3, <2>4, StreamOf
    <2>6. wire'[i] = [frame |-> posted[d + 1], piece |-> j]
        BY <1>6, <1>7, <2>1 DEF j
    <2> QED
        BY <2>3, <2>5, <2>6
<1>9. /\ Len(wire') <= Pieces * Len(posted)
      /\ \A i \in 1..Len(wire') : wire'[i] = FS!Stream(posted)[i]
    <2>1. Len(wire') \in (Len(wire) + 1)..(Len(wire) + n) /\ Len(wire') \in Nat
        BY <1>3, <1>7
    <2>2. Pieces * Len(posted) \in Nat
        BY <1>3
    <2>3. Len(wire') <= Pieces * Len(posted)
        <3>1. Len(wire') \in 1..(Pieces * Len(posted))
            BY ONLY <1>8, <2>1
        <3> QED
            BY ONLY <2>2, <3>1
    <2>4. \A i \in 1..Len(wire') : i \in 1..Len(wire) \/ i \in (Len(wire) + 1)..(Len(wire) + n)
        BY <1>3, <1>7
    <2>5. \A i \in 1..Len(wire) : wire'[i] = FS!Stream(posted)[i]
        BY <1>2, <1>7 DEF Account
    <2> QED
        BY <1>8, <2>3, <2>4, <2>5
<1>10. Account(d)'
    <2>1. Len(wire') = Pieces * d + (Pieces - left')
        <3>1. Pieces * d \in Int
            BY <1>3
        <3>2. left' = left - n
            BY <1>1
        <3> QED
            BY ONLY <1>3, <1>5, <1>7, <3>1, <3>2
    <2>2. /\ writeQ_' = writeQ_ /\ posted' = posted /\ strand' = strand
          /\ d + Len(writeQ_) <= Len(posted)
          /\ \A i \in 1..Len(writeQ_) : writeQ_[i] = posted[d + i]
          /\ SendsAre(strand, posted, d + Len(writeQ_) + 1, Len(posted))
        BY <1>2 DEF Account
    <2> QED
        BY ONLY <1>4, <1>9, <2>1, <2>2 DEF Account
<1>11. DeliveryInv'
    BY <1>10 DEF DeliveryInv
<1>12. FS!Deliver
    <2>1. open /\ running
        BY DEF DInv, DeliveryInv
    <2>2. Len(wire') > Len(wire)
        BY ONLY <1>3, <1>7
    <2>3. FS!IsPrefix(wire, wire')
        <3>1. Len(wire) <= Len(wire')
            BY ONLY <1>3, <1>7
        <3> QED
            BY ONLY <1>3, <1>7, <3>1, PrefixAt
    <2>4. FS!Stream(posted) \in Seq(Piece) /\ Len(FS!Stream(posted)) = Pieces * Len(posted)
        BY <1>3, StreamOf
    <2>5. FS!IsPrefix(wire', FS!Stream(posted))
        BY <1>7, <1>9, <2>4, PrefixAt
    <2> QED
        BY <2>1, <2>2, <2>3, <2>5 DEF FS!Deliver
<1> QED
    BY <1>11, <1>12 DEF Fits, FS!Next

LEMMA CompletesFits == ASSUME DInv, ReadCompletes \/ WriteCompletes PROVE Fits
<1>1. PICK k \in WriteEnds \cup ReadEnds : strand' = Append(strand, [kind |-> k])
    BY DEF ReadCompletes, WriteCompletes, WriteEnds, ReadEnds
<1>2. /\ UNCHANGED <<running, open, writeQ_, left, wire, posted>>
      /\ writing' = "kernel" => writing = "kernel"
    BY DEF ReadCompletes, WriteCompletes, writeVars, sendVars
<1>3. [kind |-> k] \in Handler /\ [kind |-> k].kind # "send"
    BY EndsAreHandlers DEF WriteEnds, ReadEnds
<1>4. PICK d \in Nat : Account(d)
    BY DEF DInv, DeliveryInv
<1>5. Account(d)'
    BY <1>1, <1>2, <1>3, <1>4, EndAccounted DEF DInv
<1>6. DeliveryInv'
    BY <1>2, <1>5 DEF DInv, DeliveryInv
<1> QED
    BY <1>2, <1>6, NothingSeen DEF Fits

LEMMA KernelElseFits ==
    ASSUME DInv, KernelRead \/ KernelReadFails \/ KernelWriteFails
    PROVE  Fits
<1>1. UNCHANGED <<running, open, strand, writeQ_, left, wire, posted>>
          /\ (writing' = "kernel" => writing = "kernel")
    BY DEF KernelRead, KernelReadFails, KernelWriteFails, writeVars, sendVars
<1>2. PICK d \in Nat : Account(d)
    BY DEF DInv, DeliveryInv
<1>3. Account(d)'
    BY <1>1, <1>2, AccountKept DEF Account
<1>4. DeliveryInv'
    BY <1>1, <1>3 DEF DInv, DeliveryInv
<1> QED
    BY <1>1, <1>4, NothingSeen DEF Fits

LEMMA SendFits == ASSUME DInv, Send PROVE Fits
<1>1. PICK parts \in 1..MaxParts : sendMessage(parts, strand)
    BY DEF Send
<1>2. UNCHANGED <<running, open, writeQ_, writing, left, wire>>
    BY DEF Send, writeVars
<1>3. PICK d \in Nat : Account(d)
    BY DEF DInv, DeliveryInv
<1>4. IInv /\ strand \in Seq(Handler)
      /\ SendsAre(strand, posted, d + Len(writeQ_) + 1, Len(posted))
    BY <1>3, Types DEF DInv, IInv, Account
<1>5. /\ Account(d)'
      /\ posted' \in Seq(Frame) /\ FS!IsPrefix(posted, posted')
    BY <1>1, <1>2, <1>3, <1>4, PostAccounted
<1>6. DeliveryInv'
    BY <1>2, <1>5 DEF DInv, DeliveryInv
<1> QED
    BY <1>2, <1>5, <1>6, PostSeen DEF Fits

\* The handlers that touch neither the queue nor what was posted.
LEMMA HandlerElseFits ==
    ASSUME DInv, strand # <<>>, Head(strand).kind # "send",
           NEW t \in Seq(Handler), \A i \in 1..Len(t) : t[i].kind # "send",
           strand' = Tail(strand) \o t,
           UNCHANGED <<running, writeQ_, left, wire, posted>>,
           \/ UNCHANGED <<open, writing>>
           \/ open' = FALSE /\ writing' = Aborted(writing)
    PROVE  Fits
<1>1. PICK d \in Nat : Account(d)
    BY DEF DInv, DeliveryInv
<1>2. Tail(strand) \in Seq(Handler)
    BY TakenAt, Types DEF DInv, IInv
<1>3. SendsAre(Tail(strand), posted, d + Len(writeQ_) + 1, Len(posted))
    BY <1>1, TakenAccounted DEF DInv
<1>4. d + Len(writeQ_) + 1 \in Int /\ Len(posted) \in Int
    BY DTypes DEF DInv
<1>5. SendsAre(strand', posted, d + Len(writeQ_) + 1, Len(posted))
    BY <1>2, <1>3, <1>4, SendsStay
<1>6. Account(d)'
    BY <1>1, <1>5, AccountKept
<1>7. DeliveryInv'
    BY <1>6 DEF DInv, DeliveryInv, Aborted
<1> QED
    BY <1>7, NothingSeen, FailSeen DEF Fits

\* The front of the strand joins the queue: the account has it in both places
\* under the same number.
LEMMA PushFits ==
    ASSUME DInv, strand # <<>>, Head(strand).kind = "send", push(Head(strand).frame),
           strand' = Tail(strand), UNCHANGED <<running, open, wire, posted>>
    PROVE  Fits
<1> DEFINE f == Head(strand).frame
           n == Len(writeQ_)
<1>1. PICK d \in Nat : Account(d)
    BY DEF DInv, DeliveryInv
<1>2. /\ n \in Nat /\ Len(posted) \in Nat /\ Pieces \in Nat \ {0}
      /\ strand \in Seq(Handler) /\ writeQ_ \in Seq(Frame) /\ f \in Frame
    BY DTypes, Types, TakenAt, HandlerTypes DEF DInv, IInv
<1>3. /\ d + n + 1 <= Len(posted)
      /\ f = posted[d + n + 1]
      /\ SendsAre(Tail(strand), posted, (d + n + 1) + 1, Len(posted))
    <2>1. d + n + 1 \in Int /\ Len(posted) \in Int
        BY <1>2
    <2>2. SendsAre(strand, posted, d + n + 1, Len(posted))
        BY <1>1 DEF Account
    <2> QED
        BY <1>2, <2>1, <2>2, SendTaken
<1>4. /\ writeQ_' = Append(writeQ_, f)
      /\ writeQ_ = <<>> => left' = Pieces
      /\ writeQ_ # <<>> => left' = left
      /\ writing' = "kernel" => writing = "kernel" \/ open
    <2>1. writeQ_ = <<>> => Append(writeQ_, f) = <<f>>
        OBVIOUS
    <2> QED
        BY <2>1 DEF push, doWrite, Started
<1>5. /\ Len(writeQ_') = n + 1 /\ writeQ_' # <<>>
      /\ \A i \in 1..n : writeQ_'[i] = writeQ_[i]
      /\ writeQ_'[n + 1] = f
    BY <1>2, <1>4, AppendProperties
<1>6. ASSUME NEW i \in 1..Len(writeQ_')
      PROVE  writeQ_'[i] = posted[d + i]
    <2>1. CASE i \in 1..n
        BY <1>1, <1>5, <2>1 DEF Account
    <2>2. CASE i = n + 1
        <3>1. d + i = d + n + 1
            BY <1>2, <2>2
        <3> QED
            BY <1>3, <1>5, <2>2, <3>1
    <2>3. i \in 1..n \/ i = n + 1
        BY <1>2, <1>5
    <2> QED
        BY <2>1, <2>2, <2>3
<1>7. Len(wire) = Pieces * d + (Pieces - left')
    <2>1. Pieces * d \in Int
        BY <1>2
    <2>2. CASE writeQ_ = <<>>
        BY <1>1, <1>2, <1>4, <2>1, <2>2 DEF Account
    <2>3. CASE writeQ_ # <<>>
        BY <1>1, <1>4, <2>3 DEF Account
    <2> QED
        BY <2>2, <2>3
<1>8. Account(d)'
    <2>1. d + Len(writeQ_') <= Len(posted) /\ d + Len(writeQ_') + 1 = (d + n + 1) + 1
        BY <1>2, <1>3, <1>5
    <2>2. SendsAre(strand', posted', d + Len(writeQ_') + 1, Len(posted'))
        BY <1>3, <2>1
    <2> QED
        BY <1>1, <1>5, <1>6, <1>7, <2>1, <2>2 DEF Account
<1>9. DeliveryInv'
    BY <1>4, <1>8 DEF DInv, DeliveryInv
<1> QED
    BY <1>9, NothingSeen DEF Fits

\* A frame that is wholly taken leaves the queue, and d counts it.
LEMMA WroteFits ==
    ASSUME DInv, strand # <<>>, Head(strand).kind = "wrote", wrote,
           strand' = Tail(strand), UNCHANGED <<running, open, wire, posted>>
    PROVE  Fits
<1> DEFINE n == Len(writeQ_)
<1>1. PICK d \in Nat : Account(d)
    BY DEF DInv, DeliveryInv
<1>2. /\ n \in Nat /\ Len(posted) \in Nat /\ Pieces \in Nat \ {0} /\ left \in Nat
      /\ writeQ_ \in Seq(Frame)
    BY DTypes, Types DEF DInv, IInv
<1>3. writing' = "kernel" => writing = "kernel" \/ open
    BY DEF wrote, pop, doWrite, Started
<1>4. SendsAre(Tail(strand), posted, d + n + 1, Len(posted))
    BY <1>1, TakenAccounted DEF DInv
<1>5. CASE left > 0
    <2>1. writeQ_' = writeQ_ /\ left' = left
        BY <1>5 DEF wrote
    <2>2. Account(d)'
        BY <1>1, <1>4, <2>1, AccountKept
    <2> QED
        BY <1>3, <2>2, NothingSeen DEF Fits, DInv, DeliveryInv
<1>6. CASE ~(left > 0)
    <2>1. writeQ_ # <<>>
        <3>1. 1 \in At(strand, WriteEnds)
            BY TakenAt, Types DEF At, WriteEnds, DInv, IInv
        <3> QED
            BY <3>1 DEF DInv, IInv, WriteInv
    <2>2. /\ n \in Nat \ {0} /\ Tail(writeQ_) \in Seq(Frame) /\ Len(Tail(writeQ_)) = n - 1
          /\ \A i \in 1..(n - 1) : Tail(writeQ_)[i] = writeQ_[i + 1]
        BY <1>2, <2>1, HeadTailProperties, EmptySeq
    <2>3. writeQ_' = Tail(writeQ_) /\ (writeQ_' # <<>> => left' = Pieces)
        <3>1. CASE n > 1
            BY <1>6, <3>1 DEF wrote, pop, doWrite
        <3>2. CASE ~(n > 1)
            <4>1. Len(Tail(writeQ_)) = 0
                BY <2>2, <3>2
            <4>2. Tail(writeQ_) = <<>>
                BY <2>2, <4>1, EmptySeq
            <4> QED
                BY <1>6, <3>2, <4>2 DEF wrote, pop
        <3> QED
            BY <3>1, <3>2
    <2>4. Len(wire) = Pieces * (d + 1)
        <3>1. left = 0
            BY <1>2, <1>6
        <3>2. Pieces * (d + 1) = Pieces * d + Pieces
            BY <1>2
        <3> QED
            BY <1>1, <1>2, <2>1, <3>1, <3>2 DEF Account
    <2>5. Account(d + 1)'
        <3>1. /\ (d + 1) + Len(writeQ_') = d + n
              /\ (d + 1) + Len(writeQ_') + 1 = d + n + 1
            BY <1>2, <2>2, <2>3
        <3>2. Len(wire) = Pieces * (d + 1) + (IF writeQ_' = <<>> THEN 0 ELSE Pieces - left')
            BY <1>2, <2>3, <2>4
        <3>3. \A i \in 1..Len(writeQ_') : writeQ_'[i] = posted[(d + 1) + i]
            <4>1. \A i \in 1..n : writeQ_[i] = posted[d + i]
                BY <1>1 DEF Account
            <4>2. \A i \in 1..(n - 1) : i + 1 \in 1..n /\ d + (i + 1) = (d + 1) + i
                BY <1>2
            <4> QED
                BY <2>2, <2>3, <4>1, <4>2
        <3> QED
            BY <1>1, <1>4, <3>1, <3>2, <3>3 DEF Account
    <2> QED
        BY <1>3, <2>5, NothingSeen DEF Fits, DInv, DeliveryInv
<1> QED
    BY <1>5, <1>6

\* A packet is served; what it answers is posted.
LEMMA PacketFits ==
    ASSUME DInv, running, strand # <<>>, Head(strand).kind = "packet",
           packet(Head(strand).packet, Tail(strand)),
           UNCHANGED <<open, writeQ_, writing, left, wire>>
    PROVE  Fits
<1>1. PICK d \in Nat : Account(d)
    BY DEF DInv, DeliveryInv
<1>2. Tail(strand) \in Seq(Handler)
    BY TakenAt, Types DEF DInv, IInv
<1>3. SendsAre(Tail(strand), posted, d + Len(writeQ_) + 1, Len(posted))
    BY <1>1, TakenAccounted DEF DInv
<1>4. CASE \E parts \in 1..MaxParts : sendMessage(parts, Tail(strand)) /\ UNCHANGED running
    <2>1. /\ Account(d)'
          /\ posted' \in Seq(Frame) /\ FS!IsPrefix(posted, posted')
        BY <1>1, <1>2, <1>3, <1>4, PostAccounted DEF DInv
    <2> QED
        BY <1>4, <2>1, PostSeen DEF Fits, DInv, DeliveryInv
<1>5. CASE strand' = Tail(strand) /\ UNCHANGED sendVars /\ running' \in BOOLEAN
    <2>1. Account(d)'
        BY <1>1, <1>3, <1>5, AccountKept DEF sendVars
    <2>2. DeliveryInv'
        BY <2>1 DEF DInv, DeliveryInv
    <2>3. [FS!Next]_(FS!vars)
        <3>1. CASE running' = running
            BY <1>5, <3>1, NothingSeen DEF sendVars
        <3>2. CASE ~running'
            BY <1>5, <3>2, FailSeen DEF sendVars
        <3>3. running \in BOOLEAN
            BY DEF DInv, IInv, TypeOK
        <3>4. running' = running \/ ~running'
            BY <1>5, <3>3, Zenon
        <3> QED
            BY <3>1, <3>2, <3>4
    <2> QED
        BY <2>2, <2>3 DEF Fits
<1> QED
    BY <1>4, <1>5 DEF packet

LEMMA RunHandlerFits == ASSUME DInv, RunHandler PROVE Fits
<1> DEFINE h == Head(strand)
<1>1. running /\ strand # <<>> /\ UNCHANGED <<wire, arrived>>
    BY DEF RunHandler
<1>2. Tail(strand) \in Seq(Handler)
    BY <1>1, TakenAt, Types DEF DInv, IInv
<1>3. CASE h.kind = "send" /\ push(h.frame) /\ strand' = Tail(strand)
           /\ UNCHANGED <<running, open, sendVars>>
    BY <1>1, <1>3, PushFits DEF sendVars
<1>4. CASE h.kind = "wrote" /\ wrote /\ strand' = Tail(strand)
           /\ UNCHANGED <<running, open, sendVars>>
    BY <1>1, <1>4, WroteFits DEF sendVars
<1>5. CASE h.kind \in {"writeError", "readError"} /\ close /\ strand' = Tail(strand)
           /\ UNCHANGED <<running, sendVars>>
    <2>1. Tail(strand) = Tail(strand) \o <<>>
        BY <1>2, ConcatEmptySeq
    <2>2. <<>> \in Seq(Handler) /\ \A i \in 1..Len(<<>>) : <<>>[i].kind # "send"
        OBVIOUS
    <2>3. h.kind # "send" /\ strand' = Tail(strand) \o <<>>
        BY <1>5, <2>1
    <2>4. /\ open' = FALSE /\ writing' = Aborted(writing)
          /\ UNCHANGED <<running, writeQ_, left, wire, posted>>
        BY <1>1, <1>5 DEF close, sendVars
    <2> QED
        BY <1>1, <2>2, <2>3, <2>4, HandlerElseFits
<1>6. CASE h.kind = "read" /\ read(Tail(strand))
           /\ UNCHANGED <<running, open, writeQ_, writing, left, served, sendVars>>
    <2>1. /\ PacketTasks(read_buffer_) \in Seq(Handler)
          /\ \A i \in 1..Len(PacketTasks(read_buffer_)) : PacketTasks(read_buffer_)[i].kind # "send"
        BY PacketTasksAre DEF DInv, IInv, ReadInv
    <2> QED
        BY <1>1, <1>6, <2>1, HandlerElseFits DEF read, sendVars
<1>7. CASE h.kind = "packet" /\ packet(h.packet, Tail(strand))
           /\ UNCHANGED <<open, writeQ_, writing, left>>
    BY <1>1, <1>7, PacketFits
<1> QED
    BY <1>3, <1>4, <1>5, <1>6, <1>7 DEF RunHandler

\* To the peer a server that stops is a connection that fails.
LEMMA StopFits == ASSUME DInv, Stop PROVE Fits
<1>1. UNCHANGED <<open, strand, writeQ_, writing, left, wire, posted>> /\ ~running'
    BY DEF Stop, writeVars, sendVars
<1>2. DeliveryInv'
    BY <1>1 DEF DInv, DeliveryInv, Account
<1> QED
    BY <1>1, <1>2, FailSeen DEF Fits

LEMMA StepFits == DInv /\ [Next]_vars => Fits
<1> SUFFICES ASSUME DInv, [Next]_vars
             PROVE  Fits
    OBVIOUS
<1>1. CASE UNCHANGED vars
    BY <1>1, NothingSeen DEF Fits, DInv, DeliveryInv, Account, vars, writeVars, sendVars
<1>2. CASE Next
    BY <1>2, KernelWriteFits, CompletesFits, KernelElseFits, SendFits, RunHandlerFits,
       StopFits DEF Next
<1> QED
    BY <1>1, <1>2

LEMMA InitDInv == Init => DInv
<1> SUFFICES ASSUME Init
             PROVE  DInv
    OBVIOUS
<1>1. IInv
    BY InitIInv
<1>2. Len(writeQ_) = 0 /\ Len(posted) = 0 /\ Len(wire) = 0 /\ At(strand, {"send"}) = {}
    BY LenProperties DEF Init, At
<1>3. SendsAre(strand, posted, 1, 0)
    <2>1. [i \in {} |-> 0] \in [At(strand, {"send"}) -> 1..0]
        BY <1>2
    <2>2. Numbers([i \in {} |-> 0], strand, posted, 1, 0)
        BY <1>2, <2>1 DEF Numbers
    <2> QED
        BY <2>1, <2>2 DEF SendsAre
<1>4. Account(0)
    BY <1>2, <1>3, TcpConnectionAssumption DEF Init, Account
<1> QED
    BY <1>1, <1>4 DEF DInv, DeliveryInv, Init

\* The account of the frames is right in every behaviour of the connection.
THEOREM DeliveryInvariance == Spec => []DInv
<1>1. DInv /\ [Next]_vars => DInv'
    BY StepFits, NextIInv DEF Fits, DInv
<1> QED
    BY <1>1, InitDInv, PTL DEF Spec

\* The peer receives what was handed to sendBytes, in order, whole, nothing
\* twice and nothing left out, however sends, packets, completions and failures
\* are interleaved: the connection implements FrameStream.
THEOREM ConnectionDelivers == Spec => DeliversInOrder
<1>1. Init => FS!Init
    BY DEF Init, FS!Init
<1>2. DInv /\ [Next]_vars => [FS!Next]_(FS!vars)
    BY StepFits DEF Fits
<1> QED
    BY <1>1, <1>2, DeliveryInvariance, PTL DEF Spec, DeliversInOrder, FS!Spec

-----------------------------------------------------------------------------
(* Counting what waits on the strand.                                      *)

LEMMA OnesForOnes ==
    ASSUME NEW S, IsFiniteSet(S), NEW lo \in Int, NEW hi \in Int, lo <= hi + 1,
           NEW f \in Bijection(S, lo..hi)
    PROVE  Cardinality(S) = hi - lo + 1
<1>1. Cardinality(lo..hi) = Cardinality(S)
    BY FS_Bijection, Zenon DEF ExistsBijection
<1>2. Cardinality(lo..hi) = IF lo > hi THEN 0 ELSE hi - lo + 1
    BY FS_Interval
<1> QED
    BY <1>1, <1>2

UpTo(s, k) == {j \in At(s, {"send"}) : j <= k}

Counted(num, s, lo) ==
    \A k \in At(s, {"send"}) : num[k] = lo - 1 + Cardinality(UpTo(s, k))

\* The number of a frame on the strand counts the frames up to it.
LEMMA NumbersCount ==
    ASSUME NEW s \in Seq(Handler), NEW q, NEW lo \in Int, NEW hi \in Int, lo <= hi + 1,
           NEW num, Numbers(num, s, q, lo, hi)
    PROVE  /\ Cardinality(At(s, {"send"})) = hi - lo + 1
           /\ Counted(num, s, lo)
<1> DEFINE A == At(s, {"send"})
<1>1. A \subseteq 1..Len(s) /\ Len(s) \in Int
    BY LenProperties DEF At
<1>2. IsFiniteSet(A)
    BY <1>1, FS_Interval, FS_Subset
<1>3. /\ num \in [A -> lo..hi]
      /\ \A i, j \in A : i < j => num[i] < num[j]
      /\ \A k \in lo..hi : \E i \in A : num[i] = k
    BY DEF Numbers
<1> HIDE DEF A
<1>4. \A i, j \in A : num[i] = num[j] => i = j
    <2> SUFFICES ASSUME NEW i \in A, NEW j \in A, num[i] = num[j], i # j
                 PROVE  FALSE
        OBVIOUS
    <2>1. i \in Int /\ j \in Int /\ num[i] \in Int
        BY <1>1, <1>3
    <2>2. i < j \/ j < i
        BY <2>1
    <2> QED
        BY <1>3, <2>1, <2>2
<1>5. Cardinality(A) = hi - lo + 1
    <2>1. num \in Bijection(A, lo..hi)
        BY <1>3, <1>4 DEF Bijection, Injection, Surjection, IsInjective
    <2> QED
        BY <1>2, <2>1, OnesForOnes
<1>6. ASSUME NEW k \in A
      PROVE  num[k] = lo - 1 + Cardinality({j \in A : j <= k})
    <2> DEFINE B == {j \in A : j <= k}
               f == [j \in B |-> num[j]]
    <2>1. num[k] \in lo..hi
        BY <1>3
    <2>2. IsFiniteSet(B)
        BY <1>2, FS_Subset
    <2>3. ASSUME NEW j \in A
          PROVE  j \in B <=> num[j] <= num[k]
        <3>1. j \in Int /\ k \in Int /\ num[j] \in Int /\ num[k] \in Int
            BY <1>1, <1>3
        <3> QED
            BY <1>3, <3>1
    <2>4. f \in [B -> lo..num[k]]
        BY <1>3, <2>1, <2>3
    <2>5. \A i, j \in B : f[i] = f[j] => i = j
        BY <1>4
    <2>6. ASSUME NEW x \in lo..num[k]
          PROVE  \E i \in B : f[i] = x
        <3>1. x \in lo..hi /\ x <= num[k]
            BY <2>1
        <3>2. PICK i \in A : num[i] = x
            BY <1>3, <3>1
        <3> QED
            BY <2>3, <3>1, <3>2
    <2> HIDE DEF B, f
    <2>7. f \in Bijection(B, lo..num[k])
        BY <2>4, <2>5, <2>6 DEF Bijection, Injection, Surjection, IsInjective
    <2>8. num[k] \in Int /\ lo <= num[k] + 1
        BY <2>1
    <2>9. Cardinality(B) = num[k] - lo + 1
        BY <2>2, <2>7, <2>8, OnesForOnes
    <2> QED
        BY <2>8, <2>9 DEF B
<1> QED
    BY <1>5, <1>6 DEF A, UpTo, Counted

LEMMA DInvHolds == DInv => FramesHeld
<1> SUFFICES ASSUME DInv
             PROVE  FramesHeld
    OBVIOUS
<1>1. PICK d \in Nat : Account(d)
    BY DEF DInv, DeliveryInv
<1> DEFINE sends == {k \in DOMAIN strand : strand[k].kind = "send"}
<1>2. /\ Len(writeQ_) \in Nat /\ Len(posted) \in Nat /\ strand \in Seq(Handler)
      /\ left \in 0..Pieces /\ Pieces \in Nat
    BY DTypes, Types, TcpConnectionAssumption DEF DInv, IInv, TypeOK
<1>3. sends = At(strand, {"send"})
    BY <1>2, LenProperties DEF At
<1>4. PICK lo \in Int : lo = d + Len(writeQ_) + 1
    BY <1>2
<1>5. lo <= Len(posted) + 1
    BY <1>1, <1>2, <1>4 DEF Account
<1>6. PICK num : Numbers(num, strand, posted, lo, Len(posted))
    BY <1>1, <1>4 DEF Account, SendsAre
<1>7. /\ Cardinality(sends) = Len(posted) - lo + 1
      /\ \A k \in sends : num[k] = lo - 1 + Cardinality({j \in sends : j <= k})
    <2>1. Len(posted) \in Int
        BY <1>2
    <2>2. /\ Cardinality(At(strand, {"send"})) = Len(posted) - lo + 1
          /\ Counted(num, strand, lo)
        BY <1>2, <1>5, <1>6, <2>1, NumbersCount
    <2> QED
        BY <1>3, <2>2 DEF UpTo, Counted
<1>8. Len(posted) - Len(writeQ_) - Cardinality(sends) = d /\ d >= 0
    BY <1>2, <1>4, <1>7
<1>9. Pieces * d <= Len(wire)
    <2>1. Pieces * d \in Nat
        BY <1>2
    <2> QED
        BY <1>1, <1>2, <2>1 DEF Account
<1>10. \A i \in DOMAIN writeQ_ : writeQ_[i] = posted[d + i]
    BY <1>1, LenProperties, Types DEF Account, DInv, IInv, TypeOK
<1>11. \A k \in sends : strand[k].frame = posted[num[k]]
    BY <1>3, <1>6 DEF Numbers
<1>12. \A k \in sends :
           strand[k].frame = posted[d + Len(writeQ_) + Cardinality({j \in sends : j <= k})]
    <2>1. lo - 1 = d + Len(writeQ_)
        BY <1>2, <1>4
    <2> QED
        BY <1>7, <1>11, <2>1
<1> QED
    BY <1>8, <1>9, <1>10, <1>12, Zenon DEF FramesHeld

\* No frame is dropped: what is not on the wire is in the queue or on the strand
\* of the connection for as long as the process runs, also after close.
THEOREM FramesAlwaysHeld == Spec => []FramesHeld
BY DInvHolds, DeliveryInvariance, PTL

=============================================================================
