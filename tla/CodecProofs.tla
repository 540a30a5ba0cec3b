----------------------------- MODULE CodecProofs -----------------------------
(***************************************************************************)
(* Theorems about Codec, for any bodies, any chunk size, any modulus of    *)
(* the checksum, any damages, and any number of messages, however reads    *)
(* cut the stream.                                                         *)
(*                                                                         *)
(* DecodesWhatWasSent is not inductive: of a message that is under way it  *)
(* says nothing.  The invariant, StreamInv, is about the frames that       *)
(* decode has not handled: what is in the buffer and on the wire is a      *)
(* sequence of frames, and if decode handled them one after the other, the *)
(* output would be what was sent, never more and never in another order on *)
(* the way.  A read moves the cut and leaves the stream; a step of decode  *)
(* takes the first frame off it; the peer puts new frames behind it.  That *)
(* these then do what they must, each message whole, nested in another or  *)
(* damaged, is what the lemmas before it show (Carries, Ends).             *)
(*                                                                         *)
(* Behind dirt, LossInv is the invariant: decode is Lost, has nothing, and *)
(* the stream is a scrap of something and frames behind it; or it is Found *)
(* and StreamInv holds of the messages from some id on.  What a message of *)
(* which the first frames are gone still does, and what the next ones do   *)
(* after it, is what the lemmas on late parts show (Lates, StartsLate).    *)
(***************************************************************************)
EXTENDS CodecData

-----------------------------------------------------------------------------
(* Frames.                                                                 *)

\* What decode finds to be a frame: the header, and as much as it announces.
IsFrame(f) ==
    /\ f \in Seq(Nat) /\ Len(f) >= PROTO_HEADER_SIZE
    /\ SubSeq(f, 1, 2) = PROTO_MAGIC /\ f[3] = VERSION
    /\ Len(f) = PROTO_HEADER_SIZE + f[5]

BodyOf(f) == SubSeq(f, PROTO_HEADER_SIZE + 1, Len(f))

HeaderIs(h, ptype, len, id, flags, seq, total, sum) ==
    /\ h \in Seq(Nat) /\ Len(h) = 10
    /\ h[1] = 91 /\ h[2] = 92 /\ h[3] = 1 /\ h[4] = ptype /\ h[5] = len
    /\ h[6] = flags /\ h[7] = id /\ h[8] = seq /\ h[9] = total /\ h[10] = sum

\* The ten cells of a header.
LEMMA HeaderCells ==
    ASSUME NEW ptype \in Nat, NEW len \in Nat, NEW id \in Nat, NEW flags \in Nat,
           NEW seq \in Nat, NEW total \in Nat, NEW sum \in Nat
    PROVE  HeaderIs(createProtoHeader(ptype, len, id, flags, seq, total, sum),
                    ptype, len, id, flags, seq, total, sum)
BY DEF HeaderIs, createProtoHeader, PROTO_MAGIC, VERSION

\* A sequence of two cells.
LEMMA PairOfCells ==
    ASSUME NEW s \in Seq(Nat), Len(s) = 2
    PROVE  s = <<s[1], s[2]>>
OBVIOUS

\* The cells of a frame.
Cells(f, ptype, id, flags, seq, total, sum, piece) ==
    /\ IsFrame(f) /\ Len(f) = 10 + Len(piece) /\ BodyOf(f) = piece
    /\ f[4] = ptype /\ f[5] = Len(piece) /\ f[6] = flags /\ f[7] = id
    /\ f[8] = seq /\ f[9] = total /\ f[10] = sum

\* A header and a body make a frame with these fields.
LEMMA FrameCells ==
    ASSUME NEW ptype \in Nat, NEW id \in Nat, NEW flags \in Nat,
           NEW seq \in Nat, NEW total \in Nat, NEW sum \in Nat, NEW piece \in Seq(Nat)
    PROVE  Cells(createProtoHeader(ptype, Len(piece), id, flags, seq, total, sum) \o piece,
                 ptype, id, flags, seq, total, sum, piece)
<1>1. PICK len \in Nat : len = Len(piece)
    BY LenProperties
<1>2. PICK h : h = createProtoHeader(ptype, len, id, flags, seq, total, sum)
    OBVIOUS
<1>3. /\ h \in Seq(Nat) /\ Len(h) = 10
      /\ h[1] = 91 /\ h[2] = 92 /\ h[3] = 1 /\ h[4] = ptype /\ h[5] = len
      /\ h[6] = flags /\ h[7] = id /\ h[8] = seq /\ h[9] = total /\ h[10] = sum
    <2>1. HeaderIs(h, ptype, len, id, flags, seq, total, sum)
        BY <1>2, HeaderCells
    <2> QED
        BY <2>1, Zenon DEF HeaderIs
<1>4. PICK f \in Seq(Nat) : f = h \o piece
    BY <1>3, ConcatProperties
<1>5. /\ Len(f) = 10 + len
      /\ \A i \in 1..(10 + len) : f[i] = IF i <= 10 THEN h[i] ELSE piece[i - 10]
    <2>1. /\ Len(h \o piece) = Len(h) + Len(piece)
          /\ \A i \in 1..(Len(h) + Len(piece)) :
                (h \o piece)[i] = IF i <= Len(h) THEN h[i] ELSE piece[i - Len(h)]
        <3>1. h \in Seq(Nat)
            BY <1>3
        <3> QED
            BY <3>1, ConcatProperties
    <2>2. Len(h) = 10
        BY <1>3
    <2> QED
        BY <1>1, <1>4, <2>1, <2>2
<1>6. /\ f[1] = 91 /\ f[2] = 92 /\ f[3] = 1 /\ f[4] = ptype /\ f[5] = len
      /\ f[6] = flags /\ f[7] = id /\ f[8] = seq /\ f[9] = total /\ f[10] = sum
    BY <1>3, <1>5
<1>7. SubSeq(f, 1, 2) = <<91, 92>>
    <2>1. /\ SubSeq(f, 1, 2) \in Seq(Nat) /\ Len(SubSeq(f, 1, 2)) = 2
          /\ SubSeq(f, 1, 2)[1] = f[1] /\ SubSeq(f, 1, 2)[2] = f[2]
        BY <1>5
    <2>2. f[1] = 91 /\ f[2] = 92
        BY <1>6
    <2>3. SubSeq(f, 1, 2) = <<SubSeq(f, 1, 2)[1], SubSeq(f, 1, 2)[2]>>
        BY <2>1, PairOfCells
    <2> QED
        BY <2>1, <2>2, <2>3, Zenon
<1>8. SubSeq(f, 11, 10 + len) = piece
    <2>1. /\ SubSeq(f, 11, 10 + len) \in Seq(Nat) /\ Len(SubSeq(f, 11, 10 + len)) = len
          /\ \A i \in 1..len : SubSeq(f, 11, 10 + len)[i] = f[10 + i]
        BY <1>5
    <2>2. \A i \in 1..len : f[10 + i] = piece[i]
        BY <1>5
    <2> QED
        BY <1>1, <2>1, <2>2, SeqEqual
<1>9. IsFrame(f)
    BY <1>5, <1>6, <1>7 DEF IsFrame, PROTO_MAGIC, PROTO_HEADER_SIZE, VERSION
<1>10. BodyOf(f) = piece
    BY <1>5, <1>8 DEF BodyOf, PROTO_HEADER_SIZE
<1>11. Cells(f, ptype, id, flags, seq, total, sum, piece)
    BY <1>1, <1>5, <1>6, <1>9, <1>10, Zenon DEF Cells
<1> QED
    BY <1>1, <1>2, <1>4, <1>11, Zenon

\* The first two cells of what is longer than a header.
LEMMA FrontCells ==
    ASSUME NEW f \in Seq(Nat), NEW n \in Nat, Len(f) = 10 + n
    PROVE  SubSeq(f, 1, 2) = <<f[1], f[2]>>
<1>1. /\ SubSeq(f, 1, 2) \in Seq(Nat) /\ Len(SubSeq(f, 1, 2)) = 2
      /\ SubSeq(f, 1, 2)[1] = f[1] /\ SubSeq(f, 1, 2)[2] = f[2]
    OBVIOUS
<1>2. SubSeq(f, 1, 2) = <<SubSeq(f, 1, 2)[1], SubSeq(f, 1, 2)[2]>>
    BY <1>1, PairOfCells
<1> QED
    BY <1>1, <1>2, Zenon

\* The cells of the body of a frame.
LEMMA BodyCells ==
    ASSUME NEW f \in Seq(Nat), NEW n \in Nat, Len(f) = 10 + n
    PROVE  /\ BodyOf(f) \in Seq(Nat) /\ Len(BodyOf(f)) = n
           /\ \A i \in 1..n : BodyOf(f)[i] = f[10 + i]
<1>1. /\ SubSeq(f, 11, 10 + n) \in Seq(Nat) /\ Len(SubSeq(f, 11, 10 + n)) = n
      /\ \A i \in 1..n : SubSeq(f, 11, 10 + n)[i] = f[10 + i]
    OBVIOUS
<1>2. BodyOf(f) = SubSeq(f, 11, 10 + n)
    BY DEF BodyOf, PROTO_HEADER_SIZE
<1> QED
    BY <1>1, <1>2, Zenon

\* The length of a frame is in its header.
LEMMA FrameLen ==
    ASSUME NEW f, IsFrame(f)
    PROVE  /\ f \in Seq(Nat) /\ f[5] \in Nat /\ Len(f) = 10 + f[5]
           /\ SubSeq(f, 1, 2) = PROTO_MAGIC /\ f[3] = VERSION
<1>1. f \in Seq(Nat) /\ Len(f) >= 10 /\ Len(f) \in Nat
    BY LenProperties DEF IsFrame, PROTO_HEADER_SIZE
<1>2. 5 \in 1..Len(f)
    BY <1>1
<1>3. f[5] \in Nat
    BY <1>1, <1>2, ElementOfSeq
<1> QED
    BY <1>1, <1>3 DEF IsFrame, PROTO_HEADER_SIZE

\* g differs from the frame f in the cell p, behind what tells that it is one.
Differs(f, g, p) ==
    /\ g \in Seq(Nat) /\ Len(g) = Len(f)
    /\ \A i \in 1..Len(f) : i # p => g[i] = f[i]

\* A frame with a field behind the length changed is still a frame.
LEMMA FramesAgree ==
    ASSUME NEW f, NEW g, IsFrame(f), NEW p \in Nat, p > 5, Differs(f, g, p)
    PROVE  IsFrame(g)
<1>1. PICK n \in Nat : n = f[5] /\ Len(f) = 10 + n /\ f \in Seq(Nat)
    BY FrameLen
<1>2. g \in Seq(Nat) /\ Len(g) = 10 + n
    BY <1>1 DEF Differs
<1>3. g[1] = f[1] /\ g[2] = f[2] /\ g[3] = f[3] /\ g[5] = f[5]
    <2>1. \A i \in 1..5 : i \in 1..Len(f) /\ i # p
        BY <1>1
    <2>2. \A i \in 1..5 : g[i] = f[i]
        BY <2>1, Zenon DEF Differs
    <2> QED
        BY <2>2
<1>4. SubSeq(f, 1, 2) = <<f[1], f[2]>> /\ SubSeq(g, 1, 2) = <<g[1], g[2]>>
    BY <1>1, <1>2, FrontCells
<1>5. SubSeq(g, 1, 2) = SubSeq(f, 1, 2)
    BY <1>3, <1>4, Zenon
<1>6. SubSeq(f, 1, 2) = PROTO_MAGIC /\ f[3] = VERSION
    BY FrameLen
<1>7. Len(g) >= 10 /\ Len(g) = 10 + g[5]
    BY <1>1, <1>2, <1>3
<1> QED
    BY <1>2, <1>3, <1>5, <1>6, <1>7 DEF IsFrame, PROTO_HEADER_SIZE

\* A change to the header leaves the body.
LEMMA BodiesAgree ==
    ASSUME NEW f, NEW g, IsFrame(f), NEW p \in Nat, p <= 10, Differs(f, g, p)
    PROVE  BodyOf(g) = BodyOf(f)
<1>1. PICK n \in Nat : n = f[5] /\ Len(f) = 10 + n /\ f \in Seq(Nat)
    BY FrameLen
<1>2. g \in Seq(Nat) /\ Len(g) = 10 + n
    BY <1>1 DEF Differs
<1>3. /\ BodyOf(f) \in Seq(Nat) /\ Len(BodyOf(f)) = n
      /\ \A i \in 1..n : BodyOf(f)[i] = f[10 + i]
    BY <1>1, BodyCells
<1>4. /\ BodyOf(g) \in Seq(Nat) /\ Len(BodyOf(g)) = n
      /\ \A i \in 1..n : BodyOf(g)[i] = g[10 + i]
    BY <1>2, BodyCells
<1>5. ASSUME NEW i \in 1..n
      PROVE  BodyOf(g)[i] = BodyOf(f)[i]
    <2>1. 10 + i \in 1..Len(f) /\ 10 + i # p
        BY <1>1
    <2>2. g[10 + i] = f[10 + i]
        BY <2>1, Zenon DEF Differs
    <2> QED
        BY <1>3, <1>4, <2>2, Zenon
<1> QED
    BY <1>3, <1>4, <1>5, SeqEqual

\* A cell of the header, other than those that IsFrame looks at, changes.
HeaderDiffers(f, g, p, v) ==
    /\ IsFrame(g) /\ BodyOf(g) = BodyOf(f) /\ Len(g) = Len(f)
    /\ \A i \in 1..10 : g[i] = IF i = p THEN v ELSE f[i]

\* A change to the header leaves its other fields.
LEMMA OtherHeader ==
    ASSUME NEW f, IsFrame(f), NEW p \in 6..10, NEW v \in Nat
    PROVE  HeaderDiffers(f, [f EXCEPT ![p] = v], p, v)
<1>1. PICK n \in Nat : n = f[5] /\ Len(f) = 10 + n /\ f \in Seq(Nat)
    BY FrameLen
<1>2. PICK g : g = [f EXCEPT ![p] = v]
    OBVIOUS
<1>3. p \in 1..Len(f) /\ p \in Nat /\ p > 5 /\ p <= 10
    BY <1>1
<1>4. g \in Seq(Nat) /\ Len(g) = Len(f) /\ \A i \in 1..Len(f) : g[i] = IF i = p THEN v ELSE f[i]
    BY <1>1, <1>2, <1>3, ExceptSeq
<1>5. Differs(f, g, p)
    BY <1>4 DEF Differs
<1>6. IsFrame(g) /\ BodyOf(g) = BodyOf(f)
    BY <1>3, <1>5, FramesAgree, BodiesAgree
<1>7. \A i \in 1..10 : g[i] = IF i = p THEN v ELSE f[i]
    BY <1>1, <1>4
<1> QED
    BY <1>2, <1>4, <1>6, <1>7, Zenon DEF HeaderDiffers

\* The frames that a damage makes.
LEMMA OtherSum ==
    ASSUME NEW ptype, NEW id, NEW flags, NEW seq, NEW total, NEW sum \in Nat, NEW piece, NEW f,
           Cells(f, ptype, id, flags, seq, total, sum, piece)
    PROVE  Cells([f EXCEPT ![10] = @ + 1], ptype, id, flags, seq, total, sum + 1, piece)
<1>1. IsFrame(f) /\ f[10] + 1 = sum + 1 /\ sum + 1 \in Nat
    BY DEF Cells
<1>2. PICK g : g = [f EXCEPT ![10] = sum + 1]
    OBVIOUS
<1>3. 10 \in 6..10
    OBVIOUS
<1>4. IsFrame(g) /\ BodyOf(g) = BodyOf(f) /\ Len(g) = Len(f) /\
      \A i \in 1..10 : g[i] = IF i = 10 THEN sum + 1 ELSE f[i]
    <2>1. HeaderDiffers(f, g, 10, sum + 1)
        BY <1>1, <1>2, <1>3, OtherHeader
    <2> QED
        BY <2>1 DEF HeaderDiffers
<1>5. g[4] = f[4] /\ g[5] = f[5] /\ g[6] = f[6] /\ g[7] = f[7] /\ g[8] = f[8] /\
      g[9] = f[9] /\ g[10] = sum + 1
    BY <1>4
<1>6. Cells(g, ptype, id, flags, seq, total, sum + 1, piece)
    BY <1>4, <1>5, Zenon DEF Cells
<1>7. g = [f EXCEPT ![10] = @ + 1]
    BY <1>1, <1>2
<1> QED
    BY <1>6, <1>7, Zenon

\* A frame sent with another seq has all else as it was.
LEMMA OtherSeq ==
    ASSUME NEW ptype, NEW id, NEW flags, NEW seq, NEW total \in Nat, NEW sum, NEW piece, NEW f,
           Cells(f, ptype, id, flags, seq, total, sum, piece)
    PROVE  Cells([f EXCEPT ![8] = f[9]], ptype, id, flags, total, total, sum, piece)
<1>1. IsFrame(f) /\ f[9] = total
    BY DEF Cells
<1>2. PICK g : g = [f EXCEPT ![8] = total]
    OBVIOUS
<1>3. 8 \in 6..10
    OBVIOUS
<1>4. IsFrame(g) /\ BodyOf(g) = BodyOf(f) /\ Len(g) = Len(f) /\
      \A i \in 1..10 : g[i] = IF i = 8 THEN total ELSE f[i]
    <2>1. HeaderDiffers(f, g, 8, total)
        BY <1>1, <1>2, <1>3, OtherHeader
    <2> QED
        BY <2>1 DEF HeaderDiffers
<1>5. g[4] = f[4] /\ g[5] = f[5] /\ g[6] = f[6] /\ g[7] = f[7] /\ g[8] = total /\
      g[9] = f[9] /\ g[10] = f[10]
    BY <1>4
<1>6. Cells(g, ptype, id, flags, total, total, sum, piece)
    BY <1>4, <1>5, Zenon DEF Cells
<1> QED
    BY <1>1, <1>2, <1>6, Zenon

\* A frame sent with another cell in its body has the header it had.
LEMMA OtherPayload ==
    ASSUME NEW ptype, NEW id, NEW flags, NEW seq, NEW total, NEW sum, NEW f,
           NEW piece \in Seq(Nat), piece # <<>>,
           Cells(f, ptype, id, flags, seq, total, sum, piece)
    PROVE  Cells([f EXCEPT ![11] = @ + 1], ptype, id, flags, seq, total, sum, OneMore(piece, 1))
<1>1. PICK n \in Nat \ {0} : n = Len(piece)
    BY EmptySeq
<1>2. IsFrame(f) /\ f \in Seq(Nat) /\ Len(f) = 10 + n
    BY <1>1 DEF Cells, IsFrame
<1>3. 11 \in 1..Len(f) /\ 11 \in Nat /\ 11 > 5 /\ 1 \in 1..Len(piece)
    BY <1>1, <1>2
<1>4. PICK g : g = OneMore(f, 11)
    OBVIOUS
<1>5. /\ g \in Seq(Nat) /\ Len(g) = Len(f) /\ g[11] = f[11] + 1
      /\ \A i \in 1..Len(f) : i # 11 => g[i] = f[i]
    BY <1>2, <1>3, <1>4, OneMoreType
<1>6. IsFrame(g)
    <2>1. Differs(f, g, 11)
        BY <1>5 DEF Differs
    <2> QED
        BY <1>2, <1>3, <2>1, FramesAgree
<1>7. /\ OneMore(piece, 1) \in Seq(Nat) /\ Len(OneMore(piece, 1)) = n
      /\ OneMore(piece, 1)[1] = piece[1] + 1
      /\ \A k \in 1..n : k # 1 => OneMore(piece, 1)[k] = piece[k]
    BY <1>1, <1>3, OneMoreType
<1>8. BodyOf(f) = piece
    BY DEF Cells
<1>9. /\ \A i \in 1..n : piece[i] = f[10 + i]
      /\ BodyOf(g) \in Seq(Nat) /\ Len(BodyOf(g)) = n
      /\ \A i \in 1..n : BodyOf(g)[i] = g[10 + i]
    <2>1. Len(g) = 10 + n
        BY <1>2, <1>5
    <2>2. \A i \in 1..n : BodyOf(f)[i] = f[10 + i]
        BY <1>2, BodyCells
    <2>3. /\ BodyOf(g) \in Seq(Nat) /\ Len(BodyOf(g)) = n
          /\ \A i \in 1..n : BodyOf(g)[i] = g[10 + i]
        BY <1>5, <2>1, BodyCells
    <2> QED
        BY <1>8, <2>2, <2>3, Zenon
<1>10. ASSUME NEW i \in 1..n
       PROVE  BodyOf(g)[i] = OneMore(piece, 1)[i]
    <2>1. piece[i] = f[10 + i] /\ BodyOf(g)[i] = g[10 + i]
        BY <1>9
    <2>2. CASE i = 1
        <3>1. 10 + i = 11
            BY <2>2
        <3>2. g[10 + i] = f[10 + i] + 1
            BY <1>5, <3>1, Zenon
        <3> QED
            BY <1>7, <2>1, <2>2, <3>2, Zenon
    <2>3. CASE i # 1
        <3>1. 10 + i \in 1..Len(f) /\ 10 + i # 11
            BY <1>2, <2>3
        <3>2. g[10 + i] = f[10 + i]
            BY <1>5, <3>1, Zenon
        <3> QED
            BY <1>7, <2>1, <2>3, <3>2, Zenon
    <2> QED
        BY <2>2, <2>3
<1>11. BodyOf(g) = OneMore(piece, 1)
    <2>1. PICK a \in Seq(Nat) : a = BodyOf(g)
        BY <1>9
    <2>2. PICK b \in Seq(Nat) : b = OneMore(piece, 1)
        BY <1>7
    <2>3. Len(a) = n /\ Len(b) = n /\ \A i \in 1..n : a[i] = b[i]
        BY <1>7, <1>9, <1>10, <2>1, <2>2, Zenon
    <2>4. a = b
        BY <2>3, SeqEqual
    <2> QED
        BY <2>1, <2>2, <2>4
<1>12. g[4] = f[4] /\ g[5] = f[5] /\ g[6] = f[6] /\ g[7] = f[7] /\ g[8] = f[8] /\
       g[9] = f[9] /\ g[10] = f[10]
    <2>1. \A i \in 4..10 : i \in 1..Len(f) /\ i # 11
        BY <1>2
    <2>2. \A i \in 4..10 : g[i] = f[i]
        BY <1>5, <2>1, Zenon
    <2> QED
        BY <2>2
<1>13. Cells(g, ptype, id, flags, seq, total, sum, OneMore(piece, 1))
    BY <1>1, <1>5, <1>6, <1>7, <1>11, <1>12, Zenon DEF Cells
<1> QED
    BY <1>4, <1>13, Zenon DEF OneMore

-----------------------------------------------------------------------------
(* What a frame does to the cache and to the output.                       *)

With(cache, id, parts) ==
    [i \in DOMAIN cache \cup {id} |-> IF i = id THEN parts ELSE cache[i]]

Without(cache, id) == [i \in DOMAIN cache \ {id} |-> cache[i]]

IsCache(cache) == cache = [i \in DOMAIN cache |-> cache[i]]

\* The cache with the parts of one more message.
LEMMA WithIs ==
    ASSUME NEW cache, NEW id, NEW parts
    PROVE  /\ DOMAIN With(cache, id, parts) = DOMAIN cache \cup {id}
           /\ With(cache, id, parts)[id] = parts
           /\ \A i \in DOMAIN cache : i # id => With(cache, id, parts)[i] = cache[i]
           /\ IsCache(With(cache, id, parts))
BY DEF With, IsCache

\* To forget a message that is not in the cache changes nothing.
LEMMA WithoutFresh ==
    ASSUME NEW cache, NEW id, IsCache(cache), id \notin DOMAIN cache
    PROVE  Without(cache, id) = cache
<1>1. DOMAIN cache \ {id} = DOMAIN cache
    OBVIOUS
<1>2. Without(cache, id) = [i \in DOMAIN cache |-> cache[i]]
    BY <1>1 DEF Without
<1> QED
    BY <1>2 DEF IsCache

\* To forget a message that had come new gives the cache back.
LEMMA WithoutWith ==
    ASSUME NEW cache, NEW id, NEW parts, IsCache(cache), id \notin DOMAIN cache
    PROVE  Without(With(cache, id, parts), id) = cache
<1>1. DOMAIN With(cache, id, parts) \ {id} = DOMAIN cache
    BY DEF With
<1>2. \A i \in DOMAIN cache : With(cache, id, parts)[i] = cache[i]
    BY DEF With
<1>3. Without(With(cache, id, parts), id) = [i \in DOMAIN cache |-> With(cache, id, parts)[i]]
    BY <1>1 DEF Without
<1>4. Without(With(cache, id, parts), id) = [i \in DOMAIN cache |-> cache[i]]
    BY <1>2, <1>3
<1> QED
    BY <1>4 DEF IsCache

\* The parts of a message replace those kept before.
LEMMA WithWith ==
    ASSUME NEW cache, NEW id, NEW parts, NEW others
    PROVE  With(With(cache, id, parts), id, others) = With(cache, id, others)
BY DEF With

PartsIn(cache, id, total) ==
    IF id \in DOMAIN cache THEN cache[id] ELSE [k \in 1..total |-> <<>>]

Packet(id, ptype, body) == [msgId |-> id, ptype |-> ptype, body |-> body]

AfterWhole(s, id, ptype, sum, body) ==
    [cache |-> s.cache,
     out |-> IF adler32(body) = sum THEN Append(s.out, Packet(id, ptype, body)) ELSE s.out]

Forgotten(s, id) == [cache |-> Without(s.cache, id), out |-> s.out]
Kept(s, id, parts) == [cache |-> With(s.cache, id, parts), out |-> s.out]
Delivered(s, packet) == [cache |-> s.cache, out |-> Append(s.out, packet)]
Complete(s, id, ptype, body) ==
    [cache |-> Without(s.cache, id), out |-> Append(s.out, Packet(id, ptype, body))]

AfterLast(s, id, ptype, parts, sum) ==
    IF \E k \in DOMAIN parts : parts[k] = <<>> THEN Forgotten(s, id)
    ELSE IF adler32(FlattenSeq(parts)) = sum THEN Complete(s, id, ptype, FlattenSeq(parts))
    ELSE Kept(s, id, parts)

AfterMiddle(s, id, parts, sum, body) ==
    IF adler32(body) = sum THEN Kept(s, id, parts) ELSE Forgotten(s, id)

AfterPart(s, id, ptype, seq, total, flags, sum, body) ==
    LET parts == PartsIn(s.cache, id, total)
        placed == [parts EXCEPT ![seq + 1] = body]
    IN IF seq >= Len(parts) THEN Forgotten(s, id)
       ELSE IF ENDPART(flags) THEN AfterLast(s, id, ptype, placed, sum)
       ELSE AfterMiddle(s, id, placed, sum, body)

\* The cache and the output that decode has when it is done with the frame f.
After(s, f) ==
    IF f[4] = HEARTBEAT THEN s
    ELSE IF FRAGMENTED(f[6])
    THEN AfterPart(s, f[7], f[4], f[8], f[9], f[6], f[10], BodyOf(f))
    ELSE AfterWhole(s, f[7], f[4], f[10], BodyOf(f))

\* A heartbeat changes neither the cache nor the output.
LEMMA AfterHeartbeat ==
    ASSUME NEW s, NEW f, NEW id, NEW flags, NEW seq, NEW total, NEW sum, NEW piece,
           Cells(f, HEARTBEAT, id, flags, seq, total, sum, piece)
    PROVE  After(s, f) = s
BY DEF Cells, After

\* A frame that is not a fragment.
LEMMA AfterWholeFrame ==
    ASSUME NEW s, NEW f, NEW id, NEW seq, NEW total, NEW sum, NEW piece,
           Cells(f, CHATMSG, id, 2, seq, total, sum, piece)
    PROVE  After(s, f) = AfterWhole(s, id, CHATMSG, sum, piece)
<1>1. CHATMSG # HEARTBEAT /\ ~FRAGMENTED(2)
    BY DEF CHATMSG, HEARTBEAT, FRAGMENTED
<1> QED
    BY <1>1, Zenon DEF Cells, After

\* A fragment that is not the last.
LEMMA AfterMiddleFrame ==
    ASSUME NEW s, NEW f, NEW id, NEW seq, NEW total, NEW sum, NEW piece,
           Cells(f, CHATMSG, id, 3, seq, total, sum, piece)
    PROVE  After(s, f) = AfterPart(s, id, CHATMSG, seq, total, 3, sum, piece)
<1>1. CHATMSG # HEARTBEAT /\ FRAGMENTED(3)
    BY DEF CHATMSG, HEARTBEAT, FRAGMENTED
<1> QED
    BY <1>1, Zenon DEF Cells, After

\* A fragment that is the last.
LEMMA AfterLastFrame ==
    ASSUME NEW s, NEW f, NEW id, NEW seq, NEW total, NEW sum, NEW piece,
           Cells(f, CHATMSG, id, 7, seq, total, sum, piece)
    PROVE  After(s, f) = AfterPart(s, id, CHATMSG, seq, total, 7, sum, piece)
<1>1. CHATMSG # HEARTBEAT /\ FRAGMENTED(7)
    BY DEF CHATMSG, HEARTBEAT, FRAGMENTED
<1> QED
    BY <1>1, Zenon DEF Cells, After

-----------------------------------------------------------------------------
(* The parts of one message come.                                          *)

\* The parts whose numbers are in S.
Placed(body, S) ==
    [k \in 1..totalParts(body) |-> IF k \in S THEN AllPieces(body)[k] ELSE <<>>]

\* s with those parts of the message id.
Holding(s, id, body, S) == IF S = {} THEN s ELSE Kept(s, id, Placed(body, S))

\* Nothing is known of the message id.
Fresh(s, id) ==
    /\ IsCache(s.cache) /\ id \notin DOMAIN s.cache
    /\ s = [cache |-> s.cache, out |-> s.out]

\* The parts of a message that is not in the cache, before and after some came.
LEMMA HoldingIs ==
    ASSUME NEW s, NEW id, Fresh(s, id), NEW body \in Seq(Nat), body # <<>>, NEW S
    PROVE  /\ Holding(s, id, body, S).out = s.out
           /\ PartsIn(Holding(s, id, body, S).cache, id, totalParts(body)) = Placed(body, S)
           /\ Forgotten(Holding(s, id, body, S), id) = s
           /\ \A parts : Kept(Holding(s, id, body, S), id, parts) = Kept(s, id, parts)
<1>1. CASE S = {}
    <2>1. Holding(s, id, body, S) = s
        BY <1>1 DEF Holding
    <2>2. PartsIn(s.cache, id, totalParts(body)) = [k \in 1..totalParts(body) |-> <<>>]
        BY DEF PartsIn, Fresh
    <2>3. Placed(body, S) = [k \in 1..totalParts(body) |-> <<>>]
        BY <1>1 DEF Placed
    <2>4. Without(s.cache, id) = s.cache
        BY WithoutFresh DEF Fresh
    <2>5. Forgotten(s, id) = s
        BY <2>4, Zenon DEF Forgotten, Fresh
    <2> QED
        BY <2>1, <2>2, <2>3, <2>5, Zenon
<1>2. CASE S # {}
    <2>1. Holding(s, id, body, S) = [cache |-> With(s.cache, id, Placed(body, S)), out |-> s.out]
        BY <1>2 DEF Holding, Kept
    <2>2. Holding(s, id, body, S).out = s.out /\
          Holding(s, id, body, S).cache = With(s.cache, id, Placed(body, S))
        BY <2>1
    <2>3. PartsIn(With(s.cache, id, Placed(body, S)), id, totalParts(body)) = Placed(body, S)
        BY DEF PartsIn, With
    <2>4. Without(With(s.cache, id, Placed(body, S)), id) = s.cache
        BY WithoutWith DEF Fresh
    <2>5. Forgotten(Holding(s, id, body, S), id) = s
        BY <2>2, <2>4, Zenon DEF Forgotten, Fresh
    <2>6. ASSUME NEW parts
          PROVE  Kept(Holding(s, id, body, S), id, parts) = Kept(s, id, parts)
        <3>1. With(With(s.cache, id, Placed(body, S)), id, parts) = With(s.cache, id, parts)
            BY WithWith
        <3> QED
            BY <2>2, <3>1, Zenon DEF Kept
    <2> QED
        BY <2>2, <2>3, <2>5, <2>6, Zenon
<1> QED
    BY <1>1, <1>2

\* A function over 1..n is a sequence.
LEMMA FunctionIsSeq ==
    ASSUME NEW D, NEW n \in Nat, NEW f \in [1..n -> D]
    PROVE  f \in Seq(D) /\ Len(f) = n
BY SeqDef

\* The parts that have come are in their places, the others are empty.
LEMMA PlacedIs ==
    ASSUME NEW body \in Seq(Nat), body # <<>>, NEW S,
           NEW n \in Nat, n = totalParts(body)
    PROVE  /\ Placed(body, S) \in Seq(Seq(Nat)) /\ Len(Placed(body, S)) = n
           /\ \A k \in 1..n : Placed(body, S)[k] = IF k \in S THEN AllPieces(body)[k] ELSE <<>>
           /\ DOMAIN Placed(body, S) = 1..n
<1>1. \A k \in 1..n : AllPieces(body)[k] \in Seq(Nat)
    BY AllPiecesType, ElementOfSeq
<1>2. Placed(body, S) = [k \in 1..n |-> IF k \in S THEN AllPieces(body)[k] ELSE <<>>]
    BY DEF Placed
<1>3. Placed(body, S) \in [1..n -> Seq(Nat)]
    BY <1>1, <1>2
<1>4. Placed(body, S) \in Seq(Seq(Nat)) /\ Len(Placed(body, S)) = n
    BY <1>3, FunctionIsSeq
<1> QED
    BY <1>2, <1>4

Put(parts, k, piece) == [parts EXCEPT ![k] = piece]

\* 3 are the flags of a middle part, 7 those of the last.
LEMMA EndFlags == ~ENDPART(3) /\ ENDPART(7)
BY DEF ENDPART

\* One more part in its place.
LEMMA PlacedMore ==
    ASSUME NEW body \in Seq(Nat), body # <<>>, NEW S,
           NEW n \in Nat, n = totalParts(body), NEW k \in 1..n
    PROVE  Put(Placed(body, S), k, AllPieces(body)[k]) = Placed(body, S \cup {k})
BY DEF Placed, Put

\* With all parts in their places, they are the pieces.
LEMMA PlacedAll ==
    ASSUME NEW body \in Seq(Nat), body # <<>>,
           NEW n \in Nat, n = totalParts(body)
    PROVE  Placed(body, 1..n) = AllPieces(body)
BY DEF Placed, AllPieces

\* A part that is in order is kept with the others.
LEMMA MiddleArrives ==
    ASSUME NEW s, NEW id, Fresh(s, id), NEW body \in Seq(Nat), body # <<>>, NEW S,
           NEW n \in Nat, n = totalParts(body), NEW k \in 1..n, NEW piece,
           piece = AllPieces(body)[k],
           NEW ptype
    PROVE  AfterPart(Holding(s, id, body, S), id, ptype, k - 1, n, 3, adler32(piece), piece) =
               Holding(s, id, body, S \cup {k})
<1> DEFINE h == Holding(s, id, body, S)
<1>1. PartsIn(h.cache, id, n) = Placed(body, S)
    BY HoldingIs
<1>2. ~(k - 1 >= Len(Placed(body, S))) /\ (k - 1) + 1 = k
    <2>1. Len(Placed(body, S)) = n
        BY PlacedIs
    <2> QED
        BY <2>1
<1>3. [Placed(body, S) EXCEPT ![k] = piece] = Placed(body, S \cup {k})
    <2>1. Put(Placed(body, S), k, AllPieces(body)[k]) = Placed(body, S \cup {k})
        BY PlacedMore
    <2> QED
        BY <2>1, Zenon DEF Put
<1>4. AfterPart(h, id, ptype, k - 1, n, 3, adler32(piece), piece) =
          Kept(h, id, Placed(body, S \cup {k}))
    BY <1>1, <1>2, <1>3, EndFlags, Zenon DEF AfterPart, AfterMiddle
<1>5. Kept(h, id, Placed(body, S \cup {k})) = Kept(s, id, Placed(body, S \cup {k}))
    BY HoldingIs
<1> HIDE DEF h
<1>6. S \cup {k} # {}
    OBVIOUS
<1> QED
    BY <1>4, <1>5, <1>6, Zenon DEF Holding, h

\* One with another checksum, or out of range, makes decode forget the message.
LEMMA MiddleRefused ==
    ASSUME NEW s, NEW id, Fresh(s, id), NEW body \in Seq(Nat), body # <<>>, NEW S,
           NEW n \in Nat, n = totalParts(body), NEW seq \in Nat, NEW piece, NEW sum, NEW ptype,
           seq >= n \/ adler32(piece) # sum
    PROVE  AfterPart(Holding(s, id, body, S), id, ptype, seq, n, 3, sum, piece) = s
<1> DEFINE h == Holding(s, id, body, S)
<1>1. PartsIn(h.cache, id, n) = Placed(body, S) /\ Forgotten(h, id) = s
    BY HoldingIs
<1>2. Len(Placed(body, S)) = n
    BY PlacedIs
<1> QED
    BY <1>1, <1>2, EndFlags, Zenon DEF AfterPart, AfterMiddle

\* The last part: all is there, and the body goes out.
LEMMA LastArrives ==
    ASSUME NEW s, NEW id, Fresh(s, id), NEW body \in Seq(Nat), body # <<>>,
           NEW n \in Nat, n = totalParts(body), NEW ptype
    PROVE  AfterPart(Holding(s, id, body, 1..(n - 1)), id, ptype, n - 1, n, 7,
                     adler32(body), AllPieces(body)[n]) =
               Delivered(s, Packet(id, ptype, body))
<1>0. n \in 1..n /\ (n - 1) + 1 = n /\ 1..(n - 1) \cup {n} = 1..n
    BY TotalParts
<1> DEFINE S == 1..(n - 1)
           h == Holding(s, id, body, S)
<1>1. PartsIn(h.cache, id, n) = Placed(body, S) /\ h.out = s.out /\ Forgotten(h, id) = s
    BY HoldingIs
<1>2. ~(n - 1 >= Len(Placed(body, S)))
    <2>1. Len(Placed(body, S)) = n
        BY PlacedIs
    <2> QED
        BY <2>1
<1>3. [Placed(body, S) EXCEPT ![n] = AllPieces(body)[n]] = AllPieces(body)
    <2>1. Put(Placed(body, S), n, AllPieces(body)[n]) = Placed(body, S \cup {n})
        BY <1>0, PlacedMore
    <2>2. Placed(body, 1..n) = AllPieces(body)
        BY PlacedAll
    <2> QED
        BY <1>0, <2>1, <2>2, Zenon DEF Put
<1>4. ~ \E k \in DOMAIN AllPieces(body) : AllPieces(body)[k] = <<>>
    <2>1. /\ AllPieces(body) \in Seq(Seq(Nat))
          /\ \A k \in 1..Len(AllPieces(body)) : AllPieces(body)[k] # <<>>
        BY AllPiecesType
    <2>2. DOMAIN AllPieces(body) = 1..Len(AllPieces(body))
        BY <2>1, LenProperties
    <2> QED
        BY <2>1, <2>2, Zenon
<1>5. FlattenSeq(AllPieces(body)) = body
    BY PiecesJoin
<1> HIDE DEF S, h
<1>6. AfterPart(h, id, ptype, n - 1, n, 7, adler32(body), AllPieces(body)[n]) =
          Complete(h, id, ptype, body)
    <2>1. AfterPart(h, id, ptype, n - 1, n, 7, adler32(body), AllPieces(body)[n]) =
              AfterLast(h, id, ptype, AllPieces(body), adler32(body))
        BY <1>0, <1>1, <1>2, <1>3, EndFlags, Zenon DEF AfterPart
    <2>2. AfterLast(h, id, ptype, AllPieces(body), adler32(body)) = Complete(h, id, ptype, body)
        BY <1>4, <1>5, Zenon DEF AfterLast
    <2> QED
        BY <2>1, <2>2
<1>7. Without(h.cache, id) = s.cache
    <2>1. Forgotten(h, id).cache = Without(h.cache, id)
        BY DEF Forgotten
    <2> QED
        BY <1>1, <2>1
<1>8. Complete(h, id, ptype, body) = Delivered(s, Packet(id, ptype, body))
    BY <1>1, <1>7, Zenon DEF Complete, Delivered
<1> QED
    BY <1>6, <1>8, Zenon DEF h, S

\* A part is missing, or the last is out of range: the message is forgotten.
LEMMA LastRefused ==
    ASSUME NEW s, NEW id, Fresh(s, id), NEW body \in Seq(Nat), body # <<>>, NEW S,
           NEW n \in Nat, n = totalParts(body), NEW seq \in Nat, NEW piece, NEW sum, NEW ptype,
           seq >= n \/ (seq = n - 1 /\ \E k \in 1..(n - 1) : k \notin S)
    PROVE  AfterPart(Holding(s, id, body, S), id, ptype, seq, n, 7, sum, piece) = s
<1> DEFINE h == Holding(s, id, body, S)
<1>1. PartsIn(h.cache, id, n) = Placed(body, S) /\ Forgotten(h, id) = s
    BY HoldingIs
<1>2. Len(Placed(body, S)) = n
    BY PlacedIs
<1>3. CASE seq >= n
    BY <1>1, <1>2, <1>3, Zenon DEF AfterPart
<1>4. CASE seq = n - 1
    <2> DEFINE placed == [Placed(body, S) EXCEPT ![seq + 1] = piece]
    <2>0. CASE seq >= n
        BY <1>3, <2>0
    <2>1. CASE ~(seq >= n)
        <3>1. PICK k \in 1..(n - 1) : k \notin S
            BY <2>1
        <3>2. k \in 1..n /\ k # seq + 1
            BY <1>4
        <3>3. k \in DOMAIN placed /\ placed[k] = <<>>
            BY <3>1, <3>2, PlacedIs
        <3> HIDE DEF placed
        <3>4. AfterLast(h, id, ptype, placed, sum) = Forgotten(h, id)
            BY <3>3, Zenon DEF AfterLast
        <3> QED
            BY <1>1, <1>2, <2>1, <3>4, EndFlags, Zenon DEF AfterPart, placed
    <2> QED
        BY <2>0, <2>1
<1> QED
    BY <1>3, <1>4

\* All is there, but the checksum is not that of the parts: they stay.
LEMMA LastWrong ==
    ASSUME NEW s, NEW id, Fresh(s, id), NEW body \in Seq(Nat), body # <<>>,
           NEW n \in Nat, n = totalParts(body), NEW ptype, NEW sum,
           NEW piece, piece # <<>>,
           adler32(FlattenSeq([AllPieces(body) EXCEPT ![n] = piece])) # sum
    PROVE  AfterPart(Holding(s, id, body, 1..(n - 1)), id, ptype, n - 1, n, 7, sum, piece) =
               Kept(s, id, [AllPieces(body) EXCEPT ![n] = piece])
<1>0. n \in 1..n /\ (n - 1) + 1 = n /\ 1..(n - 1) \cup {n} = 1..n
    BY TotalParts
<1> DEFINE S == 1..(n - 1)
           h == Holding(s, id, body, S)
           placed == [AllPieces(body) EXCEPT ![n] = piece]
<1>1. PartsIn(h.cache, id, n) = Placed(body, S) /\ Kept(h, id, placed) = Kept(s, id, placed)
    BY HoldingIs
<1>2. ~(n - 1 >= Len(Placed(body, S)))
    BY PlacedIs
<1>3. [Placed(body, S) EXCEPT ![n] = piece] = placed
    BY <1>0 DEF Placed, AllPieces
<1>4. ~ \E k \in DOMAIN placed : placed[k] = <<>>
    <2>1. \A k \in 1..n : AllPieces(body)[k] # <<>>
        BY AllPiecesType
    <2>2. DOMAIN placed = 1..n /\ \A k \in 1..n : placed[k] =
              IF k = n THEN piece ELSE AllPieces(body)[k]
        BY DEF AllPieces
    <2> HIDE DEF placed
    <2> QED
        BY <2>1, <2>2
<1>5. AfterLast(h, id, ptype, placed, sum) = Kept(h, id, placed)
    BY <1>4, Zenon DEF AfterLast
<1> HIDE DEF h, placed
<1>6. AfterPart(h, id, ptype, n - 1, n, 7, sum, piece) = Kept(s, id, placed)
    BY <1>0, <1>1, <1>2, <1>3, <1>5, EndFlags, Zenon DEF AfterPart
<1> QED
    BY <1>6 DEF h, placed

-----------------------------------------------------------------------------
(* What the frames still in the stream will do.                            *)

\* The output is part of what was sent, and no message of it is in the cache.
Good(s, packets, uid) ==
    /\ IsCache(s.cache) /\ s = [cache |-> s.cache, out |-> s.out]
    /\ DOMAIN s.cache \subseteq 0..(uid - 1)
    /\ s.out \in Seq(DecodedPacket) /\ IsPrefix(s.out, packets)
    /\ \A k \in 1..Len(s.out) :
          s.out[k].msgId \in 0..(uid - 1) /\ s.out[k].msgId \notin DOMAIN s.cache

Goes(run, s, frames, n, t, packets, uid) ==
    /\ run[0] = s /\ run[n] = t
    /\ \A k \in 0..n : Good(run[k], packets, uid)
    /\ \A k \in 1..n : run[k] = After(run[k - 1], frames[k])

\* The frames take s to t.
Reaches(s, frames, t, packets, uid) ==
    \E run : Goes(run, s, frames, Len(frames), t, packets, uid)

\* No frames lead from a state to itself.
LEMMA ReachesNone ==
    ASSUME NEW s, NEW packets, NEW uid, Good(s, packets, uid)
    PROVE  Reaches(s, <<>>, s, packets, uid)
<1> DEFINE run == [k \in 0..0 |-> s]
<1>1. run[0] = s /\ Len(<<>>) = 0
    OBVIOUS
<1> HIDE DEF run
<1>2. Goes(run, s, <<>>, 0, s, packets, uid)
    BY <1>1 DEF Goes
<1> QED
    BY <1>1, <1>2 DEF Reaches

\* One frame leads to the state after it.
LEMMA ReachesOne ==
    ASSUME NEW s, NEW packets, NEW uid, Good(s, packets, uid),
           NEW f, NEW t, t = After(s, f), Good(t, packets, uid)
    PROVE  Reaches(s, <<f>>, t, packets, uid)
<1> DEFINE run == [k \in 0..1 |-> IF k = 0 THEN s ELSE t]
<1>1. run[0] = s /\ run[1] = t /\ Len(<<f>>) = 1 /\ <<f>>[1] = f
    OBVIOUS
<1> HIDE DEF run
<1>2. \A k \in 0..1 : Good(run[k], packets, uid)
    <2>1. \A k \in 0..1 : k = 0 \/ k = 1
        OBVIOUS
    <2> QED
        BY <1>1, <2>1, Zenon
<1>3. \A k \in 1..1 : run[k] = After(run[k - 1], <<f>>[k])
    <2>1. \A k \in 1..1 : k = 1 /\ k - 1 = 0
        OBVIOUS
    <2> QED
        BY <1>1, <2>1, Zenon
<1>4. Goes(run, s, <<f>>, 1, t, packets, uid)
    BY <1>1, <1>2, <1>3, Zenon DEF Goes
<1> QED
    BY <1>1, <1>4 DEF Reaches

\* Both ends are good, and they are the same when there is no frame.
LEMMA ReachesGood ==
    ASSUME NEW s, NEW frames \in Seq(Seq(Nat)), NEW t, NEW packets, NEW uid,
           Reaches(s, frames, t, packets, uid)
    PROVE  Good(s, packets, uid) /\ Good(t, packets, uid) /\ (frames = <<>> => s = t)
<1>1. PICK run : Goes(run, s, frames, Len(frames), t, packets, uid)
    BY DEF Reaches
<1>2. 0 \in 0..Len(frames) /\ Len(frames) \in 0..Len(frames) /\ (frames = <<>> => Len(frames) = 0)
    BY LenProperties
<1> QED
    BY <1>1, <1>2, Zenon DEF Goes

\* What frames do one after the other.
LEMMA ReachesConcat ==
    ASSUME NEW s, NEW frames \in Seq(Seq(Nat)), NEW t, NEW others \in Seq(Seq(Nat)), NEW u,
           NEW packets, NEW uid,
           Reaches(s, frames, t, packets, uid), Reaches(t, others, u, packets, uid)
    PROVE  Reaches(s, frames \o others, u, packets, uid)
<1>1. PICK n \in Nat : n = Len(frames)
    BY LenProperties
<1>2. PICK m \in Nat : m = Len(others)
    BY LenProperties
<1>3. PICK f : Goes(f, s, frames, n, t, packets, uid)
    BY <1>1 DEF Reaches
<1>4. PICK g : Goes(g, t, others, m, u, packets, uid)
    BY <1>2 DEF Reaches
<1>5. PICK all \in Seq(Seq(Nat)) : all = frames \o others
    BY ConcatProperties
<1>6. /\ Len(all) = n + m
      /\ \A k \in 1..(n + m) : all[k] = IF k <= n THEN frames[k] ELSE others[k - n]
    BY <1>1, <1>2, <1>5, ConcatProperties
<1> DEFINE run == [k \in 0..(n + m) |-> IF k <= n THEN f[k] ELSE g[k - n]]
<1>7. \A k \in 0..n : run[k] = f[k]
    OBVIOUS
<1>8. \A j \in 1..m : run[n + j] = g[j]
    <2>1. ASSUME NEW j \in 1..m
          PROVE  run[n + j] = g[j]
        <3>1. n + j \in 0..(n + m) /\ ~(n + j <= n) /\ (n + j) - n = j
            OBVIOUS
        <3> QED
            BY <3>1
    <2> QED
        BY <2>1
<1> HIDE DEF run
<1>9. f[n] = t /\ g[0] = t /\ run[n] = t
    BY <1>3, <1>4, <1>7 DEF Goes
<1>10. ASSUME NEW j \in 0..m
       PROVE  run[n + j] = g[j]
    <2>1. CASE j = 0
        <3>1. n + j = n
            BY <2>1
        <3> QED
            BY <1>9, <2>1, <3>1, Zenon
    <2>2. CASE j # 0
        BY <1>8, <2>2
    <2> QED
        BY <2>1, <2>2
<1>11. ASSUME NEW k \in 0..(n + m)
       PROVE  Good(run[k], packets, uid)
    <2>1. CASE k <= n
        <3>1. k \in 0..n
            BY <2>1
        <3>2. Good(f[k], packets, uid)
            BY <1>3, <3>1, Zenon DEF Goes
        <3> QED
            BY <1>7, <3>1, <3>2, Zenon
    <2>2. CASE k > n
        <3>1. PICK j \in 0..m : k = n + j
            <4>1. k - n \in 0..m /\ k = n + (k - n)
                BY <2>2
            <4> QED
                BY <4>1
        <3>2. Good(g[j], packets, uid)
            BY <1>4, Zenon DEF Goes
        <3> QED
            BY <1>10, <3>1, <3>2, Zenon
    <2> QED
        BY <2>1, <2>2
<1>12. ASSUME NEW k \in 1..(n + m)
       PROVE  run[k] = After(run[k - 1], all[k])
    <2>1. CASE k <= n
        <3>1. k \in 1..n /\ k \in 0..n /\ k - 1 \in 0..n
            BY <2>1
        <3>2. f[k] = After(f[k - 1], frames[k])
            BY <1>3, <3>1, Zenon DEF Goes
        <3>3. all[k] = frames[k] /\ run[k] = f[k] /\ run[k - 1] = f[k - 1]
            BY <1>6, <1>7, <2>1, <3>1
        <3> QED
            BY <3>2, <3>3, Zenon
    <2>2. CASE k > n
        <3>1. PICK j \in 1..m : k = n + j
            <4>1. k - n \in 1..m /\ k = n + (k - n)
                BY <2>2
            <4> QED
                BY <4>1
        <3>2. j \in 0..m /\ j - 1 \in 0..m /\ k - 1 = n + (j - 1) /\ k - n = j
            BY <3>1
        <3>3. g[j] = After(g[j - 1], others[j])
            BY <1>4, Zenon DEF Goes
        <3>4. all[k] = others[j]
            BY <1>6, <2>2, <3>2
        <3>5. run[k] = g[j] /\ run[k - 1] = g[j - 1]
            BY <1>10, <3>1, <3>2, Zenon
        <3> QED
            BY <3>3, <3>4, <3>5, Zenon
    <2> QED
        BY <2>1, <2>2
<1>13. run[0] = s /\ run[n + m] = u
    <2>1. run[0] = f[0] /\ run[n + m] = g[m]
        BY <1>7, <1>10
    <2> QED
        BY <1>3, <1>4, <2>1, Zenon DEF Goes
<1>14. Goes(run, s, all, n + m, u, packets, uid)
    BY <1>11, <1>12, <1>13 DEF Goes
<1> QED
    BY <1>5, <1>6, <1>14, Zenon DEF Reaches

\* The first frame is handled.
LEMMA ReachesRest ==
    ASSUME NEW s, NEW frames \in Seq(Seq(Nat)), frames # <<>>, NEW t, NEW packets, NEW uid,
           Reaches(s, frames, t, packets, uid)
    PROVE  Reaches(After(s, frames[1]), Tail(frames), t, packets, uid)
<1>1. PICK n \in Nat \ {0} : n = Len(frames)
    BY EmptySeq
<1>2. PICK f : Goes(f, s, frames, n, t, packets, uid)
    BY <1>1 DEF Reaches
<1>3. /\ Tail(frames) \in Seq(Seq(Nat)) /\ Len(Tail(frames)) = n - 1
      /\ \A k \in 1..(n - 1) : Tail(frames)[k] = frames[k + 1]
    BY <1>1, HeadTailProperties
<1> DEFINE run == [k \in 0..(n - 1) |-> f[k + 1]]
<1>4. \A k \in 0..(n - 1) : run[k] = f[k + 1] /\ k + 1 \in 0..n /\ k + 1 \in 1..n
    OBVIOUS
<1> HIDE DEF run
<1>5. \A k \in 0..(n - 1) : Good(run[k], packets, uid)
    BY <1>2, <1>4, Zenon DEF Goes
<1>6. ASSUME NEW k \in 1..(n - 1)
      PROVE  run[k] = After(run[k - 1], Tail(frames)[k])
    <2>1. k \in 0..(n - 1) /\ k - 1 \in 0..(n - 1) /\ (k - 1) + 1 = k /\ (k + 1) - 1 = k
        OBVIOUS
    <2>2. run[k] = f[k + 1] /\ run[k - 1] = f[k] /\ k + 1 \in 1..n
        BY <1>4, <2>1
    <2>3. f[k + 1] = After(f[(k + 1) - 1], frames[k + 1])
        BY <1>2, <2>2, Zenon DEF Goes
    <2> QED
        BY <1>3, <2>1, <2>2, <2>3, Zenon
<1>7. run[0] = After(s, frames[1]) /\ run[n - 1] = t
    <2>1. 0 \in 0..(n - 1) /\ n - 1 \in 0..(n - 1) /\ 0 + 1 = 1 /\ (n - 1) + 1 = n /\
          1 \in 1..n /\ 1 - 1 = 0
        OBVIOUS
    <2>2. f[1] = After(f[1 - 1], frames[1]) /\ f[0] = s /\ f[n] = t
        BY <1>2, <2>1, Zenon DEF Goes
    <2>3. run[0] = f[1] /\ run[n - 1] = f[n]
        BY <1>4, <2>1
    <2> QED
        BY <2>1, <2>2, <2>3, Zenon
<1>8. Goes(run, After(s, frames[1]), Tail(frames), n - 1, t, packets, uid)
    BY <1>5, <1>6, <1>7 DEF Goes
<1> QED
    BY <1>3, <1>8, Zenon DEF Reaches

\* A prefix is one of every extension.
LEMMA PrefixOfMore ==
    ASSUME NEW D, NEW s \in Seq(D), NEW t \in Seq(D), NEW u \in Seq(D), IsPrefix(s, t)
    PROVE  IsPrefix(s, t \o u)
<1>1. PICK n \in Nat : n = Len(s)
    BY LenProperties
<1>2. n <= Len(t) /\ SubSeq(s, 1, n) = SubSeq(t, 1, n) /\ Len(t) \in Nat
    BY <1>1, LenProperties DEF IsPrefix
<1>3. Len(t \o u) = Len(t) + Len(u) /\ Len(u) \in Nat
    BY ConcatProperties, LenProperties
<1>4. SubSeq(t \o u, 1, n) = SubSeq(t, 1, n)
    <2>1. CASE n = 0
        <3>1. SubSeq(t \o u, 1, 0) = <<>> /\ SubSeq(t, 1, 0) = <<>>
            BY SubSeqEmpty
        <3> QED
            BY <2>1, <3>1, Zenon
    <2>2. CASE n # 0
        <3>1. 1 \in 1..Len(t) /\ n \in 1..Len(t)
            BY <1>2, <2>2
        <3> QED
            BY <3>1, SubSeqOfConcat1
    <2> QED
        BY <2>1, <2>2
<1>5. n <= Len(t \o u)
    BY <1>2, <1>3
<1> QED
    BY <1>1, <1>2, <1>4, <1>5, Zenon DEF IsPrefix

\* A sequence is a prefix of itself.
LEMMA PrefixOfItself ==
    ASSUME NEW D, NEW s \in Seq(D)
    PROVE  IsPrefix(s, s)
BY LenProperties DEF IsPrefix

\* A good state stays one when more was sent.
LEMMA GoodMore ==
    ASSUME NEW s, NEW packets \in Seq(DecodedPacket), NEW uid \in Nat, Good(s, packets, uid),
           NEW more \in Seq(DecodedPacket), NEW later \in Nat, uid <= later
    PROVE  Good(s, packets \o more, later)
<1>1. IsPrefix(s.out, packets \o more)
    BY PrefixOfMore DEF Good
<1>2. 0..(uid - 1) \subseteq 0..(later - 1)
    OBVIOUS
<1> QED
    BY <1>1, <1>2, Zenon DEF Good

\* Frames lead where they led when more was sent after them.
LEMMA ReachesMore ==
    ASSUME NEW s, NEW frames, NEW t, NEW packets \in Seq(DecodedPacket), NEW uid \in Nat,
           Reaches(s, frames, t, packets, uid),
           NEW more \in Seq(DecodedPacket), NEW later \in Nat, uid <= later
    PROVE  Reaches(s, frames, t, packets \o more, later)
<1>1. PICK run : Goes(run, s, frames, Len(frames), t, packets, uid)
    BY DEF Reaches
<1>2. \A k \in 0..Len(frames) : Good(run[k], packets \o more, later)
    <2>1. \A k \in 0..Len(frames) : Good(run[k], packets, uid)
        BY <1>1, Zenon DEF Goes
    <2> QED
        BY <2>1, GoodMore
<1>3. Goes(run, s, frames, Len(frames), t, packets \o more, later)
    BY <1>1, <1>2, Zenon DEF Goes
<1> QED
    BY <1>3 DEF Reaches

\* All of packets is out, and nothing is known of the ids from uid on.
Ended(s, packets, uid) == Good(s, packets, uid) /\ s.out = packets

\* Nothing of the next message is in the cache.
LEMMA EndedFresh ==
    ASSUME NEW s, NEW packets \in Seq(DecodedPacket), NEW uid \in Nat, Ended(s, packets, uid)
    PROVE  Fresh(s, uid)
<1>1. uid \notin 0..(uid - 1)
    OBVIOUS
<1> QED
    BY <1>1, Zenon DEF Ended, Good, Fresh

\* Whatever parts of a message with a new id are kept, the state is good.
LEMMA KeptEnded ==
    ASSUME NEW s, NEW packets \in Seq(DecodedPacket), NEW uid \in Nat, Ended(s, packets, uid),
           NEW parts
    PROVE  Ended(Kept(s, uid, parts), packets, uid + 1)
<1> DEFINE t == Kept(s, uid, parts)
<1>1. t.cache = With(s.cache, uid, parts) /\ t.out = s.out /\ t = [cache |-> t.cache, out |-> t.out]
    BY DEF Kept
<1> HIDE DEF t
<1>2. IsCache(t.cache) /\ DOMAIN t.cache = DOMAIN s.cache \cup {uid}
    <2>1. /\ IsCache(With(s.cache, uid, parts))
          /\ DOMAIN With(s.cache, uid, parts) = DOMAIN s.cache \cup {uid}
        BY WithIs
    <2> QED
        BY <1>1, <2>1, Zenon
<1>3. 0..((uid + 1) - 1) = 0..(uid - 1) \cup {uid} /\ uid \notin 0..(uid - 1)
    OBVIOUS
<1>4. DOMAIN s.cache \subseteq 0..(uid - 1) /\ s.out = packets /\ IsPrefix(s.out, packets)
    BY DEF Ended, Good
<1>5. \A k \in 1..Len(s.out) :
         s.out[k].msgId \in 0..(uid - 1) /\ s.out[k].msgId \notin DOMAIN s.cache
    BY DEF Ended, Good
<1>6. \A k \in 1..Len(t.out) :
         t.out[k].msgId \in 0..((uid + 1) - 1) /\ t.out[k].msgId \notin DOMAIN t.cache
    BY <1>1, <1>2, <1>3, <1>5
<1>7. DOMAIN t.cache \subseteq 0..((uid + 1) - 1)
    BY <1>2, <1>3, <1>4
<1> QED
    BY <1>1, <1>2, <1>4, <1>6, <1>7, Zenon DEF Ended, Good, t

\* Whatever parts of the next message are kept, the state is good.
LEMMA HoldingEnded ==
    ASSUME NEW s, NEW packets \in Seq(DecodedPacket), NEW uid \in Nat, Ended(s, packets, uid),
           NEW body, NEW S
    PROVE  Ended(Holding(s, uid, body, S), packets, uid + 1)
<1>1. CASE S = {}
    <2>1. <<>> \in Seq(DecodedPacket) /\ packets \o <<>> = packets
        BY ConcatEmptySeq
    <2>2. uid <= uid + 1 /\ uid + 1 \in Nat
        OBVIOUS
    <2>3. Good(s, packets \o <<>>, uid + 1)
        BY <2>1, <2>2, GoodMore DEF Ended
    <2> QED
        BY <1>1, <2>1, <2>3, Zenon DEF Holding, Ended
<1>2. CASE S # {}
    BY <1>2, KeptEnded DEF Holding
<1> QED
    BY <1>1, <1>2

\* A message of which nothing is kept goes out.
LEMMA DeliveredEnded ==
    ASSUME NEW s, NEW packets \in Seq(DecodedPacket), NEW uid \in Nat, Ended(s, packets, uid),
           NEW later \in Nat, uid <= later,
           NEW packet \in DecodedPacket, packet.msgId \in 0..(later - 1),
           packet.msgId \notin DOMAIN s.cache
    PROVE  Ended(Delivered(s, packet), packets \o <<packet>>, later)
<1> DEFINE t == Delivered(s, packet)
<1>1. t.cache = s.cache /\ t.out = Append(packets, packet) /\ t = [cache |-> t.cache, out |-> t.out]
    BY DEF Ended, Delivered
<1> HIDE DEF t
<1>2. /\ Append(packets, packet) = packets \o <<packet>>
      /\ Append(packets, packet) \in Seq(DecodedPacket)
      /\ Len(Append(packets, packet)) = Len(packets) + 1
      /\ \A k \in 1..(Len(packets) + 1) :
            Append(packets, packet)[k] = IF k <= Len(packets) THEN packets[k] ELSE packet
    BY AppendProperties, AppendIsConcat
<1>3. 0..(uid - 1) \subseteq 0..(later - 1)
    OBVIOUS
<1>4. DOMAIN s.cache \subseteq 0..(uid - 1) /\ s.out = packets /\ IsCache(s.cache)
    BY DEF Ended, Good
<1>5. \A k \in 1..Len(packets) :
         packets[k].msgId \in 0..(uid - 1) /\ packets[k].msgId \notin DOMAIN s.cache
    BY <1>4 DEF Ended, Good
<1>6. \A k \in 1..Len(t.out) :
         t.out[k].msgId \in 0..(later - 1) /\ t.out[k].msgId \notin DOMAIN t.cache
    <2>1. ASSUME NEW k \in 1..(Len(packets) + 1)
          PROVE  LET id == Append(packets, packet)[k].msgId
                 IN id \in 0..(later - 1) /\ id \notin DOMAIN s.cache
        <3>1. CASE k <= Len(packets)
            <4>1. k \in 1..Len(packets)
                BY <3>1, LenProperties
            <4> QED
                BY <1>2, <1>3, <1>5, <3>1, <4>1
        <3>2. CASE ~(k <= Len(packets))
            BY <1>2, <3>2
        <3> QED
            BY <3>1, <3>2
    <2> QED
        BY <1>1, <1>2, <2>1
<1>7. DOMAIN t.cache \subseteq 0..(later - 1)
    BY <1>1, <1>3, <1>4
<1>8. IsPrefix(t.out, packets \o <<packet>>)
    BY <1>1, <1>2, PrefixOfItself
<1> QED
    BY <1>1, <1>2, <1>4, <1>6, <1>7, <1>8, Zenon DEF Ended, Good, t

-----------------------------------------------------------------------------
(* What the peer sends.                                                    *)

\* A short body goes in one frame.
LEMMA ShortFrame ==
    ASSUME NEW id \in Nat, NEW body \in Seq(Nat), ~(Len(body) > CHUNK_SIZE)
    PROVE  \E f \in Seq(Nat) :
               /\ encode(id, body) = <<f>>
               /\ Cells(f, CHATMSG, id, 2, 0, 0, adler32(body), body)
<1>1. Len(body) <= CHUNK_SIZE
    BY LenProperties, CodecAssumption
<1>2. PICK f : f = createProtoHeader(CHATMSG, Len(body), id, 2, 0, 0, adler32(body)) \o body
    OBVIOUS
<1>3. encode(id, body) = <<f>>
    BY <1>1, <1>2, Zenon DEF encode
<1>4. Cells(f, CHATMSG, id, 2, 0, 0, adler32(body), body)
    <2>1. adler32(body) \in Nat /\ CHATMSG \in Nat /\ 2 \in Nat /\ 0 \in Nat
        BY SumType DEF CHATMSG
    <2> QED
        BY <1>2, <2>1, FrameCells
<1>5. f \in Seq(Nat)
    BY <1>4 DEF Cells, IsFrame
<1> QED
    BY <1>3, <1>4, <1>5

\* The flags and the checksum of the part k.
FlagsOf(k, n) == IF k = n THEN 7 ELSE 3
SumOf(body, k, n) == adler32(IF k = n THEN body ELSE AllPieces(body)[k])

\* The cells of the part k.
PartCells(f, id, body, k, n) ==
    Cells(f, CHATMSG, id, FlagsOf(k, n), k - 1, n, SumOf(body, k, n), AllPieces(body)[k])

\* A long body goes in a frame for each piece.
LEMMA LongFrames ==
    ASSUME NEW id \in Nat, NEW body \in Seq(Nat), body # <<>>, Len(body) > CHUNK_SIZE,
           NEW n \in Nat, n = totalParts(body)
    PROVE  /\ encode(id, body) \in Seq(Seq(Nat)) /\ Len(encode(id, body)) = n /\ n > 1
           /\ \A k \in 1..n : PartCells(encode(id, body)[k], id, body, k, n)
<1>1. n > 1
    BY TotalParts
<1>2. encode(id, body) = [k \in 1..n |-> Chunk(id, body, k - 1)]
    <2>1. ~(Len(body) <= CHUNK_SIZE)
        BY LenProperties, CodecAssumption
    <2> QED
        BY <2>1, Zenon DEF encode
<1>3. ASSUME NEW k \in 1..n
      PROVE  PartCells(Chunk(id, body, k - 1), id, body, k, n)
    <2>1. PICK piece \in Seq(Nat) : piece = msgPiece(body, k - 1)
        <3>1. k - 1 \in 0..(totalParts(body) - 1)
            OBVIOUS
        <3> QED
            BY <3>1, PieceType
    <2>2. AllPieces(body)[k] = piece
        BY <2>1, AllPiecesType
    <2>3. (k - 1 = totalParts(body) - 1) <=> k = n
        OBVIOUS
    <2>4. Chunk(id, body, k - 1) =
              createProtoHeader(CHATMSG, Len(piece), id, FlagsOf(k, n), k - 1, n,
                                SumOf(body, k, n)) \o piece
        BY <2>1, <2>2, <2>3, Zenon DEF Chunk, FlagsOf, SumOf
    <2>5. SumOf(body, k, n) \in Nat /\ FlagsOf(k, n) \in Nat /\ CHATMSG \in Nat /\ k - 1 \in Nat
        <3>1. adler32(body) \in Nat /\ adler32(piece) \in Nat
            BY SumType
        <3>2. SumOf(body, k, n) \in Nat
            BY <2>2, <3>1, Zenon DEF SumOf
        <3> QED
            BY <3>2 DEF FlagsOf, CHATMSG
    <2>6. PICK sum \in Nat : sum = SumOf(body, k, n)
        BY <2>5
    <2>7. PICK flags \in Nat : flags = FlagsOf(k, n)
        BY <2>5
    <2>8. Cells(createProtoHeader(CHATMSG, Len(piece), id, flags, k - 1, n, sum) \o piece,
                CHATMSG, id, flags, k - 1, n, sum, piece)
        BY <2>5, FrameCells
    <2> QED
        BY <2>2, <2>4, <2>6, <2>7, <2>8, Zenon DEF PartCells
<1>4. ASSUME NEW k \in 1..n
      PROVE  Chunk(id, body, k - 1) \in Seq(Nat)
    BY <1>3 DEF PartCells, Cells, IsFrame
<1>5. encode(id, body) \in [1..n -> Seq(Nat)]
    BY <1>2, <1>4
<1>6. encode(id, body) \in Seq(Seq(Nat)) /\ Len(encode(id, body)) = n
    BY <1>5, FunctionIsSeq
<1>7. \A k \in 1..n : encode(id, body)[k] = Chunk(id, body, k - 1)
    BY <1>2
<1> QED
    BY <1>1, <1>3, <1>6, <1>7

\* A frame in the middle of a message.
KeepsPart(s, id, body, S, k, f) ==
    After(Holding(s, id, body, S), f) = Holding(s, id, body, S \cup {k})

\* A middle frame that is in order keeps its part.
LEMMA MiddleFrame ==
    ASSUME NEW s, NEW id, Fresh(s, id), NEW body \in Seq(Nat), body # <<>>, NEW S,
           NEW n \in Nat, n = totalParts(body), NEW k \in 1..n, k # n,
           NEW f, PartCells(f, id, body, k, n)
    PROVE  KeepsPart(s, id, body, S, k, f)
<1>1. PICK piece : piece = AllPieces(body)[k]
    OBVIOUS
<1>2. PICK sum : sum = adler32(piece)
    OBVIOUS
<1>3. PICK h : h = Holding(s, id, body, S)
    OBVIOUS
<1>4. PICK seq : seq = k - 1
    OBVIOUS
<1>5. Cells(f, CHATMSG, id, 3, seq, n, sum, piece)
    BY <1>1, <1>2, <1>4, Zenon DEF PartCells, FlagsOf, SumOf
<1>6. After(h, f) = AfterPart(h, id, CHATMSG, seq, n, 3, sum, piece)
    BY <1>5, AfterMiddleFrame
<1>7. AfterPart(Holding(s, id, body, S), id, CHATMSG, k - 1, n, 3, adler32(piece), piece) =
          Holding(s, id, body, S \cup {k})
    BY <1>1, MiddleArrives
<1> QED
    BY <1>2, <1>3, <1>4, <1>6, <1>7, Zenon DEF KeepsPart

\* An interval and the number behind it.
LEMMA IntervalMore ==
    ASSUME NEW a \in Int, NEW b \in Int, a <= b
    PROVE  a..b = (a..(b - 1)) \cup {b}
OBVIOUS

\* The parts from a to b, but the last of all, are kept.
LEMMA MiddlesArrive ==
    ASSUME NEW packets \in Seq(DecodedPacket), NEW uid \in Nat, NEW s, Ended(s, packets, uid),
           NEW body \in Seq(Nat), body # <<>>, Len(body) > CHUNK_SIZE,
           NEW n \in Nat, n = totalParts(body),
           NEW a \in 1..n, NEW b \in 0..(n - 1), a <= b + 1, NEW S
    PROVE  Reaches(Holding(s, uid, body, S), SubSeq(encode(uid, body), a, b),
                   Holding(s, uid, body, S \cup (a..b)), packets, uid + 1)
<1>1. /\ encode(uid, body) \in Seq(Seq(Nat)) /\ Len(encode(uid, body)) = n
      /\ \A k \in 1..n : PartCells(encode(uid, body)[k], uid, body, k, n)
    BY LongFrames
<1>2. PICK m \in Nat : m = b - a + 1
    OBVIOUS
<1>3. Fresh(s, uid)
    BY EndedFresh
<1> DEFINE frames == SubSeq(encode(uid, body), a, b)
           run == [j \in 0..m |-> Holding(s, uid, body, S \cup (a..(a + j - 1)))]
<1>4. /\ frames \in Seq(Seq(Nat)) /\ Len(frames) = m
      /\ \A j \in 1..m : frames[j] = encode(uid, body)[a + j - 1]
    BY <1>1, <1>2, SubSeqProperties
<1> HIDE DEF frames
<1>5. \A j \in 0..m : Good(run[j], packets, uid + 1)
    <2>1. ASSUME NEW j \in 0..m
          PROVE  Good(run[j], packets, uid + 1)
        <3>1. run[j] = Holding(s, uid, body, S \cup (a..(a + j - 1)))
            OBVIOUS
        <3> HIDE DEF run
        <3>2. Ended(run[j], packets, uid + 1)
            BY <3>1, HoldingEnded
        <3> QED
            BY <3>2 DEF Ended
    <2> QED
        BY <2>1
<1>6. ASSUME NEW j \in 1..m
      PROVE  run[j] = After(run[j - 1], frames[j])
    <2>1. PICK k \in 1..n : k = a + j - 1 /\ k # n
        BY <1>2
    <2>0. PICK T : T = S \cup (a..(a + (j - 1) - 1))
        OBVIOUS
    <2>9. PICK f : f = encode(uid, body)[k]
        OBVIOUS
    <2>2. run[j - 1] = Holding(s, uid, body, T)
        BY <1>2, <2>0
    <2>3. run[j] = Holding(s, uid, body, T \cup {k})
        <3>1. a..(a + j - 1) = (a..(a + (j - 1) - 1)) \cup {k}
            <4>1. a + j - 1 = k /\ a + (j - 1) - 1 = k - 1 /\ a <= k
                BY <1>2, <2>1
            <4>2. a..k = (a..(k - 1)) \cup {k}
                BY <4>1, IntervalMore
            <4> QED
                BY <4>1, <4>2, Zenon
        <3>2. S \cup (a..(a + j - 1)) = T \cup {k}
            BY <2>0, <3>1
        <3>3. run[j] = Holding(s, uid, body, S \cup (a..(a + j - 1)))
            OBVIOUS
        <3> HIDE DEF run
        <3> QED
            BY <3>2, <3>3, Zenon
    <2> HIDE DEF run
    <2>4. PartCells(f, uid, body, k, n)
        BY <1>1, <2>9
    <2>6. After(Holding(s, uid, body, T), f) = Holding(s, uid, body, T \cup {k})
        <3>1. k \in 1..n /\ k # n
            BY <2>1
        <3>2. Fresh(s, uid) /\ PartCells(f, uid, body, k, n)
            BY <1>3, <2>4
        <3>3. KeepsPart(s, uid, body, T, k, f)
            BY <3>1, <3>2, MiddleFrame
        <3> QED
            BY <3>3, Zenon DEF KeepsPart
    <2>7. frames[j] = f
        BY <1>4, <2>1, <2>9
    <2> QED
        BY <2>2, <2>3, <2>6, <2>7, Zenon
<1>7. run[0] = Holding(s, uid, body, S) /\ run[m] = Holding(s, uid, body, S \cup (a..b))
    <2>1. S \cup (a..(a + 0 - 1)) = S /\ a + m - 1 = b
        BY <1>2
    <2>2. run[0] = Holding(s, uid, body, S \cup (a..(a + 0 - 1))) /\
          run[m] = Holding(s, uid, body, S \cup (a..(a + m - 1)))
        OBVIOUS
    <2> HIDE DEF run
    <2> QED
        BY <2>1, <2>2, Zenon
<1> HIDE DEF run
<1>8. Goes(run, Holding(s, uid, body, S), frames, m,
           Holding(s, uid, body, S \cup (a..b)), packets, uid + 1)
    BY <1>5, <1>6, <1>7 DEF Goes
<1> QED
    BY <1>4, <1>8, Zenon DEF Reaches, frames
\* The frames of a message but its last.
LEMMA FrontArrives ==
    ASSUME NEW packets \in Seq(DecodedPacket), NEW uid \in Nat, NEW s, Ended(s, packets, uid),
           NEW body \in Seq(Nat), body # <<>>, Len(body) > CHUNK_SIZE,
           NEW n \in Nat, n = totalParts(body)
    PROVE  Reaches(s, SubSeq(encode(uid, body), 1, n - 1),
                   Holding(s, uid, body, 1..(n - 1)), packets, uid + 1)
<1>1. n > 1
    BY LongFrames
<1>2. 1 \in 1..n /\ n - 1 \in 0..(n - 1) /\ 1 <= (n - 1) + 1
    BY <1>1
<1>3. Reaches(Holding(s, uid, body, {}), SubSeq(encode(uid, body), 1, n - 1),
              Holding(s, uid, body, {} \cup (1..(n - 1))), packets, uid + 1)
    BY <1>2, MiddlesArrive
<1>4. Holding(s, uid, body, {}) = s
    BY DEF Holding
<1>5. {} \cup (1..(n - 1)) = 1..(n - 1)
    OBVIOUS
<1> QED
    BY <1>3, <1>4, <1>5, Zenon

DeliversLast(s, id, body, n, f) ==
    After(Holding(s, id, body, 1..(n - 1)), f) = Delivered(s, PacketOf(id, body))

\* The last frame, when all others have come, gives the message.
LEMMA LastFrame ==
    ASSUME NEW s, NEW id, Fresh(s, id), NEW body \in Seq(Nat), body # <<>>,
           NEW n \in Nat, n = totalParts(body),
           NEW f, PartCells(f, id, body, n, n)
    PROVE  DeliversLast(s, id, body, n, f)
<1>1. PICK piece : piece = AllPieces(body)[n]
    OBVIOUS
<1>2. PICK sum : sum = adler32(body)
    OBVIOUS
<1>3. PICK h : h = Holding(s, id, body, 1..(n - 1))
    OBVIOUS
<1>4. PICK seq : seq = n - 1
    OBVIOUS
<1>5. Cells(f, CHATMSG, id, 7, seq, n, sum, piece)
    BY <1>1, <1>2, <1>4, Zenon DEF PartCells, FlagsOf, SumOf
<1>6. After(h, f) = AfterPart(h, id, CHATMSG, seq, n, 7, sum, piece)
    BY <1>5, AfterLastFrame
<1>7. AfterPart(Holding(s, id, body, 1..(n - 1)), id, CHATMSG, n - 1, n, 7,
                adler32(body), AllPieces(body)[n]) =
          Delivered(s, Packet(id, CHATMSG, body))
    BY LastArrives
<1>8. Packet(id, CHATMSG, body) = PacketOf(id, body)
    BY DEF Packet, PacketOf
<1> QED
    BY <1>1, <1>2, <1>3, <1>4, <1>6, <1>7, <1>8, Zenon DEF DeliversLast

\* A packet is of the type decode gives.
LEMMA PacketType ==
    ASSUME NEW id \in Nat, NEW body \in Seq(Nat)
    PROVE  PacketOf(id, body) \in DecodedPacket /\ PacketOf(id, body).msgId = id
BY DEF PacketOf, DecodedPacket, CHATMSG

\* A message in one frame arrives.
LEMMA ShortArrives ==
    ASSUME NEW packets \in Seq(DecodedPacket), NEW uid \in Nat, NEW s, Ended(s, packets, uid),
           NEW body \in Seq(Nat), ~(Len(body) > CHUNK_SIZE)
    PROVE  \E f \in Seq(Nat) :
               /\ encode(uid, body) = <<f>>
               /\ After(s, f) = Delivered(s, PacketOf(uid, body))
<1>1. PICK f \in Seq(Nat) :
          /\ encode(uid, body) = <<f>>
          /\ Cells(f, CHATMSG, uid, 2, 0, 0, adler32(body), body)
    BY ShortFrame
<1>2. PICK sum : sum = adler32(body)
    OBVIOUS
<1>3. After(s, f) = AfterWhole(s, uid, CHATMSG, sum, body)
    BY <1>1, <1>2, AfterWholeFrame
<1>4. Packet(uid, CHATMSG, body) = PacketOf(uid, body)
    BY DEF Packet, PacketOf
<1>5. AfterWhole(s, uid, CHATMSG, sum, body) = Delivered(s, PacketOf(uid, body))
    BY <1>2, <1>4, Zenon DEF AfterWhole, Delivered
<1> QED
    BY <1>1, <1>3, <1>5, Zenon

\* A sequence is its front and its last element.
LEMMA SplitLast ==
    ASSUME NEW frames \in Seq(Seq(Nat)), NEW n \in Nat \ {0}, n = Len(frames)
    PROVE  /\ SubSeq(frames, 1, n - 1) \in Seq(Seq(Nat)) /\ <<frames[n]>> \in Seq(Seq(Nat))
           /\ Front(frames) = SubSeq(frames, 1, n - 1) /\ Last(frames) = frames[n]
           /\ frames = SubSeq(frames, 1, n - 1) \o <<frames[n]>>
<1>1. SubSeq(frames, 1, n - 1) \in Seq(Seq(Nat)) /\ <<frames[n]>> \in Seq(Seq(Nat))
    <2>1. n \in 1..Len(frames)
        OBVIOUS
    <2>2. frames[n] \in Seq(Nat)
        BY <2>1, ElementOfSeq
    <2>3. SubSeq(frames, 1, n - 1) \in Seq(Seq(Nat))
        OBVIOUS
    <2> QED
        BY <2>2, <2>3
<1>2. Front(frames) = SubSeq(frames, 1, n - 1) /\ Last(frames) = frames[n]
    BY DEF Front, Last
<1>3. frames = SubSeq(frames, 1, n - 1) \o <<frames[n]>>
    <2> DEFINE g == SubSeq(frames, 1, n - 1) \o <<frames[n]>>
    <2>1. Len(SubSeq(frames, 1, n - 1)) = n - 1 /\
          \A k \in 1..(n - 1) : SubSeq(frames, 1, n - 1)[k] = frames[k]
        OBVIOUS
    <2>2. Len(<<frames[n]>>) = 1 /\ <<frames[n]>>[1] = frames[n]
        OBVIOUS
    <2>3. /\ g \in Seq(Seq(Nat)) /\ Len(g) = n
          /\ \A k \in 1..n : g[k] =
                 IF k <= n - 1 THEN SubSeq(frames, 1, n - 1)[k] ELSE <<frames[n]>>[k - (n - 1)]
        BY <1>1, <2>1, <2>2, ConcatProperties
    <2> HIDE DEF g
    <2>4. ASSUME NEW k \in 1..n
          PROVE  g[k] = frames[k]
        <3>1. CASE k <= n - 1
            <4>1. k \in 1..(n - 1)
                BY <3>1
            <4>2. g[k] = SubSeq(frames, 1, n - 1)[k]
                BY <2>3, <3>1
            <4> QED
                BY <2>1, <4>1, <4>2, Zenon
        <3>2. CASE k = n
            <4>1. ~(k <= n - 1) /\ k - (n - 1) = 1
                BY <3>2
            <4>2. g[k] = <<frames[n]>>[k - (n - 1)]
                BY <2>3, <4>1, Zenon
            <4> QED
                BY <2>2, <3>2, <4>1, <4>2, Zenon
        <3> QED
            BY <3>1, <3>2
    <2>5. g = frames
        BY <2>3, <2>4, SeqEqual
    <2> QED
        BY <2>5 DEF g
<1> QED
    BY <1>1, <1>2, <1>3

\* The whole of a message with a new id.
Arrives(s, uid, body, packets) ==
    LET t == Delivered(s, PacketOf(uid, body))
        more == packets \o <<PacketOf(uid, body)>>
    IN Reaches(s, encode(uid, body), t, more, uid + 1) /\ Ended(t, more, uid + 1)

\* A message that is sent undamaged arrives.
LEMMA MessageArrives ==
    ASSUME NEW packets \in Seq(DecodedPacket), NEW uid \in Nat, NEW s, Ended(s, packets, uid),
           NEW body \in Seq(Nat), body # <<>>
    PROVE  Arrives(s, uid, body, packets)
<1>1. PICK p \in DecodedPacket : p = PacketOf(uid, body) /\ p.msgId = uid
    BY PacketType
<1>2. PICK later \in Nat : later = uid + 1
    OBVIOUS
<1>3. uid <= later /\ uid \in 0..(later - 1) /\ later <= later
    BY <1>2
<1>4. Fresh(s, uid)
    BY EndedFresh
<1>5. PICK more \in Seq(DecodedPacket) : more = packets \o <<p>>
    <2>1. <<p>> \in Seq(DecodedPacket)
        OBVIOUS
    <2> QED
        BY <2>1, ConcatProperties
<1>6. Ended(Delivered(s, p), more, later)
    <2>1. p.msgId \in 0..(later - 1) /\ p.msgId \notin DOMAIN s.cache
        BY <1>1, <1>3, <1>4, Zenon DEF Fresh
    <2> QED
        BY <1>3, <1>5, <2>1, DeliveredEnded
<1>7. Good(Delivered(s, p), more, later)
    BY <1>6 DEF Ended
<1>8. Good(s, packets, uid) /\ <<p>> \in Seq(DecodedPacket)
    BY DEF Ended
<1>9. Good(s, more, later)
    BY <1>3, <1>5, <1>8, GoodMore
<1>10. Reaches(s, encode(uid, body), Delivered(s, p), more, later)
    <2>1. CASE ~(Len(body) > CHUNK_SIZE)
        <3>1. PICK f \in Seq(Nat) : encode(uid, body) = <<f>> /\ After(s, f) = Delivered(s, p)
            BY <1>1, <2>1, ShortArrives
        <3>2. Reaches(s, <<f>>, Delivered(s, p), more, later)
            BY <1>7, <1>9, <3>1, ReachesOne
        <3> QED
            BY <3>1, <3>2, Zenon
    <2>2. CASE Len(body) > CHUNK_SIZE
        <3>1. PICK n \in Nat \ {0} : n = totalParts(body)
            BY TotalParts
        <3>2. PICK frames \in Seq(Seq(Nat)) : frames = encode(uid, body) /\ Len(frames) = n
            BY <2>2, <3>1, LongFrames
        <3>3. PartCells(frames[n], uid, body, n, n)
            <4>1. \A k \in 1..n : PartCells(frames[k], uid, body, k, n)
                BY <2>2, <3>1, <3>2, LongFrames
            <4> QED
                BY <4>1
        <3>4. PICK h : h = Holding(s, uid, body, 1..(n - 1))
            OBVIOUS
        <3>5. Reaches(s, SubSeq(frames, 1, n - 1), h, packets, later)
            BY <1>2, <2>2, <3>1, <3>2, <3>4, FrontArrives
        <3>6. Reaches(s, SubSeq(frames, 1, n - 1), h, more, later)
            BY <1>3, <1>5, <1>8, <3>5, ReachesMore
        <3>7. SubSeq(frames, 1, n - 1) \in Seq(Seq(Nat)) /\ <<frames[n]>> \in Seq(Seq(Nat))
              /\ frames = SubSeq(frames, 1, n - 1) \o <<frames[n]>>
            BY <3>2, SplitLast
        <3>8. Good(h, more, later)
            BY <3>6, <3>7, ReachesGood
        <3>9. After(h, frames[n]) = Delivered(s, p)
            <4>1. DeliversLast(s, uid, body, n, frames[n])
                BY <1>4, <3>1, <3>3, LastFrame
            <4> QED
                BY <1>1, <3>4, <4>1, Zenon DEF DeliversLast
        <3>10. Reaches(h, <<frames[n]>>, Delivered(s, p), more, later)
            BY <1>7, <3>8, <3>9, ReachesOne
        <3>11. Reaches(s, SubSeq(frames, 1, n - 1) \o <<frames[n]>>, Delivered(s, p), more, later)
            BY <3>6, <3>7, <3>10, ReachesConcat
        <3> QED
            BY <3>2, <3>7, <3>11, Zenon
    <2> QED
        BY <2>1, <2>2
<1> QED
    BY <1>1, <1>2, <1>5, <1>6, <1>10, Zenon DEF Arrives

\* A frame as the peers of this code send them: that of a heartbeat has no body.
IsMessage(f) == IsFrame(f) /\ (f[4] = HEARTBEAT => f[5] = 0)

Frames(frames) ==
    frames \in Seq(Seq(Nat)) /\ \A k \in 1..Len(frames) : IsMessage(frames[k])

\* One frame is a sequence of frames.
LEMMA FramesOne ==
    ASSUME NEW f \in Seq(Nat), IsMessage(f)
    PROVE  Frames(<<f>>)
<1>1. <<f>> \in Seq(Seq(Nat)) /\ Len(<<f>>) = 1 /\ \A k \in 1..1 : <<f>>[k] = f
    OBVIOUS
<1> QED
    BY <1>1, Zenon DEF Frames

\* Frames after frames are frames.
LEMMA FramesConcat ==
    ASSUME NEW a, Frames(a), NEW b, Frames(b)
    PROVE  Frames(a \o b)
<1>1. PICK n \in Nat : n = Len(a)
    BY LenProperties DEF Frames
<1>2. PICK m \in Nat : m = Len(b)
    BY LenProperties DEF Frames
<1>3. PICK c \in Seq(Seq(Nat)) : c = a \o b
    BY ConcatProperties DEF Frames
<1>4. Len(c) = n + m /\ \A k \in 1..(n + m) : c[k] = IF k <= n THEN a[k] ELSE b[k - n]
    BY <1>1, <1>2, <1>3, ConcatProperties DEF Frames
<1>5. ASSUME NEW k \in 1..(n + m)
      PROVE  IsMessage(c[k])
    <2>1. CASE k <= n
        <3>1. k \in 1..n /\ c[k] = a[k]
            BY <1>4, <2>1
        <3> QED
            BY <1>1, <3>1, Zenon DEF Frames
    <2>2. CASE ~(k <= n)
        <3>1. k - n \in 1..m /\ c[k] = b[k - n]
            BY <1>4, <2>2
        <3> QED
            BY <1>2, <3>1, Zenon DEF Frames
    <2> QED
        BY <2>1, <2>2
<1> QED
    BY <1>3, <1>4, <1>5, Zenon DEF Frames

\* A part of a sequence of frames is one.
LEMMA FramesSub ==
    ASSUME NEW a, Frames(a), NEW i \in 1..(Len(a) + 1), NEW j \in 0..Len(a), i <= j + 1
    PROVE  Frames(SubSeq(a, i, j))
<1>1. PICK n \in Nat : n = Len(a)
    BY LenProperties DEF Frames
<1>2. PICK b : b = SubSeq(a, i, j)
    OBVIOUS
<1>3. PICK m \in Nat : m = j - i + 1
    BY <1>1
<1>4. b \in Seq(Seq(Nat)) /\ Len(b) = m /\ \A k \in 1..m : b[k] = a[i + k - 1]
    <2>1. \A k \in i..j : k \in 1..Len(a)
        BY <1>1
    <2>2. \A k \in i..j : a[k] \in Seq(Nat)
        BY <2>1, ElementOfSeq DEF Frames
    <2>3. i \in Int /\ j \in Int
        BY <1>1
    <2>4. /\ b \in Seq(Seq(Nat)) /\ Len(b) = IF i <= j THEN j - i + 1 ELSE 0
          /\ \A k \in 1..(j - i + 1) : b[k] = a[i + k - 1]
        BY <1>2, <2>2, <2>3, SubSeqProperties
    <2>5. (IF i <= j THEN j - i + 1 ELSE 0) = m
        BY <1>1, <1>3
    <2> QED
        BY <1>3, <2>4, <2>5, Zenon
<1>5. ASSUME NEW k \in 1..m
      PROVE  IsMessage(b[k])
    <2>1. i + k - 1 \in 1..n
        BY <1>1, <1>3
    <2>2. IsMessage(a[i + k - 1])
        BY <1>1, <2>1, Zenon DEF Frames
    <2> QED
        BY <1>4, <2>2, Zenon
<1> QED
    BY <1>2, <1>4, <1>5, Zenon DEF Frames

\* What has the fields of a chat message is a frame that may be sent.
LEMMA CellsMessage ==
    ASSUME NEW f, NEW id, NEW flags, NEW seq, NEW total, NEW sum, NEW piece,
           Cells(f, CHATMSG, id, flags, seq, total, sum, piece)
    PROVE  IsMessage(f)
BY DEF Cells, IsMessage, CHATMSG, HEARTBEAT

\* So is a part of a long one.
LEMMA PartMessage ==
    ASSUME NEW f, NEW id, NEW body, NEW k, NEW n, PartCells(f, id, body, k, n)
    PROVE  IsMessage(f)
BY CellsMessage DEF PartCells

\* encode gives frames.
LEMMA EncodeFrames ==
    ASSUME NEW id \in Nat, NEW body \in Seq(Nat), body # <<>>
    PROVE  Frames(encode(id, body))
<1>1. CASE ~(Len(body) > CHUNK_SIZE)
    <2>1. PICK f \in Seq(Nat) :
          /\ encode(id, body) = <<f>>
          /\ Cells(f, CHATMSG, id, 2, 0, 0, adler32(body), body)
        BY <1>1, ShortFrame
    <2>2. IsMessage(f)
        BY <2>1, CellsMessage
    <2> QED
        BY <2>1, <2>2, FramesOne
<1>2. CASE Len(body) > CHUNK_SIZE
    <2>1. PICK n \in Nat : n = totalParts(body)
        BY TotalParts
    <2>2. PICK frames \in Seq(Seq(Nat)) : frames = encode(id, body) /\ Len(frames) = n
        BY <1>2, <2>1, LongFrames
    <2>3. \A k \in 1..n : PartCells(frames[k], id, body, k, n)
        BY <1>2, <2>1, <2>2, LongFrames
    <2>4. \A k \in 1..n : IsMessage(frames[k])
        BY <2>3, PartMessage
    <2> QED
        BY <2>2, <2>4, Zenon DEF Frames
<1> QED
    BY <1>1, <1>2

\* Frames after which more is out, and nothing is known of the ids from later on.
Carries(s, frames, packets, more, later) ==
    \E t : Reaches(s, frames, t, packets \o more, later) /\ Ended(t, packets \o more, later)

NestedFrames(uid, outer, inner) ==
    Front(encode(uid, outer)) \o encode(uid + 1, inner) \o <<Last(encode(uid, outer))>>

NestedPackets(uid, outer, inner) ==
    <<PacketOf(uid + 1, inner), PacketOf(uid, outer)>>

\* Only a long body takes more than one frame.
LEMMA LongEncode ==
    ASSUME NEW id \in Nat, NEW body \in Seq(Nat), body # <<>>, Len(encode(id, body)) > 1
    PROVE  Len(body) > CHUNK_SIZE
<1> SUFFICES ASSUME ~(Len(body) > CHUNK_SIZE)
             PROVE  FALSE
    OBVIOUS
<1>1. PICK f : encode(id, body) = <<f>>
    BY ShortFrame
<1> QED
    BY <1>1

\* To hold parts and then give another message is to give it first.
LEMMA HoldingDelivered ==
    ASSUME NEW s, NEW id, NEW body, NEW S, NEW packet, Fresh(s, id)
    PROVE  Delivered(Holding(s, id, body, S), packet) = Holding(Delivered(s, packet), id, body, S)
BY DEF Delivered, Holding, Kept, Fresh

\* To give a message leaves the cache without the parts of another.
LEMMA FreshDelivered ==
    ASSUME NEW s, NEW id, NEW packet, Fresh(s, id)
    PROVE  Fresh(Delivered(s, packet), id)
BY DEF Delivered, Fresh

\* Two packets after those sent before.
LEMMA TwoPackets ==
    ASSUME NEW D, NEW p \in D, NEW q \in D
    PROVE  <<p>> \o <<q>> = <<p, q>>
<1>1. <<p>> \in Seq(D) /\ Len(<<p>>) = 1 /\ <<p>>[1] = p
    OBVIOUS
<1>2. <<q>> \in Seq(D) /\ Len(<<q>>) = 1 /\ <<q>>[1] = q
    OBVIOUS
<1>3. <<p, q>> \in Seq(D) /\ Len(<<p, q>>) = 2 /\ <<p, q>>[1] = p /\ <<p, q>>[2] = q
    OBVIOUS
<1> DEFINE both == <<p>> \o <<q>>
<1>4. both \in Seq(D) /\ Len(both) = 2
      /\ \A k \in 1..2 : both[k] = IF k <= 1 THEN <<p>>[k] ELSE <<q>>[k - 1]
    BY <1>1, <1>2, ConcatProperties
<1>5. both[1] = p /\ both[2] = q
    BY <1>1, <1>2, <1>4
<1> HIDE DEF both
<1>6. \A k \in 1..2 : k = 1 \/ k = 2
    OBVIOUS
<1>7. \A k \in 1..2 : both[k] = <<p, q>>[k]
    BY <1>3, <1>5, <1>6, Zenon
<1>8. both = <<p, q>>
    BY <1>3, <1>4, <1>7, SeqEqual
<1> QED
    BY <1>8 DEF both

\* A message amid the frames of another.
LEMMA NestedArrives ==
    ASSUME NEW packets \in Seq(DecodedPacket), NEW uid \in Nat, NEW s, Ended(s, packets, uid),
           NEW outer \in Seq(Nat), outer # <<>>, Len(encode(uid, outer)) > 1,
           NEW inner \in Seq(Nat), inner # <<>>
    PROVE  Carries(s, NestedFrames(uid, outer, inner), packets,
                   NestedPackets(uid, outer, inner), uid + 2)
<1>1. PICK mid \in Nat : mid = uid + 1
    OBVIOUS
<1>2. PICK later \in Nat : later = uid + 2
    OBVIOUS
<1>3. later = mid + 1 /\ uid <= mid /\ mid <= later /\ uid <= later /\ later <= later
      /\ mid \in 0..(later - 1) /\ uid \in 0..(later - 1) /\ mid \notin 0..(uid - 1)
    BY <1>1, <1>2
<1>4. PICK p \in DecodedPacket : p = PacketOf(mid, inner) /\ p.msgId = mid
    BY PacketType
<1>5. PICK q \in DecodedPacket : q = PacketOf(uid, outer) /\ q.msgId = uid
    BY PacketType
<1>6. <<p>> \in Seq(DecodedPacket) /\ <<q>> \in Seq(DecodedPacket) /\
      <<p, q>> \in Seq(DecodedPacket)
      /\ <<p>> \o <<q>> = <<p, q>>
    <2>1. <<p>> \in Seq(DecodedPacket) /\ <<q>> \in Seq(DecodedPacket)
        OBVIOUS
    <2>2. <<p, q>> \in Seq(DecodedPacket)
        OBVIOUS
    <2>3. <<p>> \o <<q>> = <<p, q>>
        BY TwoPackets
    <2> QED
        BY <2>1, <2>2, <2>3
<1>7. PICK first \in Seq(DecodedPacket) : first = packets \o <<p>>
    BY <1>6, ConcatProperties
<1>8. PICK all \in Seq(DecodedPacket) : all = packets \o <<p, q>>
    BY <1>6, ConcatProperties
<1>9. all = first \o <<q>>
    <2>1. Associates(packets, <<p>>, <<q>>)
        BY <1>6, Associative
    <2> QED
        BY <1>6, <1>7, <1>8, <2>1, Zenon DEF Associates
<1>10. Len(outer) > CHUNK_SIZE
    BY LongEncode
<1>11. PICK n \in Nat \ {0} : n = totalParts(outer)
    BY TotalParts
<1>12. PICK frames \in Seq(Seq(Nat)) : frames = encode(uid, outer) /\ Len(frames) = n
    BY <1>10, <1>11, LongFrames
<1>13. PartCells(frames[n], uid, outer, n, n)
    <2>1. \A k \in 1..n : PartCells(frames[k], uid, outer, k, n)
        BY <1>10, <1>11, <1>12, LongFrames
    <2> QED
        BY <2>1
<1>14. PICK front \in Seq(Seq(Nat)) : front = SubSeq(frames, 1, n - 1) /\ front = Front(frames)
    BY <1>12, SplitLast
<1>15. <<frames[n]>> \in Seq(Seq(Nat)) /\ Last(frames) = frames[n]
    BY <1>12, SplitLast
<1>16. PICK middle \in Seq(Seq(Nat)) : middle = encode(mid, inner)
    BY EncodeFrames DEF Frames
<1>17. PICK h : h = Holding(s, uid, outer, 1..(n - 1))
    OBVIOUS
<1>18. Reaches(s, front, h, all, later)
    <2>1. Reaches(s, front, h, packets, mid)
        BY <1>1, <1>10, <1>11, <1>12, <1>14, <1>17, FrontArrives
    <2> QED
        BY <1>3, <1>6, <1>8, <2>1, ReachesMore
<1>19. Ended(h, packets, mid)
    BY <1>1, <1>17, HoldingEnded
<1>20. Reaches(h, middle, Delivered(h, p), all, later)
    <2>1. Arrives(h, mid, inner, packets)
        BY <1>19, MessageArrives
    <2>2. Reaches(h, middle, Delivered(h, p), first, later)
        BY <1>3, <1>4, <1>7, <1>16, <2>1, Zenon DEF Arrives
    <2> QED
        BY <1>3, <1>6, <1>9, <2>2, ReachesMore
<1>21. Fresh(s, uid)
    BY EndedFresh
<1>22. PICK s2 : s2 = Delivered(s, p)
    OBVIOUS
<1>23. Fresh(s2, uid)
    BY <1>21, <1>22, FreshDelivered
<1>24. After(Delivered(h, p), frames[n]) = Delivered(s2, q)
    <2>1. DeliversLast(s2, uid, outer, n, frames[n])
        BY <1>11, <1>13, <1>23, LastFrame
    <2>2. Delivered(h, p) = Holding(s2, uid, outer, 1..(n - 1))
        <3>1. Delivered(Holding(s, uid, outer, 1..(n - 1)), p) =
                  Holding(Delivered(s, p), uid, outer, 1..(n - 1))
            BY <1>21, HoldingDelivered
        <3> QED
            BY <1>17, <1>22, <3>1, Zenon
    <2> QED
        BY <1>5, <2>1, <2>2, Zenon DEF DeliversLast
<1>25. Ended(Delivered(s2, q), all, later)
    <2>1. p.msgId \in 0..(later - 1) /\ p.msgId \notin DOMAIN s.cache
        <3>1. DOMAIN s.cache \subseteq 0..(uid - 1)
            BY DEF Ended, Good
        <3> QED
            BY <1>3, <1>4, <3>1
    <2>2. Ended(s2, first, later)
        BY <1>3, <1>7, <1>22, <2>1, DeliveredEnded
    <2>3. q.msgId \in 0..(later - 1) /\ q.msgId \notin DOMAIN s2.cache
        BY <1>3, <1>5, <1>23, Zenon DEF Fresh
    <2> QED
        BY <1>3, <1>9, <2>2, <2>3, DeliveredEnded
<1>26. Reaches(Delivered(h, p), <<frames[n]>>, Delivered(s2, q), all, later)
    <2>1. Good(Delivered(h, p), all, later)
        BY <1>16, <1>20, ReachesGood
    <2>2. Good(Delivered(s2, q), all, later)
        BY <1>25 DEF Ended
    <2> QED
        BY <1>24, <2>1, <2>2, ReachesOne
<1>27. Reaches(s, front \o middle, Delivered(h, p), all, later)
    BY <1>14, <1>16, <1>18, <1>20, ReachesConcat
<1>28. front \o middle \in Seq(Seq(Nat))
    BY <1>14, <1>16, ConcatProperties
<1>29. Reaches(s, (front \o middle) \o <<frames[n]>>, Delivered(s2, q), all, later)
    BY <1>15, <1>26, <1>27, <1>28, ReachesConcat
<1>30. NestedFrames(uid, outer, inner) = (front \o middle) \o <<frames[n]>>
    BY <1>1, <1>12, <1>14, <1>15, <1>16, Zenon DEF NestedFrames
<1>31. all = packets \o NestedPackets(uid, outer, inner)
    BY <1>1, <1>4, <1>5, <1>8, Zenon DEF NestedPackets
<1> QED
    BY <1>2, <1>25, <1>29, <1>30, <1>31, Zenon DEF Carries

\* What sendNested puts on the wire is frames.
LEMMA NestedAreFrames ==
    ASSUME NEW uid \in Nat, NEW outer \in Seq(Nat), outer # <<>>, Len(encode(uid, outer)) > 1,
           NEW inner \in Seq(Nat), inner # <<>>
    PROVE  Frames(NestedFrames(uid, outer, inner))
<1>1. PICK frames : frames = encode(uid, outer) /\ Frames(frames)
    BY EncodeFrames
<1>2. PICK n \in Nat \ {0} : n = Len(frames)
    BY <1>1, LenProperties DEF Frames
<1>3. Front(frames) = SubSeq(frames, 1, n - 1) /\ Last(frames) = frames[n]
    BY <1>1, <1>2, SplitLast DEF Frames
<1>4. Frames(SubSeq(frames, 1, n - 1))
    BY <1>1, <1>2, FramesSub
<1>5. Frames(<<frames[n]>>)
    <2>1. n \in 1..Len(frames) /\ frames \in Seq(Seq(Nat)) /\ IsMessage(frames[n])
        BY <1>1, <1>2 DEF Frames
    <2>2. frames[n] \in Seq(Nat)
        BY <2>1, ElementOfSeq
    <2> QED
        BY <2>1, <2>2, FramesOne
<1>6. uid + 1 \in Nat
    OBVIOUS
<1>7. Frames(encode(uid + 1, inner))
    BY <1>6, EncodeFrames
<1>8. Frames(SubSeq(frames, 1, n - 1) \o encode(uid + 1, inner))
    BY <1>4, <1>7, FramesConcat
<1>9. Frames((SubSeq(frames, 1, n - 1) \o encode(uid + 1, inner)) \o <<frames[n]>>)
    BY <1>5, <1>8, FramesConcat
<1> QED
    BY <1>1, <1>3, <1>9, Zenon DEF NestedFrames

(* A frame that is damaged.                                                *)

Spoilt(f, how) ==
    IF how = "payload" THEN [f EXCEPT ![11] = @ + 1]
    ELSE IF how = "checksum" THEN [f EXCEPT ![10] = @ + 1]
    ELSE [f EXCEPT ![8] = f[9]]

Spoils == {"payload", "checksum", "seq"}

\* Damaged leaves a frame out or puts another in its place.
LEMMA DamagedIs ==
    ASSUME NEW frames, NEW k, NEW how \in Spoils
    PROVE  /\ Damaged(frames, k, "missing") = RemoveAt(frames, k)
           /\ Damaged(frames, k, how) = Put(frames, k, Spoilt(frames[k], how))
<1>1. Damaged(frames, k, "missing") = RemoveAt(frames, k)
    BY Zenon DEF Damaged
<1>2. PROTO_HEADER_SIZE + 1 = 11
    BY DEF PROTO_HEADER_SIZE
<1>3. Damaged(frames, k, "payload") = Put(frames, k, Spoilt(frames[k], "payload"))
    BY <1>2, Zenon DEF Damaged, Put, Spoilt
<1>4. Damaged(frames, k, "checksum") = Put(frames, k, Spoilt(frames[k], "checksum"))
    BY Zenon DEF Damaged, Put, Spoilt
<1>5. Damaged(frames, k, "seq") = Put(frames, k, Spoilt(frames[k], "seq"))
    BY Zenon DEF Damaged, Put, Spoilt
<1> QED
    BY <1>1, <1>3, <1>4, <1>5, Zenon DEF Spoils

\* Of two sequences, one behind the other.
JoinOf(c, a, n, b, m, l) ==
    /\ Len(c) = l
    /\ \A i \in 1..l : c[i] = IF i <= n THEN a[i] ELSE b[i - n]

\* Concatenation cell by cell, as one fact.
LEMMA JoinIs ==
    ASSUME NEW D, NEW a \in Seq(D), NEW n \in Nat, n = Len(a),
           NEW b \in Seq(D), NEW m \in Nat, m = Len(b),
           NEW l \in Nat, l = n + m, NEW c, c = a \o b
    PROVE  c \in Seq(D) /\ JoinOf(c, a, n, b, m, l)
<1>1. c \in Seq(D) /\ Len(c) = n + m
      /\ \A i \in 1..(n + m) : c[i] = IF i <= n THEN a[i] ELSE b[i - n]
    BY ConcatProperties
<1> QED
    BY <1>1, Zenon DEF JoinOf

\* To put another frame in a place is to surround it with those before and
\* behind.
LEMMA PutIs ==
    ASSUME NEW frames \in Seq(Seq(Nat)), NEW n \in Nat, n = Len(frames), NEW k \in 1..n,
           NEW bad \in Seq(Nat)
    PROVE  /\ SubSeq(frames, 1, k - 1) \in Seq(Seq(Nat))
           /\ SubSeq(frames, k + 1, n) \in Seq(Seq(Nat))
           /\ <<bad>> \in Seq(Seq(Nat))
           /\ Put(frames, k, bad) =
                  (SubSeq(frames, 1, k - 1) \o <<bad>>) \o SubSeq(frames, k + 1, n)
<1>1. PICK a : a = SubSeq(frames, 1, k - 1)
    OBVIOUS
<1>2. PICK b : b = SubSeq(frames, k + 1, n)
    OBVIOUS
<1>3. a \in Seq(Seq(Nat)) /\ Len(a) = k - 1 /\ \A i \in 1..(k - 1) : a[i] = frames[i]
    BY <1>1
<1>4. b \in Seq(Seq(Nat)) /\ Len(b) = n - k /\ \A i \in 1..(n - k) : b[i] = frames[k + i]
    BY <1>2
<1>5. PICK c : c = <<bad>>
    OBVIOUS
<1>6. c \in Seq(Seq(Nat)) /\ Len(c) = 1 /\ c[1] = bad
    BY <1>5
<1>7. PICK d : d = a \o c
    OBVIOUS
<1>8. /\ d \in Seq(Seq(Nat)) /\ Len(d) = k
      /\ \A i \in 1..k : d[i] = IF i <= k - 1 THEN a[i] ELSE c[i - (k - 1)]
    <2>1. PICK j \in Nat : j = k - 1
        OBVIOUS
    <2>2. k \in Nat /\ 1 \in Nat /\ k = j + 1
        BY <2>1
    <2>3. d \in Seq(Seq(Nat)) /\ JoinOf(d, a, j, c, 1, k)
        BY <1>3, <1>6, <1>7, <2>1, <2>2, JoinIs
    <2> QED
        BY <2>1, <2>3, Zenon DEF JoinOf
<1>9. \A i \in 1..k : d[i] = IF i = k THEN bad ELSE frames[i]
    <2>1. ASSUME NEW i \in 1..k
          PROVE  d[i] = IF i = k THEN bad ELSE frames[i]
        <3>1. CASE i = k
            <4>1. ~(i <= k - 1) /\ i - (k - 1) = 1
                BY <3>1
            <4>2. d[i] = c[i - (k - 1)]
                BY <1>8, <4>1, Zenon
            <4> QED
                BY <1>6, <3>1, <4>1, <4>2, Zenon
        <3>2. CASE i # k
            <4>1. i <= k - 1 /\ i \in 1..(k - 1)
                BY <3>2
            <4>2. d[i] = a[i]
                BY <1>8, <4>1, Zenon
            <4> QED
                BY <1>3, <3>2, <4>1, <4>2, Zenon
        <3> QED
            BY <3>1, <3>2
    <2> QED
        BY <2>1
<1>10. PICK e : e = d \o b
    OBVIOUS
<1>11. /\ e \in Seq(Seq(Nat)) /\ Len(e) = n
       /\ \A i \in 1..n : e[i] = IF i <= k THEN d[i] ELSE b[i - k]
    <2>1. PICK j \in Nat : j = n - k
        <3>1. n - k \in Nat
            OBVIOUS
        <3> QED
            BY <3>1, Zenon
    <2>2. k \in Nat /\ n = k + j
        BY <2>1
    <2>3. e \in Seq(Seq(Nat)) /\ JoinOf(e, d, k, b, j, n)
        BY <1>4, <1>8, <1>10, <2>1, <2>2, JoinIs
    <2> QED
        BY <2>3, Zenon DEF JoinOf
<1>12. \A i \in 1..n : e[i] = IF i = k THEN bad ELSE frames[i]
    <2>1. ASSUME NEW i \in 1..n
          PROVE  e[i] = IF i = k THEN bad ELSE frames[i]
        <3>1. CASE i <= k
            <4>1. i \in 1..k /\ e[i] = d[i]
                BY <1>11, <3>1
            <4> QED
                BY <1>9, <4>1, Zenon
        <3>2. CASE ~(i <= k)
            <4>1. i - k \in 1..(n - k) /\ k + (i - k) = i /\ i # k
                BY <3>2
            <4>2. e[i] = b[i - k]
                BY <1>11, <3>2, Zenon
            <4>3. b[i - k] = frames[k + (i - k)]
                BY <1>4, <4>1, Zenon
            <4> QED
                BY <4>1, <4>2, <4>3, Zenon
        <3> QED
            BY <3>1, <3>2
    <2> QED
        BY <2>1
<1>13. PICK f : f = Put(frames, k, bad)
    OBVIOUS
<1>14. f \in Seq(Seq(Nat)) /\ Len(f) = n /\ \A i \in 1..n : f[i] = IF i = k THEN bad ELSE frames[i]
    BY <1>13, ExceptSeq DEF Put
<1>15. f = e
    <2>1. \A i \in 1..n : f[i] = e[i]
        BY <1>12, <1>14, Zenon
    <2> QED
        BY <1>11, <1>14, <2>1, SeqEqual
<1> QED
    BY <1>1, <1>2, <1>3, <1>4, <1>5, <1>6, <1>7, <1>10, <1>13, <1>15, Zenon

\* To leave a frame out is to join those before with those behind.
LEMMA RemoveIs ==
    ASSUME NEW frames \in Seq(Seq(Nat)), NEW n \in Nat, n = Len(frames), NEW k \in 1..n
    PROVE  /\ SubSeq(frames, 1, k - 1) \in Seq(Seq(Nat))
           /\ SubSeq(frames, k + 1, n) \in Seq(Seq(Nat))
           /\ <<>> \in Seq(Seq(Nat))
           /\ RemoveAt(frames, k) =
                  (SubSeq(frames, 1, k - 1) \o <<>>) \o SubSeq(frames, k + 1, n)
<1>1. SubSeq(frames, 1, k - 1) \in Seq(Seq(Nat)) /\ SubSeq(frames, k + 1, n) \in Seq(Seq(Nat))
    OBVIOUS
<1>2. SubSeq(frames, 1, k - 1) \o <<>> = SubSeq(frames, 1, k - 1) /\ <<>> \in Seq(Seq(Nat))
    BY <1>1, ConcatEmptySeq
<1> QED
    BY <1>1, <1>2, Zenon DEF RemoveAt

\* Of a message in one frame, nothing comes.
LEMMA SpoiltWhole ==
    ASSUME NEW s, NEW id, Fresh(s, id), NEW body \in Seq(Nat), body # <<>>,
           NEW f, Cells(f, CHATMSG, id, 2, 0, 0, adler32(body), body),
           NEW how \in {"payload", "checksum"}
    PROVE  IsMessage(Spoilt(f, how)) /\ After(s, Spoilt(f, how)) = s
<1>1. PICK sum \in Nat : sum = adler32(body)
    BY SumType
<1>2. PICK g : g = Spoilt(f, how)
    OBVIOUS
<1>3. ASSUME NEW other, NEW piece, adler32(piece) # other,
             Cells(g, CHATMSG, id, 2, 0, 0, other, piece)
      PROVE  IsMessage(g) /\ After(s, g) = s
    <2>1. IsMessage(g)
        BY <1>3, CellsMessage
    <2>2. After(s, g) = AfterWhole(s, id, CHATMSG, other, piece)
        BY <1>3, AfterWholeFrame
    <2>3. AfterWhole(s, id, CHATMSG, other, piece) = s
        BY <1>3, Zenon DEF AfterWhole, Fresh
    <2> QED
        BY <2>1, <2>2, <2>3, Zenon
<1>4. CASE how = "payload"
    <2>1. Cells([f EXCEPT ![11] = @ + 1], CHATMSG, id, 2, 0, 0, sum, OneMore(body, 1))
        BY <1>1, OtherPayload
    <2>2. g = [f EXCEPT ![11] = @ + 1]
        BY <1>2, <1>4, Zenon DEF Spoilt
    <2>3. adler32(OneMore(body, 1)) # sum
        <3>1. 1 \in 1..Len(body)
            BY EmptySeq
        <3> QED
            BY <1>1, <3>1, SumChanges DEF OneMore
    <2>4. Cells(g, CHATMSG, id, 2, 0, 0, sum, OneMore(body, 1))
        BY <2>1, <2>2, Zenon
    <2>5. IsMessage(g) /\ After(s, g) = s
        BY <1>3, <2>3, <2>4
    <2> QED
        BY <1>2, <2>5, Zenon
<1>5. CASE how = "checksum"
    <2>1. Cells([f EXCEPT ![10] = @ + 1], CHATMSG, id, 2, 0, 0, sum + 1, body)
        BY <1>1, OtherSum
    <2>2. g = [f EXCEPT ![10] = @ + 1]
        BY <1>2, <1>5, Zenon DEF Spoilt
    <2>3. adler32(body) # sum + 1
        BY <1>1
    <2>4. Cells(g, CHATMSG, id, 2, 0, 0, sum + 1, body)
        BY <2>1, <2>2, Zenon
    <2>5. IsMessage(g) /\ After(s, g) = s
        BY <1>3, <2>3, <2>4
    <2> QED
        BY <1>2, <2>5, Zenon
<1> QED
    BY <1>4, <1>5, Zenon

\* The other cells that the part k has when it is damaged.
SpoiltCells(f, id, k, n, flags, body, how) ==
    \E seq \in Nat, sum \in Nat, piece \in Seq(Nat) \ {<<>>} :
        /\ Cells(f, CHATMSG, id, flags, seq, n, sum, piece)
        /\ \/ how = "seq" /\ seq = n
           \/ /\ how = "payload" /\ seq = k - 1 /\ sum = SumOf(body, k, n)
              /\ piece = OneMore(AllPieces(body)[k], 1)
           \/ /\ how = "checksum" /\ seq = k - 1 /\ sum = SumOf(body, k, n) + 1
              /\ piece = AllPieces(body)[k]

\* A spoilt part has the fields the damage leaves it.
LEMMA SpoiltPart ==
    ASSUME NEW id, NEW body \in Seq(Nat), body # <<>>, NEW n \in Nat, n = totalParts(body),
           NEW k \in 1..n, NEW f, PartCells(f, id, body, k, n), NEW how \in Spoils
    PROVE  SpoiltCells(Spoilt(f, how), id, k, n, FlagsOf(k, n), body, how)
<1>1. PICK piece \in Seq(Nat) \ {<<>>} : piece = AllPieces(body)[k]
    <2>1. AllPieces(body) \in Seq(Seq(Nat)) /\ Len(AllPieces(body)) = n /\ AllPieces(body)[k] # <<>>
        BY AllPiecesType
    <2>2. AllPieces(body)[k] \in Seq(Nat)
        BY <2>1, ElementOfSeq
    <2> QED
        BY <2>1, <2>2
<1>2. PICK sum \in Nat : sum = SumOf(body, k, n)
    <2>1. adler32(body) \in Nat /\ adler32(piece) \in Nat
        BY SumType
    <2> QED
        BY <1>1, <2>1 DEF SumOf
<1>3. PICK seq \in Nat : seq = k - 1
    <2>1. k - 1 \in Nat
        OBVIOUS
    <2> QED
        BY <2>1, Zenon
<1>4. PICK flags : flags = FlagsOf(k, n)
    OBVIOUS
<1>5. Cells(f, CHATMSG, id, flags, seq, n, sum, piece)
    BY <1>1, <1>2, <1>3, <1>4, Zenon DEF PartCells
<1>6. CASE how = "payload"
    <2>1. Cells([f EXCEPT ![11] = @ + 1], CHATMSG, id, flags, seq, n, sum, OneMore(piece, 1))
        BY <1>5, OtherPayload
    <2>2. Spoilt(f, how) = [f EXCEPT ![11] = @ + 1]
        BY <1>6, Zenon DEF Spoilt
    <2>3. OneMore(piece, 1) \in Seq(Nat) \ {<<>>}
        <3>1. 1 \in 1..Len(piece) /\ Len(piece) # 0
            BY EmptySeq
        <3>2. OneMore(piece, 1) \in Seq(Nat) /\ Len(OneMore(piece, 1)) = Len(piece)
            BY <3>1, OneMoreType
        <3> QED
            BY <3>1, <3>2, EmptySeq
    <2> QED
        BY <1>1, <1>2, <1>3, <1>4, <1>6, <2>1, <2>2, <2>3, Zenon DEF SpoiltCells
<1>7. CASE how = "checksum"
    <2>1. Cells([f EXCEPT ![10] = @ + 1], CHATMSG, id, flags, seq, n, sum + 1, piece)
        BY <1>5, OtherSum
    <2>2. Spoilt(f, how) = [f EXCEPT ![10] = @ + 1]
        BY <1>7, Zenon DEF Spoilt
    <2>3. sum + 1 \in Nat
        OBVIOUS
    <2> QED
        BY <1>1, <1>2, <1>3, <1>4, <1>7, <2>1, <2>2, <2>3, Zenon DEF SpoiltCells
<1>8. CASE how = "seq"
    <2>1. Cells([f EXCEPT ![8] = f[9]], CHATMSG, id, flags, n, n, sum, piece)
        BY <1>5, OtherSeq
    <2>2. Spoilt(f, how) = [f EXCEPT ![8] = f[9]]
        BY <1>8, Zenon DEF Spoilt
    <2> QED
        BY <1>4, <1>8, <2>1, <2>2, Zenon DEF SpoiltCells
<1> QED
    BY <1>6, <1>7, <1>8, Zenon DEF Spoils

\* A damaged part that is not the last makes decode forget the message.
RefusesPart(s, id, body, S, g) ==
    IsMessage(g) /\ After(Holding(s, id, body, S), g) = s

\* A spoilt middle part makes decode forget its message.
LEMMA SpoiltMiddle ==
    ASSUME NEW s, NEW id, Fresh(s, id), NEW body \in Seq(Nat), body # <<>>, NEW S,
           NEW n \in Nat, n = totalParts(body), NEW k \in 1..n, k # n,
           NEW f, PartCells(f, id, body, k, n), NEW how \in Spoils
    PROVE  RefusesPart(s, id, body, S, Spoilt(f, how))
<1>1. PICK g : g = Spoilt(f, how)
    OBVIOUS
<1>2. SpoiltCells(g, id, k, n, 3, body, how)
    <2>1. SpoiltCells(Spoilt(f, how), id, k, n, FlagsOf(k, n), body, how)
        BY SpoiltPart
    <2>2. FlagsOf(k, n) = 3
        BY DEF FlagsOf
    <2> QED
        BY <1>1, <2>1, <2>2, Zenon
<1>3. PICK seq \in Nat, sum \in Nat, piece \in Seq(Nat) \ {<<>>} :
        /\ Cells(g, CHATMSG, id, 3, seq, n, sum, piece)
        /\ \/ how = "seq" /\ seq = n
           \/ /\ how = "payload" /\ seq = k - 1 /\ sum = SumOf(body, k, n)
              /\ piece = OneMore(AllPieces(body)[k], 1)
           \/ /\ how = "checksum" /\ seq = k - 1 /\ sum = SumOf(body, k, n) + 1
              /\ piece = AllPieces(body)[k]
    BY <1>2, Zenon DEF SpoiltCells
<1>4. PICK h : h = Holding(s, id, body, S)
    OBVIOUS
<1>5. After(h, g) = AfterPart(h, id, CHATMSG, seq, n, 3, sum, piece)
    BY <1>3, AfterMiddleFrame
<1>6. IsMessage(g)
    BY <1>3, CellsMessage
<1>7. seq >= n \/ adler32(piece) # sum
    <2>1. PICK old \in Seq(Nat) : old = AllPieces(body)[k] /\ old # <<>>
        <3>1. AllPieces(body) \in Seq(Seq(Nat)) /\ Len(AllPieces(body)) = n /\
              AllPieces(body)[k] # <<>>
            BY AllPiecesType
        <3>2. AllPieces(body)[k] \in Seq(Nat)
            BY <3>1, ElementOfSeq
        <3> QED
            BY <3>1, <3>2
    <2>2. SumOf(body, k, n) = adler32(old) /\ adler32(old) \in Nat
        BY <2>1, SumType DEF SumOf
    <2>3. adler32(OneMore(old, 1)) # adler32(old)
        <3>1. 1 \in 1..Len(old)
            BY <2>1, EmptySeq
        <3> QED
            BY <3>1, SumChanges DEF OneMore
    <2>4. CASE how = "seq" /\ seq = n
        BY <2>4
    <2>5. CASE sum = SumOf(body, k, n) /\ piece = OneMore(AllPieces(body)[k], 1)
        BY <2>1, <2>2, <2>3, <2>5, Zenon
    <2>6. CASE sum = SumOf(body, k, n) + 1 /\ piece = AllPieces(body)[k]
        <3>1. piece = old /\ sum = adler32(old) + 1
            BY <2>1, <2>2, <2>6, Zenon
        <3> QED
            BY <2>2, <3>1
    <2> QED
        BY <1>3, <2>4, <2>5, <2>6, Zenon
<1>8. AfterPart(Holding(s, id, body, S), id, CHATMSG, seq, n, 3, sum, piece) = s
    BY <1>7, MiddleRefused
<1> QED
    BY <1>1, <1>4, <1>5, <1>6, <1>8, Zenon DEF RefusesPart

\* A state in which all is out stays one when an id goes unused.
LEMMA EndedLater ==
    ASSUME NEW s, NEW packets \in Seq(DecodedPacket), NEW uid \in Nat, Ended(s, packets, uid)
    PROVE  Ended(s, packets, uid + 1)
<1>1. Ended(Holding(s, uid, <<>>, {}), packets, uid + 1)
    BY HoldingEnded
<1>2. Holding(s, uid, <<>>, {}) = s
    BY DEF Holding
<1> QED
    BY <1>1, <1>2, Zenon

\* With the damaged last part the parts add up to something else.
LEMMA SpoiltSum ==
    ASSUME NEW body \in Seq(Nat), body # <<>>, NEW n \in Nat, n = totalParts(body),
           NEW piece, NEW sum,
           \/ piece = OneMore(AllPieces(body)[n], 1) /\ sum = SumOf(body, n, n)
           \/ piece = AllPieces(body)[n] /\ sum = SumOf(body, n, n) + 1
    PROVE  adler32(FlattenSeq([AllPieces(body) EXCEPT ![n] = piece])) # sum
<1>1. SumOf(body, n, n) = adler32(body) /\ adler32(body) \in Nat
    BY SumType DEF SumOf
<1>2. n \in 1..n /\ AllPieces(body)[n] = msgPiece(body, n - 1)
    BY TotalParts, AllPiecesType
<1>3. CASE piece = OneMore(AllPieces(body)[n], 1) /\ sum = SumOf(body, n, n)
    <2>1. PICK other : other = OneMore(body, (n - 1) * CHUNK_SIZE + 1)
        OBVIOUS
    <2>2. /\ other \in Seq(Nat) /\ other # <<>> /\ adler32(other) # adler32(body)
          /\ AllPieces(other) = [AllPieces(body) EXCEPT ![n] = OneMore(msgPiece(body, n - 1), 1)]
        BY <2>1, LastPieceChanges
    <2>3. FlattenSeq(AllPieces(other)) = other
        BY <2>2, PiecesJoin
    <2> QED
        BY <1>1, <1>2, <1>3, <2>2, <2>3, Zenon
<1>4. CASE piece = AllPieces(body)[n] /\ sum = SumOf(body, n, n) + 1
    <2>1. [AllPieces(body) EXCEPT ![n] = piece] = AllPieces(body)
        BY <1>4 DEF AllPieces
    <2>2. FlattenSeq(AllPieces(body)) = body
        BY PiecesJoin
    <2>3. adler32(FlattenSeq([AllPieces(body) EXCEPT ![n] = piece])) = adler32(body)
        BY <2>1, <2>2, Zenon
    <2>4. sum = adler32(body) + 1
        BY <1>1, <1>4, Zenon
    <2>5. adler32(body) # sum
        BY <1>1, <2>4
    <2> QED
        BY <2>3, <2>5, Zenon
<1> QED
    BY <1>3, <1>4

\* A damaged last part is not delivered, whether the parts stay or not.
LEMMA SpoiltLast ==
    ASSUME NEW packets \in Seq(DecodedPacket), NEW uid \in Nat, NEW s, Ended(s, packets, uid),
           NEW body \in Seq(Nat), body # <<>>, NEW n \in Nat, n = totalParts(body),
           NEW f, PartCells(f, uid, body, n, n), NEW how \in Spoils
    PROVE  /\ IsMessage(Spoilt(f, how))
           /\ Ended(After(Holding(s, uid, body, 1..(n - 1)), Spoilt(f, how)), packets, uid + 1)
<1>1. PICK g : g = Spoilt(f, how)
    OBVIOUS
<1>2. SpoiltCells(g, uid, n, n, 7, body, how)
    <2>0. n \in 1..n
        BY TotalParts
    <2>1. SpoiltCells(Spoilt(f, how), uid, n, n, FlagsOf(n, n), body, how)
        BY <2>0, SpoiltPart
    <2>2. FlagsOf(n, n) = 7
        BY DEF FlagsOf
    <2> QED
        BY <1>1, <2>1, <2>2, Zenon
<1>3. PICK seq \in Nat, sum \in Nat, piece \in Seq(Nat) \ {<<>>} :
        /\ Cells(g, CHATMSG, uid, 7, seq, n, sum, piece)
        /\ \/ how = "seq" /\ seq = n
           \/ /\ how = "payload" /\ seq = n - 1 /\ sum = SumOf(body, n, n)
              /\ piece = OneMore(AllPieces(body)[n], 1)
           \/ /\ how = "checksum" /\ seq = n - 1 /\ sum = SumOf(body, n, n) + 1
              /\ piece = AllPieces(body)[n]
    BY <1>2, Zenon DEF SpoiltCells
<1>4. PICK h : h = Holding(s, uid, body, 1..(n - 1))
    OBVIOUS
<1>5. After(h, g) = AfterPart(h, uid, CHATMSG, seq, n, 7, sum, piece)
    BY <1>3, AfterLastFrame
<1>6. IsMessage(g)
    BY <1>3, CellsMessage
<1>7. Fresh(s, uid)
    BY EndedFresh
<1>8. Ended(AfterPart(h, uid, CHATMSG, seq, n, 7, sum, piece), packets, uid + 1)
    <2>1. CASE seq = n
        <3>1. seq >= n
            BY <2>1
        <3>2. AfterPart(Holding(s, uid, body, 1..(n - 1)), uid, CHATMSG, seq, n, 7, sum, piece) = s
            BY <1>7, <3>1, LastRefused
        <3>3. Ended(s, packets, uid + 1)
            BY EndedLater
        <3> QED
            BY <1>4, <3>2, <3>3, Zenon
    <2>2. CASE /\ seq = n - 1
               /\ \/ piece = OneMore(AllPieces(body)[n], 1) /\ sum = SumOf(body, n, n)
                  \/ piece = AllPieces(body)[n] /\ sum = SumOf(body, n, n) + 1
        <3>1. adler32(FlattenSeq([AllPieces(body) EXCEPT ![n] = piece])) # sum
            BY <2>2, SpoiltSum
        <3>2. piece # <<>>
            BY <1>3
        <3>3. AfterPart(Holding(s, uid, body, 1..(n - 1)), uid, CHATMSG, n - 1, n, 7, sum, piece) =
                  Kept(s, uid, [AllPieces(body) EXCEPT ![n] = piece])
            BY <1>7, <3>1, <3>2, LastWrong
        <3>4. Ended(Kept(s, uid, [AllPieces(body) EXCEPT ![n] = piece]), packets, uid + 1)
            BY KeptEnded
        <3> QED
            BY <1>4, <2>2, <3>3, <3>4, Zenon
    <2> QED
        BY <1>3, <2>1, <2>2, Zenon
<1> QED
    BY <1>1, <1>4, <1>5, <1>6, <1>8, Zenon

\* Every frame of a long body is one of its parts.
LEMMA PartOfFrames ==
    ASSUME NEW a \in Seq(Seq(Nat)), NEW n \in Nat, n = Len(a),
           NEW i \in 1..(n + 1), NEW j \in 0..n
    PROVE  SubSeq(a, i, j) \in Seq(Seq(Nat))
<1>1. \A k \in i..j : a[k] \in Seq(Nat)
    <2>1. \A k \in i..j : k \in 1..n
        OBVIOUS
    <2> QED
        BY <2>1, ElementOfSeq
<1> QED
    BY SubSeqProperties

\* 1..n is what is before k, k, and what is behind it.
LEMMA SplitAt ==
    ASSUME NEW a \in Seq(Seq(Nat)), NEW n \in Nat, n = Len(a), NEW i \in 1..n
    PROVE  SubSeq(a, i, n - 1) \o <<a[n]>> = SubSeq(a, i, n)
<1>1. n \in 1..n /\ n - 1 \in (i - 1)..n /\ n \in (n - 1)..n /\ (n - 1) + 1 = n /\ i \in 1..(n + 1)
    OBVIOUS
<1>2. SubSeq(a, i, n - 1) \o SubSeq(a, (n - 1) + 1, n) = SubSeq(a, i, n)
    BY <1>1, ConcatAdjacentSubSeq
<1>3. SubSeq(a, n, n) = <<a[n]>>
    <2>1. a[n] \in Seq(Nat)
        BY <1>1, ElementOfSeq
    <2>2. PICK x : x = SubSeq(a, n, n)
        OBVIOUS
    <2>3. PICK y : y = <<a[n]>>
        OBVIOUS
    <2>4. x \in Seq(Seq(Nat)) /\ Len(x) = 1 /\ \A k \in 1..1 : x[k] = a[n]
        BY <1>1, <2>2, SubSeqProperties
    <2>5. y \in Seq(Seq(Nat)) /\ Len(y) = 1 /\ \A k \in 1..1 : y[k] = a[n]
        BY <2>1, <2>3
    <2>6. x = y
        BY <2>4, <2>5, SeqEqual
    <2> QED
        BY <2>2, <2>3, <2>6
<1> QED
    BY <1>1, <1>2, <1>3, Zenon

\* After the part k has not come, the rest of the message is forgotten.
LEMMA RestForgotten ==
    ASSUME NEW packets \in Seq(DecodedPacket), NEW uid \in Nat, NEW s, Ended(s, packets, uid),
           NEW body \in Seq(Nat), body # <<>>, Len(body) > CHUNK_SIZE,
           NEW n \in Nat, n = totalParts(body),
           NEW frames \in Seq(Seq(Nat)), frames = encode(uid, body), Len(frames) = n,
           NEW k \in 1..(n - 1), NEW S, k \notin S
    PROVE  Reaches(Holding(s, uid, body, S), SubSeq(frames, k + 1, n), s, packets, uid + 1)
<1>1. k + 1 \in 1..n /\ n - 1 \in 0..(n - 1) /\ k + 1 <= (n - 1) + 1 /\ n \in Nat \ {0}
    OBVIOUS
<1>2. PICK T : T = S \cup ((k + 1)..(n - 1))
    OBVIOUS
<1>3. k \notin T
    BY <1>2
<1>4. PICK h : h = Holding(s, uid, body, T)
    OBVIOUS
<1>5. Reaches(Holding(s, uid, body, S), SubSeq(frames, k + 1, n - 1), h, packets, uid + 1)
    <2>1. Reaches(Holding(s, uid, body, S), SubSeq(encode(uid, body), k + 1, n - 1),
                  Holding(s, uid, body, S \cup ((k + 1)..(n - 1))), packets, uid + 1)
        BY <1>1, MiddlesArrive
    <2> QED
        BY <1>2, <1>4, <2>1, Zenon
<1>6. Fresh(s, uid)
    BY EndedFresh
<1>7. PartCells(frames[n], uid, body, n, n)
    <2>1. \A j \in 1..n : PartCells(frames[j], uid, body, j, n)
        BY LongFrames
    <2> QED
        BY <1>1, <2>1
<1>8. After(h, frames[n]) = s
    <2>1. PICK piece : piece = AllPieces(body)[n]
        OBVIOUS
    <2>2. PICK sum : sum = adler32(body)
        OBVIOUS
    <2>3. PICK seq \in Nat : seq = n - 1
        <3>1. n - 1 \in Nat
            BY <1>1
        <3> QED
            BY <3>1, Zenon
    <2>4. Cells(frames[n], CHATMSG, uid, 7, seq, n, sum, piece)
        BY <1>7, <2>1, <2>2, <2>3, Zenon DEF PartCells, FlagsOf, SumOf
    <2>5. After(h, frames[n]) = AfterPart(h, uid, CHATMSG, seq, n, 7, sum, piece)
        BY <2>4, AfterLastFrame
    <2>6. seq = n - 1 /\ \E j \in 1..(n - 1) : j \notin T
        BY <1>3, <2>3
    <2>7. AfterPart(Holding(s, uid, body, T), uid, CHATMSG, seq, n, 7, sum, piece) = s
        BY <1>6, <2>6, LastRefused
    <2> QED
        BY <1>4, <2>5, <2>7, Zenon
<1>9. Good(h, packets, uid + 1) /\ Good(s, packets, uid + 1)
    <2>1. Ended(h, packets, uid + 1)
        BY <1>4, HoldingEnded
    <2>2. Ended(s, packets, uid + 1)
        BY EndedLater
    <2> QED
        BY <2>1, <2>2 DEF Ended
<1>10. Reaches(h, <<frames[n]>>, s, packets, uid + 1)
    BY <1>8, <1>9, ReachesOne
<1>11. PICK a \in Seq(Seq(Nat)) : a = SubSeq(frames, k + 1, n - 1)
    <2>1. k + 1 \in 1..(n + 1) /\ n - 1 \in 0..n
        BY <1>1
    <2>2. SubSeq(frames, k + 1, n - 1) \in Seq(Seq(Nat))
        BY <2>1, PartOfFrames
    <2> QED
        BY <2>2
<1>12. <<frames[n]>> \in Seq(Seq(Nat))
    BY <1>1, SplitLast
<1>13. Reaches(Holding(s, uid, body, S), a \o <<frames[n]>>, s, packets, uid + 1)
    BY <1>5, <1>10, <1>11, <1>12, ReachesConcat
<1>14. a \o <<frames[n]>> = SubSeq(frames, k + 1, n)
    <2>1. SubSeq(frames, k + 1, n - 1) \o <<frames[n]>> = SubSeq(frames, k + 1, n)
        BY <1>1, SplitAt
    <2> QED
        BY <1>11, <2>1, Zenon
<1> QED
    BY <1>13, <1>14, Zenon

\* Nothing more is out after the frames.
Ends(s, frames, packets, later) ==
    \E t : Reaches(s, frames, t, packets, later) /\ Ended(t, packets, later)

\* What stands for the part k is mid.
Around(frames, k, mid) ==
    (SubSeq(frames, 1, k - 1) \o mid) \o SubSeq(frames, k + 1, Len(frames))

\* A long message with one frame damaged gives nothing.
LEMMA DamagedLong ==
    ASSUME NEW packets \in Seq(DecodedPacket), NEW uid \in Nat, NEW s, Ended(s, packets, uid),
           NEW body \in Seq(Nat), body # <<>>, Len(body) > CHUNK_SIZE,
           NEW n \in Nat, n = totalParts(body),
           NEW frames \in Seq(Seq(Nat)), frames = encode(uid, body), Len(frames) = n,
           NEW k \in 1..n, NEW mid \in Seq(Seq(Nat)), NEW t,
           Reaches(Holding(s, uid, body, 1..(k - 1)), mid, t, packets, uid + 1),
           \/ k = n /\ Ended(t, packets, uid + 1)
           \/ k # n /\ \E S : k \notin S /\ t = Holding(s, uid, body, S)
    PROVE  Ends(s, Around(frames, k, mid), packets, uid + 1)
<1>1. PICK h : h = Holding(s, uid, body, 1..(k - 1))
    OBVIOUS
<1>2. Reaches(s, SubSeq(frames, 1, k - 1), h, packets, uid + 1)
    <2>1. 1 \in 1..n /\ k - 1 \in 0..(n - 1) /\ 1 <= (k - 1) + 1
        OBVIOUS
    <2>2. Reaches(Holding(s, uid, body, {}), SubSeq(encode(uid, body), 1, k - 1),
                  Holding(s, uid, body, {} \cup (1..(k - 1))), packets, uid + 1)
        BY <2>1, MiddlesArrive
    <2>3. Holding(s, uid, body, {}) = s /\ {} \cup (1..(k - 1)) = 1..(k - 1)
        BY DEF Holding
    <2> QED
        BY <1>1, <2>2, <2>3, Zenon
<1>3. PICK a \in Seq(Seq(Nat)) : a = SubSeq(frames, 1, k - 1)
    <2>1. 1 \in 1..(n + 1) /\ k - 1 \in 0..n
        OBVIOUS
    <2>2. SubSeq(frames, 1, k - 1) \in Seq(Seq(Nat))
        BY <2>1, PartOfFrames
    <2> QED
        BY <2>2
<1>4. PICK b \in Seq(Seq(Nat)) : b = SubSeq(frames, k + 1, n)
    <2>1. k + 1 \in 1..(n + 1) /\ n \in 0..n
        OBVIOUS
    <2>2. SubSeq(frames, k + 1, n) \in Seq(Seq(Nat))
        BY <2>1, PartOfFrames
    <2> QED
        BY <2>2
<1>5. PICK c \in Seq(Seq(Nat)) : c = a \o mid
    BY ConcatProperties
<1>6. Reaches(s, c, t, packets, uid + 1)
    BY <1>1, <1>2, <1>3, <1>5, ReachesConcat
<1>7. PICK u : Reaches(t, b, u, packets, uid + 1) /\ Ended(u, packets, uid + 1)
    <2>1. CASE k = n /\ Ended(t, packets, uid + 1)
        <3>1. b = <<>>
            <4>1. ~(k + 1 <= n)
                BY <2>1
            <4>2. Len(b) = 0
                BY <1>4, <4>1, SubSeqEmpty
            <4> QED
                BY <4>2, EmptySeq
        <3>2. Good(t, packets, uid + 1)
            BY <2>1 DEF Ended
        <3>3. Reaches(t, <<>>, t, packets, uid + 1)
            BY <3>2, ReachesNone
        <3> QED
            BY <2>1, <3>1, <3>3, Zenon
    <2>2. CASE k # n /\ \E S : k \notin S /\ t = Holding(s, uid, body, S)
        <3>1. PICK S : k \notin S /\ t = Holding(s, uid, body, S)
            BY <2>2
        <3>2. k \in 1..(n - 1)
            BY <2>2
        <3>3. Reaches(Holding(s, uid, body, S), SubSeq(frames, k + 1, n), s, packets, uid + 1)
            BY <3>1, <3>2, RestForgotten
        <3>4. Ended(s, packets, uid + 1)
            BY EndedLater
        <3> QED
            BY <1>4, <3>1, <3>3, <3>4, Zenon
    <2> QED
        BY <2>1, <2>2
<1>8. Reaches(s, c \o b, u, packets, uid + 1)
    BY <1>6, <1>7, ReachesConcat
<1>9. Around(frames, k, mid) = c \o b
    BY <1>3, <1>4, <1>5, Zenon DEF Around
<1> QED
    BY <1>7, <1>8, <1>9, Zenon DEF Ends

\* A message of one frame that does not come, or comes damaged.
LEMMA DamagedShort ==
    ASSUME NEW packets \in Seq(DecodedPacket), NEW uid \in Nat, NEW s, Ended(s, packets, uid),
           NEW f \in Seq(Nat), NEW mid \in Seq(Seq(Nat)),
           mid = <<>> \/ \E g : mid = <<g>> /\ After(s, g) = s
    PROVE  Ends(s, Around(<<f>>, 1, mid), packets, uid + 1)
<1>1. Ended(s, packets, uid + 1)
    BY EndedLater
<1>2. Good(s, packets, uid + 1)
    BY <1>1 DEF Ended
<1>3. Reaches(s, mid, s, packets, uid + 1)
    <2>1. CASE mid = <<>>
        BY <1>2, <2>1, ReachesNone
    <2>2. CASE \E g : mid = <<g>> /\ After(s, g) = s
        <3>1. PICK g : mid = <<g>> /\ After(s, g) = s
            BY <2>2
        <3>2. Reaches(s, <<g>>, s, packets, uid + 1)
            BY <1>2, <3>1, ReachesOne
        <3> QED
            BY <3>1, <3>2, Zenon
    <2> QED
        BY <2>1, <2>2
<1>4. Around(<<f>>, 1, mid) = mid
    <2>1. SubSeq(<<f>>, 1, 1 - 1) = <<>> /\ SubSeq(<<f>>, 1 + 1, Len(<<f>>)) = <<>>
        BY SubSeqEmpty
    <2>2. <<>> \o mid = mid /\ mid \o <<>> = mid
        BY ConcatEmptySeq
    <2> QED
        BY <2>1, <2>2, Zenon DEF Around
<1> QED
    BY <1>1, <1>3, <1>4, Zenon DEF Ends

\* Damaged, as what stands around the frame.
LEMMA DamagedAround ==
    ASSUME NEW frames \in Seq(Seq(Nat)), NEW k \in 1..Len(frames), NEW how \in Spoils
    PROVE  /\ Damaged(frames, k, "missing") = Around(frames, k, <<>>)
           /\ Spoilt(frames[k], how) \in Seq(Nat) =>
                  Damaged(frames, k, how) = Around(frames, k, <<Spoilt(frames[k], how)>>)
<1>1. PICK n \in Nat : n = Len(frames)
    BY LenProperties
<1>2. Damaged(frames, k, "missing") = Around(frames, k, <<>>)
    <2>1. RemoveAt(frames, k) = (SubSeq(frames, 1, k - 1) \o <<>>) \o SubSeq(frames, k + 1, n)
        BY <1>1, RemoveIs
    <2>2. Damaged(frames, k, "missing") = RemoveAt(frames, k)
        BY DamagedIs
    <2> QED
        BY <1>1, <2>1, <2>2, Zenon DEF Around
<1>3. ASSUME NEW bad \in Seq(Nat), bad = Spoilt(frames[k], how)
      PROVE  Damaged(frames, k, how) = Around(frames, k, <<bad>>)
    <2>1. Put(frames, k, bad) = (SubSeq(frames, 1, k - 1) \o <<bad>>) \o SubSeq(frames, k + 1, n)
        BY <1>1, PutIs
    <2>2. Damaged(frames, k, how) = Put(frames, k, Spoilt(frames[k], how))
        BY DamagedIs
    <2> QED
        BY <1>1, <1>3, <2>1, <2>2, Zenon DEF Around
<1> QED
    BY <1>2, <1>3

\* What stands around a frame is frames.
LEMMA AroundFrames ==
    ASSUME NEW frames, Frames(frames), NEW k \in 1..Len(frames), NEW mid, Frames(mid)
    PROVE  Frames(Around(frames, k, mid))
<1>1. PICK n \in Nat : n = Len(frames)
    BY LenProperties DEF Frames
<1>2. Frames(SubSeq(frames, 1, k - 1)) /\ Frames(SubSeq(frames, k + 1, n))
    <2>1. 1 \in 1..(n + 1) /\ k - 1 \in 0..n /\ 1 <= (k - 1) + 1
        BY <1>1
    <2>2. k + 1 \in 1..(n + 1) /\ n \in 0..n /\ k + 1 <= n + 1
        BY <1>1
    <2> QED
        BY <1>1, <2>1, <2>2, FramesSub
<1>3. Frames(SubSeq(frames, 1, k - 1) \o mid)
    BY <1>2, FramesConcat
<1>4. Frames((SubSeq(frames, 1, k - 1) \o mid) \o SubSeq(frames, k + 1, n))
    BY <1>2, <1>3, FramesConcat
<1> QED
    BY <1>1, <1>4, Zenon DEF Around

FramesEnd(s, frames, packets, later) == Frames(frames) /\ Ends(s, frames, packets, later)

\* A message with a frame missing gives nothing and disturbs nothing.
LEMMA MissingArrives ==
    ASSUME NEW packets \in Seq(DecodedPacket), NEW uid \in Nat, NEW s, Ended(s, packets, uid),
           NEW body \in Seq(Nat), body # <<>>, NEW k \in 1..Len(encode(uid, body))
    PROVE  FramesEnd(s, Damaged(encode(uid, body), k, "missing"), packets, uid + 1)
<1>1. PICK frames \in Seq(Seq(Nat)) : frames = encode(uid, body) /\ Frames(frames)
    BY EncodeFrames DEF Frames
<1>2. Damaged(frames, k, "missing") = Around(frames, k, <<>>)
    <2>1. "seq" \in Spoils
        BY DEF Spoils
    <2> QED
        BY <1>1, <2>1, DamagedAround
<1>3. <<>> \in Seq(Seq(Nat)) /\ Frames(<<>>)
    BY DEF Frames
<1>4. Frames(Around(frames, k, <<>>))
    BY <1>1, <1>3, AroundFrames
<1>5. Ends(s, Around(frames, k, <<>>), packets, uid + 1)
    <2>1. CASE ~(Len(body) > CHUNK_SIZE)
        <3>1. PICK f \in Seq(Nat) : frames = <<f>>
            BY <1>1, <2>1, ShortFrame
        <3>2. k = 1
            BY <1>1, <3>1
        <3>3. Ends(s, Around(<<f>>, 1, <<>>), packets, uid + 1)
            BY <1>3, DamagedShort
        <3> QED
            BY <3>1, <3>2, <3>3, Zenon
    <2>2. CASE Len(body) > CHUNK_SIZE
        <3>1. PICK n \in Nat : n = totalParts(body)
            BY TotalParts
        <3>2. Len(frames) = n
            BY <1>1, <2>2, <3>1, LongFrames
        <3>3. PICK h : h = Holding(s, uid, body, 1..(k - 1))
            OBVIOUS
        <3>4. Ended(h, packets, uid + 1)
            BY <3>3, HoldingEnded
        <3>5. Good(h, packets, uid + 1)
            BY <3>4 DEF Ended
        <3>6. Reaches(h, <<>>, h, packets, uid + 1)
            BY <3>5, ReachesNone
        <3>7. k \in 1..n /\ k \notin 1..(k - 1)
            BY <1>1, <3>2
        <3>8. \/ k = n /\ Ended(h, packets, uid + 1)
              \/ k # n /\ \E S : k \notin S /\ h = Holding(s, uid, body, S)
            BY <3>3, <3>4, <3>7, Zenon
        <3> QED
            BY <1>1, <1>3, <2>2, <3>1, <3>2, <3>3, <3>6, <3>7, <3>8, DamagedLong
    <2> QED
        BY <2>1, <2>2
<1> QED
    BY <1>1, <1>2, <1>4, <1>5, Zenon DEF FramesEnd

\* A message with a frame spoilt gives nothing and disturbs nothing.
LEMMA SpoiltArrives ==
    ASSUME NEW packets \in Seq(DecodedPacket), NEW uid \in Nat, NEW s, Ended(s, packets, uid),
           NEW body \in Seq(Nat), body # <<>>, NEW k \in 1..Len(encode(uid, body)),
           NEW how \in Spoils, how = "seq" => Len(encode(uid, body)) > 1
    PROVE  FramesEnd(s, Damaged(encode(uid, body), k, how), packets, uid + 1)
<1>1. PICK frames \in Seq(Seq(Nat)) : frames = encode(uid, body) /\ Frames(frames)
    BY EncodeFrames DEF Frames
<1>2. PICK bad : bad = Spoilt(frames[k], how)
    OBVIOUS
<1>3. PICK mid : mid = <<bad>>
    OBVIOUS
<1>4. Fresh(s, uid)
    BY EndedFresh
<1>5. ASSUME IsMessage(bad)
      PROVE  /\ mid \in Seq(Seq(Nat)) /\ Frames(mid) /\ bad \in Seq(Nat)
             /\ Damaged(frames, k, how) = Around(frames, k, mid)
             /\ Frames(Around(frames, k, mid))
    <2>1. bad \in Seq(Nat)
        BY <1>5 DEF IsMessage, IsFrame
    <2>2. Frames(mid)
        BY <1>3, <1>5, <2>1, FramesOne
    <2>3. mid \in Seq(Seq(Nat))
        BY <2>2 DEF Frames
    <2>4. Frames(Around(frames, k, mid))
        BY <1>1, <2>2, AroundFrames
    <2>5. Damaged(frames, k, how) = Around(frames, k, <<bad>>)
        BY <1>1, <1>2, <2>1, DamagedAround
    <2> QED
        BY <1>3, <2>1, <2>2, <2>3, <2>4, <2>5, Zenon
<1>6. IsMessage(bad) /\ Ends(s, Around(frames, k, mid), packets, uid + 1)
    <2>1. CASE ~(Len(body) > CHUNK_SIZE)
        <3>1. PICK f \in Seq(Nat) :
                  /\ frames = <<f>>
                  /\ Cells(f, CHATMSG, uid, 2, 0, 0, adler32(body), body)
            BY <1>1, <2>1, ShortFrame
        <3>2. k = 1 /\ frames[k] = f /\ how # "seq"
            BY <1>1, <3>1
        <3>3. how \in {"payload", "checksum"}
            BY <3>2 DEF Spoils
        <3>4. IsMessage(bad) /\ After(s, bad) = s
            <4>1. IsMessage(Spoilt(f, how)) /\ After(s, Spoilt(f, how)) = s
                BY <1>4, <3>1, <3>3, SpoiltWhole
            <4> QED
                BY <1>2, <3>2, <4>1, Zenon
        <3>5. mid \in Seq(Seq(Nat))
            BY <1>5, <3>4
        <3>6. \E g : mid = <<g>> /\ After(s, g) = s
            BY <1>3, <3>4, Zenon
        <3>7. Ends(s, Around(<<f>>, 1, mid), packets, uid + 1)
            BY <3>5, <3>6, DamagedShort
        <3> QED
            BY <3>1, <3>2, <3>4, <3>7, Zenon
    <2>2. CASE Len(body) > CHUNK_SIZE
        <3>1. PICK n \in Nat : n = totalParts(body)
            BY TotalParts
        <3>2. Len(frames) = n /\ \A j \in 1..n : PartCells(frames[j], uid, body, j, n)
            BY <1>1, <2>2, <3>1, LongFrames
        <3>3. k \in 1..n
            BY <1>1, <3>2
        <3>4. PICK f : f = frames[k] /\ PartCells(f, uid, body, k, n)
            BY <3>2, <3>3
        <3>5. PICK h : h = Holding(s, uid, body, 1..(k - 1))
            OBVIOUS
        <3>6. Ended(h, packets, uid + 1)
            BY <3>5, HoldingEnded
        <3>7. PICK t : t = After(h, bad)
            OBVIOUS
        <3>8. /\ IsMessage(bad) /\ Ended(t, packets, uid + 1)
              /\ \/ k = n /\ Ended(t, packets, uid + 1)
                 \/ k # n /\ \E S : k \notin S /\ t = Holding(s, uid, body, S)
            <4>1. CASE k = n
                <5>1. PartCells(f, uid, body, n, n)
                    BY <3>4, <4>1
                <5>2. /\ IsMessage(Spoilt(f, how))
                      /\ Ended(After(Holding(s, uid, body, 1..(n - 1)), Spoilt(f, how)),
                               packets, uid + 1)
                    BY <3>1, <5>1, SpoiltLast
                <5> QED
                    BY <1>2, <3>4, <3>5, <3>7, <4>1, <5>2, Zenon
            <4>2. CASE k # n
                <5>1. PICK S : S = 1..(k - 1)
                    OBVIOUS
                <5>5. RefusesPart(s, uid, body, S, Spoilt(f, how))
                    BY <1>4, <3>1, <3>3, <3>4, <4>2, SpoiltMiddle
                <5>2. IsMessage(Spoilt(f, how)) /\
                      After(Holding(s, uid, body, S), Spoilt(f, how)) = s
                    BY <5>5 DEF RefusesPart
                <5>3. s = Holding(s, uid, body, {}) /\ k \notin {}
                    BY DEF Holding
                <5>4. Ended(s, packets, uid + 1)
                    BY EndedLater
                <5> QED
                    BY <1>2, <3>4, <3>5, <3>7, <4>2, <5>1, <5>2, <5>3, <5>4, Zenon
            <4> QED
                BY <4>1, <4>2
        <3>9. Good(h, packets, uid + 1) /\ Good(t, packets, uid + 1)
            BY <3>6, <3>8 DEF Ended
        <3>10. Reaches(h, mid, t, packets, uid + 1)
            BY <1>3, <3>7, <3>9, ReachesOne
        <3>11. mid \in Seq(Seq(Nat))
            BY <1>5, <3>8
        <3>12. \/ k = n /\ Ended(t, packets, uid + 1)
               \/ k # n /\ \E S : k \notin S /\ t = Holding(s, uid, body, S)
            BY <3>8
        <3>13. Ends(s, Around(frames, k, mid), packets, uid + 1)
            BY <1>1, <2>2, <3>1, <3>2, <3>3, <3>5, <3>10, <3>11, <3>12, DamagedLong
        <3> QED
            BY <3>8, <3>13
    <2> QED
        BY <2>1, <2>2
<1> QED
    BY <1>1, <1>5, <1>6, Zenon DEF FramesEnd

-----------------------------------------------------------------------------
(* What is left of a message when the frames before were lost.             *)

\* Frames that lead from any state of Q into Q.
LEMMA StaysIn ==
    ASSUME NEW fs \in Seq(Seq(Nat)), NEW n \in Nat, n = Len(fs), NEW Q, NEW x \in Q,
           NEW packets, NEW later, \A y \in Q : Good(y, packets, later),
           \A y \in Q, k \in 1..n : After(y, fs[k]) \in Q
    PROVE  \E t \in Q : Reaches(x, fs, t, packets, later)
<1> DEFINE step == [p \in Q \X (1..n) |-> After(p[1], fs[p[2]])]
<1>1. step \in [Q \X (1..n) -> Q]
    OBVIOUS
<1>2. PICK run \in [0..n -> Q] : Iterates(run, x, step, n)
    BY <1>1, IterationExists
<1>3. ASSUME NEW k \in 1..n
      PROVE  run[k] = After(run[k - 1], fs[k])
    <2>1. run[k - 1] \in Q
        <3> HIDE DEF step
        <3>1. k - 1 \in 0..n
            OBVIOUS
        <3> QED
            BY <1>2, <3>1
    <2>2. run[k] = step[<<run[k - 1], k>>]
        BY <1>2, Zenon DEF Iterates
    <2>3. step[<<run[k - 1], k>>] = After(run[k - 1], fs[k])
        BY <2>1
    <2> QED
        BY <2>2, <2>3, Zenon
<1> HIDE DEF step
<1>4. run[0] = x
    BY <1>2, Zenon DEF Iterates
<1>5. PICK t \in Q : t = run[n]
    OBVIOUS
<1>6. \A k \in 0..n : Good(run[k], packets, later)
    OBVIOUS
<1>7. Goes(run, x, fs, n, t, packets, later)
    BY <1>3, <1>4, <1>5, <1>6, Zenon DEF Goes
<1> QED
    BY <1>5, <1>7, Zenon DEF Reaches

\* The states in which some parts of the message are kept, but not its first.
LateStates(s, id, body) == {Holding(s, id, body, S) : S \in SUBSET (2..totalParts(body))}

\* A part of a long body behind the first, or such a part damaged.
IsLate(f, id, body) ==
    \E k \in 2..totalParts(body) :
        \/ PartCells(f, id, body, k, totalParts(body))
        \/ \E how \in Spoils, g \in Seq(Nat) :
              PartCells(g, id, body, k, totalParts(body)) /\ f = Spoilt(g, how)

\* Without the first part, the last makes decode forget the message.
LEMMA LateLast ==
    ASSUME NEW s, NEW id, Fresh(s, id), NEW body \in Seq(Nat), body # <<>>, NEW S, 1 \notin S,
           NEW n \in Nat, n = totalParts(body), n > 1,
           NEW f, PartCells(f, id, body, n, n)
    PROVE  After(Holding(s, id, body, S), f) = s
<1>1. PICK piece : piece = AllPieces(body)[n]
    OBVIOUS
<1>2. PICK sum : sum = adler32(body)
    OBVIOUS
<1>3. PICK seq \in Nat : seq = n - 1
    <2>1. n - 1 \in Nat
        OBVIOUS
    <2> QED
        BY <2>1, Zenon
<1>4. Cells(f, CHATMSG, id, 7, seq, n, sum, piece)
    BY <1>1, <1>2, <1>3, Zenon DEF PartCells, FlagsOf, SumOf
<1>5. PICK h : h = Holding(s, id, body, S)
    OBVIOUS
<1>6. After(h, f) = AfterPart(h, id, CHATMSG, seq, n, 7, sum, piece)
    BY <1>4, AfterLastFrame
<1>7. seq = n - 1 /\ \E j \in 1..(n - 1) : j \notin S
    <2>1. 1 \in 1..(n - 1)
        OBVIOUS
    <2> QED
        BY <1>3, <2>1
<1>8. AfterPart(Holding(s, id, body, S), id, CHATMSG, seq, n, 7, sum, piece) = s
    BY <1>7, LastRefused
<1> QED
    BY <1>5, <1>6, <1>8, Zenon

\* So does a damaged last.
LEMMA LateSpoiltLast ==
    ASSUME NEW s, NEW id, Fresh(s, id), NEW body \in Seq(Nat), body # <<>>, NEW S, 1 \notin S,
           NEW n \in Nat, n = totalParts(body), n > 1,
           NEW f, PartCells(f, id, body, n, n), NEW how \in Spoils
    PROVE  After(Holding(s, id, body, S), Spoilt(f, how)) = s
<1>1. PICK g : g = Spoilt(f, how)
    OBVIOUS
<1>2. SpoiltCells(g, id, n, n, 7, body, how)
    <2>1. n \in 1..n
        OBVIOUS
    <2>2. SpoiltCells(Spoilt(f, how), id, n, n, FlagsOf(n, n), body, how)
        BY <2>1, SpoiltPart
    <2>3. FlagsOf(n, n) = 7
        BY DEF FlagsOf
    <2> QED
        BY <1>1, <2>2, <2>3, Zenon
<1>3. PICK seq \in Nat, sum \in Nat, piece \in Seq(Nat) \ {<<>>} :
          Cells(g, CHATMSG, id, 7, seq, n, sum, piece) /\ (seq = n \/ seq = n - 1)
    BY <1>2, Zenon DEF SpoiltCells
<1>4. PICK h : h = Holding(s, id, body, S)
    OBVIOUS
<1>5. After(h, g) = AfterPart(h, id, CHATMSG, seq, n, 7, sum, piece)
    BY <1>3, AfterLastFrame
<1>6. seq >= n \/ (seq = n - 1 /\ \E j \in 1..(n - 1) : j \notin S)
    <2>1. 1 \in 1..(n - 1)
        OBVIOUS
    <2> QED
        BY <1>3, <2>1
<1>7. AfterPart(Holding(s, id, body, S), id, CHATMSG, seq, n, 7, sum, piece) = s
    BY <1>6, LastRefused
<1> QED
    BY <1>1, <1>4, <1>5, <1>7, Zenon

\* A late part leaves the message without its first part.
LEMMA LateStays ==
    ASSUME NEW s, NEW id, Fresh(s, id), NEW body \in Seq(Nat), body # <<>>,
           NEW y \in LateStates(s, id, body), NEW f, IsLate(f, id, body)
    PROVE  After(y, f) \in LateStates(s, id, body)
<1>1. PICK n \in Nat : n = totalParts(body)
    BY TotalParts
<1>2. PICK S \in SUBSET (2..n) : y = Holding(s, id, body, S)
    BY <1>1, Zenon DEF LateStates
<1>3. PICK k \in 2..n :
          \/ PartCells(f, id, body, k, n)
          \/ \E how \in Spoils, g \in Seq(Nat) : PartCells(g, id, body, k, n) /\ f = Spoilt(g, how)
    BY <1>1, Zenon DEF IsLate
<1>4. k \in 1..n /\ n > 1 /\ 1 \notin S /\ S \cup {k} \in SUBSET (2..n) /\ {} \in SUBSET (2..n)
    BY <1>2, <1>3
<1>5. s \in LateStates(s, id, body)
    <2>1. s = Holding(s, id, body, {})
        BY DEF Holding
    <2> QED
        BY <1>1, <1>4, <2>1, Zenon DEF LateStates
<1>6. ASSUME PartCells(f, id, body, k, n), k # n
      PROVE  After(y, f) \in LateStates(s, id, body)
    <2>1. KeepsPart(s, id, body, S, k, f)
        BY <1>1, <1>4, <1>6, MiddleFrame
    <2> QED
        BY <1>1, <1>2, <1>4, <2>1, Zenon DEF KeepsPart, LateStates
<1>7. ASSUME PartCells(f, id, body, k, n), k = n
      PROVE  After(y, f) \in LateStates(s, id, body)
    <2>1. PartCells(f, id, body, n, n)
        BY <1>7
    <2>2. After(Holding(s, id, body, S), f) = s
        BY <1>1, <1>4, <2>1, LateLast
    <2> QED
        BY <1>2, <1>5, <2>2, Zenon
<1>8. ASSUME NEW g, NEW how \in Spoils, PartCells(g, id, body, k, n), f = Spoilt(g, how)
      PROVE  After(y, f) \in LateStates(s, id, body)
    <2>1. CASE k # n
        <3>1. RefusesPart(s, id, body, S, Spoilt(g, how))
            BY <1>1, <1>4, <1>8, <2>1, SpoiltMiddle
        <3> QED
            BY <1>2, <1>5, <1>8, <3>1, Zenon DEF RefusesPart
    <2>2. CASE k = n
        <3>1. PartCells(g, id, body, n, n)
            BY <1>8, <2>2
        <3>2. After(Holding(s, id, body, S), Spoilt(g, how)) = s
            BY <1>1, <1>4, <1>8, <3>1, LateSpoiltLast
        <3> QED
            BY <1>2, <1>5, <1>8, <3>2, Zenon
    <2> QED
        BY <2>1, <2>2
<1> QED
    BY <1>3, <1>6, <1>7, <1>8

Lates(fs, id, body) ==
    fs \in Seq(Seq(Nat)) /\ \A k \in 1..Len(fs) : IsLate(fs[k], id, body)

\* Late parts give nothing.
LEMMA LatesArrive ==
    ASSUME NEW packets \in Seq(DecodedPacket), NEW uid \in Nat, NEW s, Ended(s, packets, uid),
           NEW body \in Seq(Nat), body # <<>>, NEW fs, Lates(fs, uid, body)
    PROVE  \E S : 1 \notin S /\ Reaches(s, fs, Holding(s, uid, body, S), packets, uid + 1)
<1>1. PICK n \in Nat : n = Len(fs)
    BY LenProperties DEF Lates
<1>2. PICK later : later = uid + 1
    OBVIOUS
<1>3. PICK Q : Q = LateStates(s, uid, body)
    OBVIOUS
<1>4. s \in Q
    <2>1. s = Holding(s, uid, body, {}) /\ {} \in SUBSET (2..totalParts(body))
        BY DEF Holding
    <2> QED
        BY <1>3, <2>1, Zenon DEF LateStates
<1>5. ASSUME NEW y \in Q
      PROVE  Good(y, packets, later)
    <2>1. PICK S : y = Holding(s, uid, body, S)
        BY <1>3, <1>5, Zenon DEF LateStates
    <2>2. Ended(Holding(s, uid, body, S), packets, uid + 1)
        BY HoldingEnded
    <2> QED
        BY <1>2, <2>1, <2>2, Zenon DEF Ended
<1>6. ASSUME NEW y \in Q, NEW k \in 1..n
      PROVE  After(y, fs[k]) \in Q
    <2>1. IsLate(fs[k], uid, body)
        BY <1>1, <1>6 DEF Lates
    <2>2. Fresh(s, uid)
        BY EndedFresh
    <2>3. y \in LateStates(s, uid, body)
        BY <1>3, <1>6
    <2>4. After(y, fs[k]) \in LateStates(s, uid, body)
        BY <2>1, <2>2, <2>3, LateStays
    <2> QED
        BY <1>3, <2>4, Zenon
<1>7. fs \in Seq(Seq(Nat))
    BY Zenon DEF Lates
<1>8. PICK t \in Q : Reaches(s, fs, t, packets, later)
    BY <1>1, <1>4, <1>5, <1>6, <1>7, StaysIn
<1>9. PICK S \in SUBSET (2..totalParts(body)) : t = Holding(s, uid, body, S)
    BY <1>3, <1>8, Zenon DEF LateStates
<1>10. 1 \notin S
    <2>1. 1 \notin 2..totalParts(body)
        BY TotalParts
    <2> QED
        BY <1>9, <2>1
<1> QED
    BY <1>2, <1>8, <1>9, <1>10, Zenon

\* Late parts of a message, and nothing more is out.
LEMMA LatesEnd ==
    ASSUME NEW packets \in Seq(DecodedPacket), NEW uid \in Nat, NEW s, Ended(s, packets, uid),
           NEW body \in Seq(Nat), body # <<>>, NEW fs, Lates(fs, uid, body)
    PROVE  Ends(s, fs, packets, uid + 1)
<1>1. PICK S : 1 \notin S /\ Reaches(s, fs, Holding(s, uid, body, S), packets, uid + 1)
    BY LatesArrive
<1>2. Ended(Holding(s, uid, body, S), packets, uid + 1)
    BY HoldingEnded
<1> QED
    BY <1>1, <1>2, Zenon DEF Ends

\* The frames of fs behind the first j.
Behind(fs, j) == SubSeq(fs, j + 1, Len(fs))

\* They are a sequence, and each stands in fs j places on.
LEMMA BehindIs ==
    ASSUME NEW D, NEW fs \in Seq(D), NEW n \in Nat, n = Len(fs), NEW j \in 0..n
    PROVE  /\ Behind(fs, j) \in Seq(D) /\ Len(Behind(fs, j)) = n - j
           /\ \A i \in 1..(n - j) : Behind(fs, j)[i] = fs[i + j]
<1>1. PICK r : r = SubSeq(fs, j + 1, n) /\ r = Behind(fs, j)
    BY Zenon DEF Behind
<1>2. PICK a \in Int : a = j + 1
    OBVIOUS
<1>3. \A k \in a..n : fs[k] \in D
    <2>1. \A k \in a..n : k \in 1..Len(fs)
        BY <1>2
    <2> QED
        BY <2>1, ElementOfSeq
<1>4. /\ SubSeq(fs, a, n) \in Seq(D)
      /\ Len(SubSeq(fs, a, n)) = IF a <= n THEN n - a + 1 ELSE 0
      /\ \A i \in 1..(n - a + 1) : SubSeq(fs, a, n)[i] = fs[a + i - 1]
    BY <1>3, SubSeqProperties
<1>5. r \in Seq(D) /\ Len(r) = n - j
    BY <1>1, <1>2, <1>4
<1>6. ASSUME NEW i \in 1..(n - j)
      PROVE  r[i] = fs[i + j]
    <2>1. i \in 1..(n - a + 1) /\ a + i - 1 = i + j
        BY <1>2
    <2> QED
        BY <1>1, <1>2, <1>4, <2>1
<1> QED
    BY <1>1, <1>5, <1>6

\* Behind the first, all are late when fs is late from its second on.
LEMMA BehindLate ==
    ASSUME NEW fs \in Seq(Seq(Nat)), NEW n \in Nat, n = Len(fs), NEW id, NEW body,
           \A i \in 2..n : IsLate(fs[i], id, body), NEW j \in 1..n
    PROVE  Lates(Behind(fs, j), id, body)
<1>1. j \in 0..n
    OBVIOUS
<1>2. PICK r : r = Behind(fs, j)
    OBVIOUS
<1>3. r \in Seq(Seq(Nat)) /\ Len(r) = n - j /\ \A i \in 1..(n - j) : r[i] = fs[i + j]
    BY <1>1, <1>2, BehindIs
<1>4. ASSUME NEW i \in 1..(n - j)
      PROVE  IsLate(r[i], id, body)
    <2>1. i + j \in 2..n
        OBVIOUS
    <2> QED
        BY <1>3, <2>1
<1> QED
    BY <1>2, <1>3, <1>4 DEF Lates

\* Behind some frames of the first part of a concatenation.
LEMMA BehindFirst ==
    ASSUME NEW D, NEW a \in Seq(D), NEW b \in Seq(D), NEW n \in Nat, n = Len(a), NEW j \in 0..n
    PROVE  Behind(a \o b, j) = Behind(a, j) \o b
<1>1. PICK m \in Nat : m = Len(b)
    BY LenProperties
<1>2. PICK l \in Nat : l = n + m
    <2>1. n + m \in Nat
        OBVIOUS
    <2> QED
        BY <2>1, Zenon
<1>3. PICK c \in Seq(D) : c = a \o b
    BY ConcatProperties
<1>4. Len(c) = l /\ \A i \in 1..l : c[i] = IF i <= n THEN a[i] ELSE b[i - n]
    BY <1>1, <1>2, <1>3, ConcatProperties
<1>5. j \in 0..l
    BY <1>2
<1>6. PICK r : r = Behind(c, j)
    OBVIOUS
<1>7. r \in Seq(D) /\ Len(r) = l - j /\ \A i \in 1..(l - j) : r[i] = c[i + j]
    BY <1>4, <1>5, <1>6, BehindIs, ZenonT(30)
<1>8. PICK x : x = Behind(a, j)
    OBVIOUS
<1>9. x \in Seq(D) /\ Len(x) = n - j /\ \A i \in 1..(n - j) : x[i] = a[i + j]
    BY <1>8, BehindIs
<1>10. PICK y \in Seq(D) : y = x \o b
    BY <1>9, ConcatProperties
<1>11. /\ Len(y) = l - j
       /\ \A i \in 1..(l - j) : y[i] = IF i <= n - j THEN x[i] ELSE b[i - (n - j)]
    <2>1. Len(x) + Len(b) = l - j
        BY <1>1, <1>2, <1>9
    <2> QED
        BY <1>9, <1>10, <2>1, ConcatProperties
<1>12. ASSUME NEW i \in 1..(l - j)
       PROVE  y[i] = r[i]
    <2>1. i + j \in 1..l
        BY <1>2
    <2>2. r[i] = c[i + j]
        BY <1>7
    <2>3. CASE i <= n - j
        <3>1. i + j <= n /\ i \in 1..(n - j)
            BY <2>3
        <3>2. c[i + j] = a[i + j]
            BY <1>4, <2>1, <3>1
        <3>3. y[i] = x[i] /\ x[i] = a[i + j]
            BY <1>9, <1>11, <2>3, <3>1
        <3> QED
            BY <2>2, <3>2, <3>3
    <2>4. CASE ~(i <= n - j)
        <3>1. ~(i + j <= n) /\ (i + j) - n = i - (n - j)
            BY <2>4
        <3>2. c[i + j] = b[(i + j) - n]
            BY <1>4, <2>1, <3>1
        <3>3. y[i] = b[i - (n - j)]
            BY <1>11, <2>4
        <3> QED
            BY <2>2, <3>1, <3>2, <3>3
    <2> QED
        BY <2>3, <2>4
<1>13. Len(r) = Len(y)
    BY <1>7, <1>11
<1>14. \A i \in 1..Len(y) : y[i] = r[i]
    BY <1>11, <1>12
<1>15. y = r
    BY <1>7, <1>10, <1>13, <1>14, SeqEqual
<1> QED
    BY <1>3, <1>6, <1>8, <1>10, <1>15

\* Behind all of the first part and k frames of the second.
LEMMA BehindSecond ==
    ASSUME NEW D, NEW a \in Seq(D), NEW b \in Seq(D), NEW k \in 0..Len(b),
           NEW place, place = Len(a) + k
    PROVE  Behind(a \o b, place) = Behind(b, k)
<1> PICK n \in Nat : n = Len(a)
    BY LenProperties
<1> PICK m \in Nat : m = Len(b)
    BY LenProperties
<1>1. PICK j \in Nat : j = n + k /\ j = place
    OBVIOUS
<1>2. PICK l \in Nat : l = n + m
    <2>1. n + m \in Nat
        OBVIOUS
    <2> QED
        BY <2>1, Zenon
<1>3. PICK c \in Seq(D) : c = a \o b
    BY ConcatProperties
<1>4. Len(c) = l /\ \A i \in 1..l : c[i] = IF i <= n THEN a[i] ELSE b[i - n]
    BY <1>2, <1>3, ConcatProperties
<1>5. j \in 0..l /\ l - j = m - k
    BY <1>1, <1>2
<1>6. PICK r : r = Behind(c, j)
    OBVIOUS
<1>7. r \in Seq(D) /\ Len(r) = l - j /\ \A i \in 1..(l - j) : r[i] = c[i + j]
    <2>1. l = Len(c) /\ j \in 0..l
        BY <1>4, <1>5
    <2>2. /\ Behind(c, j) \in Seq(D) /\ Len(Behind(c, j)) = l - j
          /\ \A i \in 1..(l - j) : Behind(c, j)[i] = c[i + j]
        BY <2>1, BehindIs, ZenonT(30)
    <2> QED
        BY <1>6, <2>2, Zenon
<1>8. PICK x : x = Behind(b, k)
    OBVIOUS
<1>9. x \in Seq(D) /\ Len(x) = m - k /\ \A i \in 1..(m - k) : x[i] = b[i + k]
    BY <1>8, BehindIs
<1>10. ASSUME NEW i \in 1..(m - k)
       PROVE  x[i] = r[i]
    <2>1. i + j \in 1..l /\ ~(i + j <= n) /\ (i + j) - n = i + k /\ i \in 1..(l - j)
        BY <1>1, <1>2
    <2>2. r[i] = c[i + j]
        BY <1>7, <2>1
    <2>3. c[i + j] = b[(i + j) - n]
        BY <1>4, <2>1
    <2>4. x[i] = b[i + k]
        BY <1>9
    <2> QED
        BY <2>1, <2>2, <2>3, <2>4
<1>11. Len(r) = Len(x)
    BY <1>5, <1>7, <1>9
<1>12. \A i \in 1..Len(x) : x[i] = r[i]
    BY <1>9, <1>10
<1>13. x = r
    BY <1>7, <1>9, <1>11, <1>12, SeqEqual
<1> QED
    BY <1>1, <1>3, <1>6, <1>8, <1>13

\* Behind nothing is all, behind all is nothing.
LEMMA BehindEnds ==
    ASSUME NEW D, NEW fs \in Seq(D), NEW n \in Nat, n = Len(fs)
    PROVE  Behind(fs, 0) = fs /\ Behind(fs, n) = <<>>
<1>1. PICK r : r = Behind(fs, 0)
    OBVIOUS
<1>2. 0 \in 0..n /\ n \in 0..n
    OBVIOUS
<1>3. r \in Seq(D) /\ Len(r) = n - 0 /\ \A i \in 1..(n - 0) : r[i] = fs[i + 0]
    BY <1>1, <1>2, BehindIs
<1>4. Len(r) = Len(fs) /\ \A i \in 1..Len(fs) : fs[i] = r[i]
    BY <1>3
<1>5. r = fs
    BY <1>3, <1>4, SeqEqual
<1>6. Behind(fs, n) \in Seq(D) /\ Len(Behind(fs, n)) = n - n
    BY <1>2, BehindIs
<1>7. Behind(fs, n) = <<>>
    BY <1>6, EmptySeq
<1> QED
    BY <1>1, <1>5, <1>7

\* Frames of a message that are late from the second on.
LateBehind(fs, id, body) ==
    fs \in Seq(Seq(Nat)) /\ \A i \in 2..Len(fs) : IsLate(fs[i], id, body)

\* The frames of a message behind its first.
LEMMA EncodeParts ==
    ASSUME NEW id \in Nat, NEW body \in Seq(Nat), body # <<>>,
           NEW n \in Nat, n = Len(encode(id, body)), NEW k \in 2..n
    PROVE  /\ Len(body) > CHUNK_SIZE /\ n = totalParts(body)
           /\ PartCells(encode(id, body)[k], id, body, k, n)
<1>1. Len(encode(id, body)) > 1
    OBVIOUS
<1>2. Len(body) > CHUNK_SIZE
    BY <1>1, LongEncode
<1>3. PICK p \in Nat : p = totalParts(body)
    BY TotalParts
<1>4. Len(encode(id, body)) = p /\ \A i \in 1..p : PartCells(encode(id, body)[i], id, body, i, p)
    BY <1>2, <1>3, LongFrames
<1>5. n = p /\ k \in 1..p
    BY <1>4
<1> QED
    BY <1>2, <1>3, <1>4, <1>5

\* They are late.
LEMMA EncodeLate ==
    ASSUME NEW id \in Nat, NEW body \in Seq(Nat), body # <<>>
    PROVE  LateBehind(encode(id, body), id, body)
<1>1. PICK frames \in Seq(Seq(Nat)) : frames = encode(id, body)
    BY EncodeFrames DEF Frames
<1>2. PICK n \in Nat : n = Len(frames)
    BY LenProperties
<1>3. ASSUME NEW k \in 2..n
      PROVE  IsLate(frames[k], id, body)
    <2>1. n = totalParts(body) /\ PartCells(frames[k], id, body, k, n)
        BY <1>1, <1>2, EncodeParts
    <2> QED
        BY <2>1, Zenon DEF IsLate
<1> QED
    BY <1>1, <1>2, <1>3, Zenon DEF LateBehind

\* They stay so when one is left out,
LEMMA MissingLate ==
    ASSUME NEW frames, NEW id, NEW body, LateBehind(frames, id, body),
           NEW n \in Nat, n = Len(frames), NEW k \in 1..n
    PROVE  LateBehind(RemoveAt(frames, k), id, body)
<1>1. frames \in Seq(Seq(Nat)) /\ \A i \in 2..n : IsLate(frames[i], id, body)
    BY DEF LateBehind
<1>2. PICK a : a = SubSeq(frames, 1, k - 1)
    OBVIOUS
<1>3. PICK b : b = Behind(frames, k)
    OBVIOUS
<1>4. a \in Seq(Seq(Nat)) /\ Len(a) = k - 1 /\ \A i \in 1..(k - 1) : a[i] = frames[i]
    <2>1. 1 \in Int /\ k - 1 \in Int
        OBVIOUS
    <2>2. \A i \in 1..(k - 1) : frames[i] \in Seq(Nat)
        BY <1>1, ElementOfSeq
    <2>3. /\ SubSeq(frames, 1, k - 1) \in Seq(Seq(Nat))
          /\ Len(SubSeq(frames, 1, k - 1)) =
                 IF 1 <= k - 1 THEN (k - 1) - 1 + 1 ELSE 0
          /\ \A i \in 1..((k - 1) - 1 + 1) : SubSeq(frames, 1, k - 1)[i] = frames[1 + i - 1]
        BY <2>1, <2>2, SubSeqProperties
    <2>4. Len(a) = k - 1
        BY <1>2, <2>3
    <2>5. ASSUME NEW i \in 1..(k - 1)
          PROVE  a[i] = frames[i]
        <3>1. i \in 1..((k - 1) - 1 + 1) /\ 1 + i - 1 = i
            OBVIOUS
        <3> QED
            BY <1>2, <2>3, <3>1
    <2> QED
        BY <1>2, <2>3, <2>4, <2>5
<1>5. b \in Seq(Seq(Nat)) /\ Len(b) = n - k /\ \A i \in 1..(n - k) : b[i] = frames[i + k]
    <2>1. k \in 0..n
        OBVIOUS
    <2> QED
        BY <1>1, <1>3, <2>1, BehindIs
<1>6. PICK c \in Seq(Seq(Nat)) : c = a \o b
    BY <1>4, <1>5, ConcatProperties
<1>7. RemoveAt(frames, k) = c
    <2>1. RemoveAt(frames, k) = (SubSeq(frames, 1, k - 1) \o <<>>) \o SubSeq(frames, k + 1, n)
        BY <1>1, RemoveIs
    <2>2. a \o <<>> = a
        BY <1>4, ConcatEmptySeq
    <2> QED
        BY <1>2, <1>3, <1>6, <2>1, <2>2, Zenon DEF Behind
<1>8. Len(c) = n - 1 /\ \A i \in 1..(n - 1) : c[i] = IF i <= k - 1 THEN a[i] ELSE b[i - (k - 1)]
    <2>1. Len(a) + Len(b) = n - 1 /\ Len(a) = k - 1
        BY <1>4, <1>5
    <2>2. /\ Len(a \o b) = Len(a) + Len(b)
          /\ \A i \in 1..(Len(a) + Len(b)) :
                 (a \o b)[i] = IF i <= Len(a) THEN a[i] ELSE b[i - Len(a)]
        BY <1>4, <1>5, ConcatProperties
    <2>3. Len(c) = n - 1
        BY <1>6, <2>1, <2>2
    <2>4. ASSUME NEW i \in 1..(n - 1)
          PROVE  c[i] = IF i <= k - 1 THEN a[i] ELSE b[i - (k - 1)]
        BY <1>6, <2>1, <2>2
    <2> QED
        BY <2>3, <2>4
<1>9. ASSUME NEW i \in 2..(n - 1)
      PROVE  IsLate(c[i], id, body)
    <2>1. CASE i <= k - 1
        <3>1. c[i] = a[i] /\ a[i] = frames[i] /\ i \in 2..n
            BY <1>4, <1>8, <2>1
        <3> QED
            BY <1>1, <3>1
    <2>2. CASE ~(i <= k - 1)
        <3>1. i - (k - 1) \in 1..(n - k) /\ (i - (k - 1)) + k = i + 1 /\ i + 1 \in 2..n
            BY <2>2
        <3>2. c[i] = b[i - (k - 1)]
            BY <1>8, <2>2
        <3>3. c[i] = frames[i + 1]
            BY <1>5, <3>1, <3>2
        <3> QED
            BY <1>1, <3>1, <3>3
    <2> QED
        BY <2>1, <2>2
<1> QED
    BY <1>7, <1>8, <1>9 DEF LateBehind

\* and when one is damaged.
LEMMA SpoiltLate ==
    ASSUME NEW id \in Nat, NEW body \in Seq(Nat), body # <<>>,
           NEW n \in Nat, n = Len(encode(id, body)), NEW k \in 1..n, NEW how \in Spoils,
           NEW fs \in Seq(Seq(Nat)),
           fs = Put(encode(id, body), k, Spoilt(encode(id, body)[k], how))
    PROVE  LateBehind(fs, id, body)
<1>1. PICK frames \in Seq(Seq(Nat)) : frames = encode(id, body)
    BY EncodeFrames DEF Frames
<1>2. PICK bad : bad = Spoilt(frames[k], how)
    OBVIOUS
<1>3. DOMAIN frames = 1..n
    BY <1>1, LenProperties
<1>4. fs = [frames EXCEPT ![k] = bad]
    BY <1>1, <1>2, Zenon DEF Put
<1>5. DOMAIN fs = 1..n /\ \A i \in 1..n : fs[i] = IF i = k THEN bad ELSE frames[i]
    BY <1>3, <1>4
<1>6. Len(fs) = n
    <2>1. DOMAIN fs = 1..Len(fs) /\ Len(fs) \in Nat
        BY LenProperties
    <2> QED
        BY <1>5, <2>1
<1>7. ASSUME NEW i \in 2..n
      PROVE  IsLate(fs[i], id, body)
    <2>1. n = totalParts(body) /\ PartCells(frames[i], id, body, i, n)
        BY <1>1, EncodeParts
    <2>2. i \in 1..n
        OBVIOUS
    <2>3. CASE i = k
        <3>1. fs[i] = Spoilt(frames[i], how)
            BY <1>2, <1>5, <2>2, <2>3
        <3>2. i \in 2..totalParts(body) /\ PartCells(frames[i], id, body, i, totalParts(body))
            BY <2>1
        <3>3. frames[i] \in Seq(Nat)
            BY <1>1, <2>2, ElementOfSeq
        <3>4. IsLate(Spoilt(frames[i], how), id, body)
            BY <3>2, <3>3, Zenon DEF IsLate
        <3> QED
            BY <3>1, <3>4
    <2>4. CASE i # k
        <3>1. fs[i] = frames[i]
            BY <1>5, <2>2, <2>4
        <3>2. i \in 2..totalParts(body) /\ PartCells(frames[i], id, body, i, totalParts(body))
            BY <2>1
        <3>3. IsLate(frames[i], id, body)
            BY <3>2, Zenon DEF IsLate
        <3> QED
            BY <3>1, <3>3
    <2> QED
        BY <2>3, <2>4
<1> QED
    BY <1>6, <1>7 DEF LateBehind

\* What is left of a message, or of a damaged one, gives nothing.
LEMMA LeftEnds ==
    ASSUME NEW packets \in Seq(DecodedPacket), NEW uid \in Nat, NEW s, Ended(s, packets, uid),
           NEW body \in Seq(Nat), body # <<>>, NEW fs, LateBehind(fs, uid, body),
           NEW j \in 1..Len(fs)
    PROVE  Ends(s, Behind(fs, j), packets, uid + 1)
<1>1. fs \in Seq(Seq(Nat)) /\ \A i \in 2..Len(fs) : IsLate(fs[i], uid, body)
    BY DEF LateBehind
<1>2. PICK n \in Nat : n = Len(fs)
    BY <1>1, LenProperties
<1>3. Lates(Behind(fs, j), uid, body)
    BY <1>1, <1>2, BehindLate
<1> QED
    BY <1>3, LatesEnd

\* The packets of the two messages with the inner one's id and later, and those with later ids.
LEMMA NestedFrom ==
    ASSUME NEW uid \in Nat, NEW outer \in Seq(Nat), NEW inner \in Seq(Nat)
    PROVE  /\ PacketsFrom(uid + 1, NestedPackets(uid, outer, inner)) =
                  <<PacketOf(uid + 1, inner)>>
           /\ PacketsFrom(uid + 2, NestedPackets(uid, outer, inner)) = <<>>
<1>1. PICK mid \in Nat : mid = uid + 1
    OBVIOUS
<1>2. PICK later \in Nat : later = uid + 2
    OBVIOUS
<1>3. PICK p \in DecodedPacket : p = PacketOf(mid, inner) /\ p.msgId = mid
    BY PacketType
<1>4. PICK q \in DecodedPacket : q = PacketOf(uid, outer) /\ q.msgId = uid
    BY PacketType
<1>5. PICK a \in Seq(DecodedPacket) : a = <<p>>
    <2>1. <<p>> \in Seq(DecodedPacket)
        OBVIOUS
    <2> QED
        BY <2>1, Zenon
<1>6. PICK b \in Seq(DecodedPacket) : b = <<q>>
    <2>1. <<q>> \in Seq(DecodedPacket)
        OBVIOUS
    <2> QED
        BY <2>1, Zenon
<1>7. NestedPackets(uid, outer, inner) = a \o b
    <2>1. <<p>> \o <<q>> = <<p, q>>
        BY TwoPackets
    <2> QED
        BY <1>1, <1>3, <1>4, <1>5, <1>6, <2>1, Zenon DEF NestedPackets
<1>8. PacketsFrom(mid, a) = a /\ PacketsFrom(later, a) = <<>>
    <2>1. p.msgId >= mid /\ ~(p.msgId >= later)
        BY <1>1, <1>2, <1>3
    <2>2. PacketsFrom(mid, <<p>>) = IF p.msgId >= mid THEN <<p>> ELSE <<>>
        BY PacketsFromOne
    <2>3. PacketsFrom(later, <<p>>) = IF p.msgId >= later THEN <<p>> ELSE <<>>
        BY PacketsFromOne
    <2> QED
        BY <1>5, <2>1, <2>2, <2>3, Zenon
<1>9. PacketsFrom(mid, b) = <<>> /\ PacketsFrom(later, b) = <<>>
    <2>1. ~(q.msgId >= mid) /\ ~(q.msgId >= later)
        BY <1>1, <1>2, <1>4
    <2>2. PacketsFrom(mid, <<q>>) = IF q.msgId >= mid THEN <<q>> ELSE <<>>
        BY PacketsFromOne
    <2>3. PacketsFrom(later, <<q>>) = IF q.msgId >= later THEN <<q>> ELSE <<>>
        BY PacketsFromOne
    <2> QED
        BY <1>6, <2>1, <2>2, <2>3, Zenon
<1>10. /\ PacketsFrom(mid, a \o b) = PacketsFrom(mid, a) \o PacketsFrom(mid, b)
       /\ PacketsFrom(later, a \o b) = PacketsFrom(later, a) \o PacketsFrom(later, b)
    BY PacketsFromConcat
<1>11. a \o <<>> = a /\ <<>> \o <<>> = <<>>
    <2>1. a \o <<>> = a
        BY ConcatEmptySeq
    <2>2. <<>> \in Seq(DecodedPacket)
        OBVIOUS
    <2>3. <<>> \o <<>> = <<>>
        BY <2>2, ConcatEmptySeq
    <2> QED
        BY <2>1, <2>3
<1>12. PacketsFrom(mid, NestedPackets(uid, outer, inner)) = <<PacketOf(mid, inner)>>
    BY <1>3, <1>5, <1>7, <1>8, <1>9, <1>10, <1>11, Zenon
<1>13. PacketsFrom(later, NestedPackets(uid, outer, inner)) = <<>>
    BY <1>7, <1>8, <1>9, <1>10, <1>11, Zenon
<1> QED
    BY <1>1, <1>2, <1>12, <1>13, Zenon

\* The inner message and the last frame of the outer, when the outer's first did not come.
LEMMA InnerArrives ==
    ASSUME NEW packets \in Seq(DecodedPacket), NEW uid \in Nat, NEW s, Ended(s, packets, uid),
           NEW outer \in Seq(Nat), outer # <<>>, NEW S, 1 \notin S,
           NEW inner \in Seq(Nat), inner # <<>>,
           NEW n \in Nat, n = totalParts(outer), n > 1,
           NEW f \in Seq(Nat), PartCells(f, uid, outer, n, n)
    PROVE  Ends(Holding(s, uid, outer, S), encode(uid + 1, inner) \o <<f>>,
                packets \o <<PacketOf(uid + 1, inner)>>, uid + 2)
<1>1. PICK mid \in Nat : mid = uid + 1
    OBVIOUS
<1>2. PICK later \in Nat : later = uid + 2
    OBVIOUS
<1>3. later = mid + 1 /\ uid <= later /\ mid <= later /\ mid \in 0..(later - 1)
      /\ mid \notin 0..(uid - 1)
    BY <1>1, <1>2
<1>4. PICK p \in DecodedPacket : p = PacketOf(mid, inner) /\ p.msgId = mid
    BY PacketType
<1>5. PICK first \in Seq(DecodedPacket) : first = packets \o <<p>>
    <2>1. <<p>> \in Seq(DecodedPacket)
        OBVIOUS
    <2> QED
        BY <2>1, ConcatProperties
<1>6. PICK middle \in Seq(Seq(Nat)) : middle = encode(mid, inner)
    BY EncodeFrames DEF Frames
<1>7. PICK h : h = Holding(s, uid, outer, S)
    OBVIOUS
<1>8. Ended(h, packets, mid)
    BY <1>1, <1>7, HoldingEnded
<1>9. Reaches(h, middle, Delivered(h, p), first, later)
    <2>1. Arrives(h, mid, inner, packets)
        BY <1>8, MessageArrives
    <2> QED
        BY <1>3, <1>4, <1>5, <1>6, <2>1, Zenon DEF Arrives
<1>10. PICK s2 : s2 = Delivered(s, p)
    OBVIOUS
<1>11. Fresh(s, uid)
    BY EndedFresh
<1>12. Fresh(s2, uid)
    BY <1>10, <1>11, FreshDelivered
<1>13. Delivered(h, p) = Holding(s2, uid, outer, S)
    <2>1. Delivered(Holding(s, uid, outer, S), p) = Holding(Delivered(s, p), uid, outer, S)
        BY <1>11, HoldingDelivered
    <2> QED
        BY <1>7, <1>10, <2>1, Zenon
<1>14. After(Delivered(h, p), f) = s2
    <2>1. After(Holding(s2, uid, outer, S), f) = s2
        BY <1>12, LateLast
    <2> QED
        BY <1>13, <2>1, Zenon
<1>15. Ended(s2, first, later)
    <2>1. p.msgId \in 0..(later - 1) /\ p.msgId \notin DOMAIN s.cache
        <3>1. DOMAIN s.cache \subseteq 0..(uid - 1)
            BY DEF Ended, Good
        <3> QED
            BY <1>3, <1>4, <3>1
    <2> QED
        BY <1>3, <1>5, <1>10, <2>1, DeliveredEnded
<1>16. Reaches(Delivered(h, p), <<f>>, s2, first, later)
    <2>1. Good(Delivered(h, p), first, later)
        BY <1>6, <1>9, ReachesGood
    <2>2. Good(s2, first, later)
        BY <1>15 DEF Ended
    <2> QED
        BY <1>14, <2>1, <2>2, ReachesOne
<1>17. <<f>> \in Seq(Seq(Nat))
    OBVIOUS
<1>18. Reaches(h, middle \o <<f>>, s2, first, later)
    BY <1>6, <1>9, <1>16, <1>17, ReachesConcat
<1> QED
    BY <1>1, <1>2, <1>4, <1>5, <1>6, <1>7, <1>15, <1>18, Zenon DEF Ends

\* The last part alone changes nothing.
LEMMA LateAlone ==
    ASSUME NEW s, NEW id, Fresh(s, id), NEW body \in Seq(Nat), body # <<>>,
           NEW n \in Nat, n = totalParts(body), n > 1,
           NEW f, PartCells(f, id, body, n, n)
    PROVE  After(s, f) = s
<1>1. 1 \notin {}
    OBVIOUS
<1>2. PICK none : none = {} /\ 1 \notin none
    BY <1>1, Zenon
<1>3. After(Holding(s, id, body, none), f) = s
    BY <1>2, LateLast
<1>4. Holding(s, id, body, none) = s
    BY <1>2, Zenon DEF Holding
<1> QED
    BY <1>3, <1>4, Zenon

\* What is left of the inner message, and the last frame of the outer.
LEMMA InnerLate ==
    ASSUME NEW packets \in Seq(DecodedPacket), NEW uid \in Nat, NEW s, Ended(s, packets, uid),
           NEW outer \in Seq(Nat), outer # <<>>, NEW inner \in Seq(Nat), inner # <<>>,
           NEW n \in Nat, n = totalParts(outer), n > 1,
           NEW f \in Seq(Nat), PartCells(f, uid, outer, n, n),
           NEW fs, Lates(fs, uid + 1, inner)
    PROVE  Ends(s, fs \o <<f>>, packets, uid + 2)
<1>1. PICK mid \in Nat : mid = uid + 1
    OBVIOUS
<1>2. PICK later \in Nat : later = uid + 2
    OBVIOUS
<1>3. later = mid + 1
    BY <1>1, <1>2
<1>4. Ended(s, packets, mid)
    BY <1>1, EndedLater
<1>5. PICK S : Reaches(s, fs, Holding(s, mid, inner, S), packets, later)
    <2>1. Lates(fs, mid, inner)
        BY <1>1
    <2>2. \E S : 1 \notin S /\ Reaches(s, fs, Holding(s, mid, inner, S), packets, mid + 1)
        BY <1>4, <2>1, LatesArrive
    <2> QED
        BY <1>3, <2>2, Zenon
<1>6. PICK h : h = Holding(s, mid, inner, S)
    OBVIOUS
<1>7. Ended(h, packets, later)
    <2>1. Ended(Holding(s, mid, inner, S), packets, mid + 1)
        BY <1>4, HoldingEnded
    <2> QED
        BY <1>3, <1>6, <2>1, Zenon
<1>8. Fresh(h, uid)
    <2>1. Fresh(s, uid) /\ Fresh(s, mid)
        BY <1>4, EndedFresh
    <2>2. uid # mid
        BY <1>1
    <2>3. PICK cache : cache = With(s.cache, mid, Placed(inner, S)) /\ IsCache(cache)
                       /\ DOMAIN cache = DOMAIN s.cache \cup {mid}
        <3>1. /\ IsCache(With(s.cache, mid, Placed(inner, S)))
              /\ DOMAIN With(s.cache, mid, Placed(inner, S)) = DOMAIN s.cache \cup {mid}
            BY WithIs
        <3> QED
            BY <3>1, Zenon
    <2>4. CASE S = {}
        BY <1>6, <2>1, <2>4 DEF Holding
    <2>5. CASE S # {}
        <3>1. h = [cache |-> cache, out |-> s.out]
            BY <1>6, <2>3, <2>5, Zenon DEF Holding, Kept
        <3>2. h.cache = cache /\ h = [cache |-> h.cache, out |-> h.out]
            BY <3>1
        <3>3. uid \notin DOMAIN cache
            BY <2>1, <2>2, <2>3 DEF Fresh
        <3> QED
            BY <2>3, <3>2, <3>3, Zenon DEF Fresh
    <2> QED
        BY <2>4, <2>5
<1>9. After(h, f) = h
    BY <1>8, LateAlone
<1>10. Reaches(h, <<f>>, h, packets, later)
    <2>1. Good(h, packets, later)
        BY <1>7 DEF Ended
    <2> QED
        BY <1>9, <2>1, ReachesOne
<1>11. fs \in Seq(Seq(Nat)) /\ <<f>> \in Seq(Seq(Nat))
    BY DEF Lates
<1>12. Reaches(s, fs \o <<f>>, h, packets, later)
    BY <1>5, <1>6, <1>10, <1>11, ReachesConcat
<1> QED
    BY <1>2, <1>7, <1>12, Zenon DEF Ends

\* All but the last of some frames.
LEMMA AllButLast ==
    ASSUME NEW frames \in Seq(Seq(Nat)), NEW n \in Nat \ {0}, n = Len(frames)
    PROVE  /\ Front(frames) \in Seq(Seq(Nat)) /\ Len(Front(frames)) = n - 1
           /\ \A i \in 1..(n - 1) : Front(frames)[i] = frames[i]
<1>1. PICK m \in Nat : m = n - 1
    <2>1. n - 1 \in Nat
        OBVIOUS
    <2> QED
        BY <2>1, Zenon
<1>2. PICK front \in Seq(Seq(Nat)) : front = SubSeq(frames, 1, m) /\ front = Front(frames)
    BY <1>1, SplitLast
<1>3. \A i \in 1..m : frames[i] \in Seq(Nat)
    BY <1>1, ElementOfSeq
<1>4. /\ Len(SubSeq(frames, 1, m)) = IF 1 <= m THEN m - 1 + 1 ELSE 0
      /\ \A i \in 1..(m - 1 + 1) : SubSeq(frames, 1, m)[i] = frames[1 + i - 1]
    BY <1>3, SubSeqProperties
<1>5. Len(front) = m
    BY <1>2, <1>4
<1>6. ASSUME NEW i \in 1..m
      PROVE  front[i] = frames[i]
    <2>1. i \in 1..(m - 1 + 1) /\ 1 + i - 1 = i
        OBVIOUS
    <2> QED
        BY <1>2, <1>4, <2>1
<1> QED
    BY <1>1, <1>2, <1>5, <1>6

\* What is left of two messages, one amid the frames of the other, loses the
\* outer, and the inner too unless it is whole.
LEMMA NestedLate ==
    ASSUME NEW packets \in Seq(DecodedPacket), NEW uid \in Nat, NEW s, Ended(s, packets, uid),
           NEW outer \in Seq(Nat), outer # <<>>, Len(encode(uid, outer)) > 1,
           NEW inner \in Seq(Nat), inner # <<>>,
           NEW l \in Nat, l = Len(NestedFrames(uid, outer, inner)), NEW j \in 1..l
    PROVE  \E id \in uid..(uid + 2) :
               Ends(s, Behind(NestedFrames(uid, outer, inner), j),
                    packets \o PacketsFrom(id, NestedPackets(uid, outer, inner)), uid + 2)
<1>1. PICK mid \in Nat : mid = uid + 1
    OBVIOUS
<1>2. PICK later \in Nat : later = uid + 2
    OBVIOUS
<1>3. later = mid + 1 /\ uid <= later /\ mid <= later /\ mid \in uid..later /\ later \in uid..later
    BY <1>1, <1>2
<1>4. PICK all : all = NestedPackets(uid, outer, inner)
    OBVIOUS
<1>5. PacketsFrom(mid, all) = <<PacketOf(mid, inner)>> /\ PacketsFrom(later, all) = <<>>
    BY <1>1, <1>2, <1>4, NestedFrom
<1>6. packets \o <<>> = packets
    BY ConcatEmptySeq
<1>7. Len(outer) > CHUNK_SIZE
    BY LongEncode
<1>8. PICK n \in Nat : n = totalParts(outer)
    BY TotalParts
<1>9. PICK frames \in Seq(Seq(Nat)) : frames = encode(uid, outer) /\ Len(frames) = n
    BY <1>7, <1>8, LongFrames
<1>10. n > 1 /\ n \in 2..n /\ n \in 1..n
    BY <1>9
<1>11. PartCells(frames[n], uid, outer, n, n)
    <2>1. \A k \in 1..n : PartCells(frames[k], uid, outer, k, n)
        BY <1>7, <1>8, <1>9, LongFrames
    <2> QED
        BY <1>10, <2>1
<1>12. PICK k \in Nat, front \in Seq(Seq(Nat)) :
           k = n - 1 /\ front = Front(frames) /\ Len(front) = k
           /\ \A i \in 1..k : front[i] = frames[i]
    <2>1. n \in Nat \ {0} /\ n - 1 \in Nat
        BY <1>10
    <2>2. /\ Front(frames) \in Seq(Seq(Nat)) /\ Len(Front(frames)) = n - 1
          /\ \A i \in 1..(n - 1) : Front(frames)[i] = frames[i]
        BY <1>9, <2>1, AllButLast
    <2> QED
        BY <2>1, <2>2, Zenon
<1>13. PICK f \in Seq(Nat) : f = frames[n] /\ f = Last(frames)
    <2>1. n \in Nat \ {0} /\ frames[n] \in Seq(Nat)
        BY <1>9, <1>10, ElementOfSeq
    <2>2. Last(frames) = frames[n]
        BY <1>9, <2>1, SplitLast
    <2> QED
        BY <2>1, <2>2, Zenon
<1>14. PICK middle \in Seq(Seq(Nat)) : middle = encode(mid, inner)
    BY EncodeFrames DEF Frames
<1>15. PICK m \in Nat : m = Len(middle)
    BY LenProperties
<1>16. PICK most \in Seq(Seq(Nat)) : most = front \o middle /\ Len(most) = k + m
    <2>1. front \o middle \in Seq(Seq(Nat)) /\ Len(front \o middle) = Len(front) + Len(middle)
        BY ConcatProperties
    <2> QED
        BY <1>12, <1>15, <2>1
<1>17. PICK one \in Seq(Seq(Nat)) : one = <<f>> /\ Len(one) = 1
    <2>1. <<f>> \in Seq(Seq(Nat)) /\ Len(<<f>>) = 1
        OBVIOUS
    <2> QED
        BY <2>1, Zenon
<1>18. NestedFrames(uid, outer, inner) = most \o one
    BY <1>1, <1>9, <1>12, <1>13, <1>14, <1>16, <1>17, Zenon DEF NestedFrames
<1>19. l = (k + m) + 1
    <2>1. Len(most \o one) = Len(most) + Len(one)
        BY ConcatProperties
    <2> QED
        BY <1>16, <1>17, <1>18, <2>1
<1>20. PICK rest : rest = Behind(most \o one, j)
    OBVIOUS
<1> SUFFICES \E id \in uid..later : Ends(s, rest, packets \o PacketsFrom(id, all), later)
    BY <1>2, <1>4, <1>18, <1>20, Zenon
<1>21. CASE j <= k
    <2>1. rest = (Behind(front, j) \o middle) \o one
        <3>1. PICK km \in Nat : km = k + m
            OBVIOUS
        <3>2. j \in 0..km /\ j \in 0..k /\ Len(most) = km
            BY <1>16, <1>21, <3>1
        <3>3. Behind(most \o one, j) = Behind(most, j) \o one
            BY <3>2, BehindFirst
        <3>4. Behind(front \o middle, j) = Behind(front, j) \o middle
            BY <1>12, <3>2, BehindFirst
        <3> QED
            BY <1>16, <1>20, <3>3, <3>4, Zenon
    <2>2. Lates(Behind(front, j), uid, outer)
        <3>1. j \in 1..k
            BY <1>21
        <3>2. ASSUME NEW i \in 2..k
              PROVE  IsLate(front[i], uid, outer)
            <4>1. i \in 2..n /\ i \in 1..k
                BY <1>12
            <4>2. front[i] = frames[i]
                BY <1>12, <4>1
            <4>3. IsLate(frames[i], uid, outer)
                BY <1>9, <4>1, EncodeLate DEF LateBehind
            <4> QED
                BY <4>2, <4>3
        <3> QED
            BY <1>12, <3>1, <3>2, BehindLate
    <2>3. PICK x \in Seq(Seq(Nat)) : x = Behind(front, j)
        BY <2>2 DEF Lates
    <2>4. PICK S : 1 \notin S /\ Reaches(s, x, Holding(s, uid, outer, S), packets, mid)
        <3>1. \E S : 1 \notin S /\ Reaches(s, x, Holding(s, uid, outer, S), packets, uid + 1)
            BY <2>2, <2>3, LatesArrive
        <3> QED
            BY <1>1, <3>1, Zenon
    <2>5. PICK p \in DecodedPacket : p = PacketOf(mid, inner)
        BY PacketType
    <2>6. PICK first \in Seq(DecodedPacket) : first = packets \o <<p>>
        <3>1. <<p>> \in Seq(DecodedPacket)
            OBVIOUS
        <3> QED
            BY <3>1, ConcatProperties
    <2>7. PICK h : h = Holding(s, uid, outer, S)
        OBVIOUS
    <2>8. Reaches(s, x, h, first, later)
        <3>1. <<p>> \in Seq(DecodedPacket)
            OBVIOUS
        <3>2. Reaches(s, x, h, packets, mid)
            BY <2>4, <2>7
        <3> QED
            BY <1>3, <2>6, <3>1, <3>2, ReachesMore
    <2>9. Ends(h, middle \o one, first, later)
        <3>1. Ends(Holding(s, uid, outer, S), encode(uid + 1, inner) \o <<f>>,
                   packets \o <<PacketOf(uid + 1, inner)>>, uid + 2)
            BY <1>8, <1>10, <1>11, <1>13, <2>4, InnerArrives
        <3> QED
            BY <1>1, <1>2, <1>14, <1>17, <2>5, <2>6, <2>7, <3>1, Zenon
    <2>10. PICK t : Reaches(h, middle \o one, t, first, later) /\ Ended(t, first, later)
        BY <2>9, Zenon DEF Ends
    <2>11. Reaches(s, x \o (middle \o one), t, first, later)
        <3>1. middle \o one \in Seq(Seq(Nat))
            BY <1>14, <1>17, ConcatProperties
        <3> QED
            BY <2>3, <2>8, <2>10, <3>1, ReachesConcat
    <2>12. (x \o middle) \o one = x \o (middle \o one)
        <3>1. Associates(x, middle, one)
            BY <1>14, <1>17, <2>3, Associative
        <3> QED
            BY <3>1, Zenon DEF Associates
    <2>13. Ends(s, rest, packets \o PacketsFrom(mid, all), later)
        BY <1>5, <2>1, <2>3, <2>5, <2>6, <2>10, <2>11, <2>12, Zenon DEF Ends
    <2> QED
        BY <1>3, <2>13, Zenon
<1>22. CASE j > k /\ j <= k + m
    <2>1. PICK i \in 1..m : j = k + i
        <3>1. j - k \in 1..m /\ j = k + (j - k)
            BY <1>22
        <3> QED
            BY <3>1, Zenon
    <2>2. rest = Behind(middle, i) \o one
        <3>1. PICK km \in Nat : km = k + m
            OBVIOUS
        <3>2. j \in 0..km /\ Len(most) = km /\ j \in Nat
            BY <1>16, <1>22, <3>1
        <3>3. Behind(most \o one, j) = Behind(most, j) \o one
            BY <3>2, BehindFirst, ZenonT(30)
        <3>4. Behind(front \o middle, j) = Behind(middle, i)
            <4>1. i \in 0..Len(middle) /\ j = Len(front) + i
                BY <1>12, <1>15, <2>1
            <4> QED
                BY <4>1, BehindSecond
        <3> QED
            BY <1>16, <1>20, <3>3, <3>4, Zenon
    <2>3. Lates(Behind(middle, i), mid, inner)
        <3>1. LateBehind(middle, mid, inner)
            BY <1>14, EncodeLate
        <3> QED
            BY <1>14, <1>15, <3>1, BehindLate DEF LateBehind
    <2>4. Ends(s, Behind(middle, i) \o <<f>>, packets, uid + 2)
        BY <1>1, <1>8, <1>10, <1>11, <1>13, <2>3, InnerLate
    <2>5. Ends(s, rest, packets \o PacketsFrom(later, all), later)
        BY <1>2, <1>5, <1>6, <1>17, <2>2, <2>4, Zenon
    <2> QED
        BY <1>3, <2>5, Zenon
<1>23. CASE j > k + m
    <2>1. rest = <<>>
        <3>1. j = l /\ l \in Nat
            BY <1>19, <1>23
        <3>2. most \o one \in Seq(Seq(Nat)) /\ Len(most \o one) = l
            BY <1>18, ConcatProperties
        <3> QED
            BY <1>20, <3>1, <3>2, BehindEnds
    <2>2. Ended(s, packets, mid)
        BY <1>1, EndedLater
    <2>3. Ended(s, packets, later)
        <3>1. Ended(s, packets, mid + 1)
            BY <2>2, EndedLater
        <3> QED
            BY <1>3, <3>1, Zenon
    <2>4. Reaches(s, <<>>, s, packets, later)
        BY <2>3, ReachesNone DEF Ended
    <2>5. Ends(s, rest, packets \o PacketsFrom(later, all), later)
        BY <1>5, <1>6, <2>1, <2>3, <2>4, Zenon DEF Ends
    <2> QED
        BY <1>3, <2>5, Zenon
<1> QED
    BY <1>21, <1>22, <1>23

-----------------------------------------------------------------------------
(* The actions.                                                            *)

SetOfState(s) ==
    /\ DOMAIN s.cache \subseteq Nat
    /\ \A id \in DOMAIN s.cache : s.cache[id] \in Seq(Seq(Nat)) \ {<<>>}
    /\ s.out \in Seq(DecodedPacket)

\* To keep parts leaves the types.
LEMMA KeptType ==
    ASSUME NEW s, SetOfState(s), NEW id \in Nat, NEW parts \in Seq(Seq(Nat)) \ {<<>>}
    PROVE  SetOfState(Kept(s, id, parts))
<1>1. Kept(s, id, parts).cache = With(s.cache, id, parts) /\ Kept(s, id, parts).out = s.out
    BY DEF Kept
<1>2. /\ DOMAIN With(s.cache, id, parts) = DOMAIN s.cache \cup {id}
      /\ With(s.cache, id, parts)[id] = parts
      /\ \A i \in DOMAIN s.cache : i # id => With(s.cache, id, parts)[i] = s.cache[i]
    BY DEF With
<1>3. \A i \in DOMAIN s.cache \cup {id} : With(s.cache, id, parts)[i] \in Seq(Seq(Nat)) \ {<<>>}
    <2>1. \A i \in DOMAIN s.cache : s.cache[i] \in Seq(Seq(Nat)) \ {<<>>}
        BY DEF SetOfState
    <2> QED
        BY <1>2, <2>1
<1>4. DOMAIN s.cache \cup {id} \subseteq Nat /\ s.out \in Seq(DecodedPacket)
    BY DEF SetOfState
<1> QED
    BY <1>1, <1>2, <1>3, <1>4, Zenon DEF SetOfState

\* To forget a message leaves the types.
LEMMA ForgottenType ==
    ASSUME NEW s, SetOfState(s), NEW id
    PROVE  SetOfState(Forgotten(s, id))
BY DEF SetOfState, Forgotten, Without

\* To give a message leaves the types.
LEMMA CompleteType ==
    ASSUME NEW s, SetOfState(s), NEW id \in Nat, NEW ptype \in Nat, NEW body \in Seq(Nat)
    PROVE  SetOfState(Complete(s, id, ptype, body))
<1>1. Packet(id, ptype, body) \in DecodedPacket
    BY DEF Packet, DecodedPacket
<1>2. Append(s.out, Packet(id, ptype, body)) \in Seq(DecodedPacket)
    BY <1>1, AppendProperties DEF SetOfState
<1>3. SetOfState(Forgotten(s, id))
    BY ForgottenType
<1> QED
    BY <1>2, <1>3 DEF SetOfState, Complete, Forgotten

\* The parts of a message are a sequence of sequences.
LEMMA PartsType ==
    ASSUME NEW s, SetOfState(s), NEW id, NEW total \in Nat
    PROVE  PartsIn(s.cache, id, total) \in Seq(Seq(Nat))
<1>1. CASE id \in DOMAIN s.cache
    BY <1>1 DEF PartsIn, SetOfState
<1>2. CASE id \notin DOMAIN s.cache
    <2>1. [k \in 1..total |-> <<>>] \in [1..total -> Seq(Nat)]
        OBVIOUS
    <2>2. [k \in 1..total |-> <<>>] \in Seq(Seq(Nat))
        BY <2>1, FunctionIsSeq
    <2> QED
        BY <1>2, <2>2 DEF PartsIn
<1> QED
    BY <1>1, <1>2

\* Whatever frame comes, the types are left.
LEMMA AfterType ==
    ASSUME NEW s, SetOfState(s), NEW f, IsFrame(f)
    PROVE  SetOfState(After(s, f))
<1>1. /\ f[4] \in Nat /\ f[6] \in Nat /\ f[7] \in Nat /\ f[8] \in Nat /\ f[9] \in Nat
      /\ f[10] \in Nat /\ BodyOf(f) \in Seq(Nat)
    <2>1. PICK n \in Nat : n = f[5] /\ Len(f) = 10 + n /\ f \in Seq(Nat)
        BY FrameLen
    <2>2. \A i \in 1..10 : i \in 1..Len(f)
        BY <2>1
    <2>3. \A i \in 1..10 : f[i] \in Nat
        BY <2>1, <2>2, ElementOfSeq
    <2>4. BodyOf(f) \in Seq(Nat)
        BY <2>1, BodyCells
    <2> QED
        BY <2>3, <2>4
<1>2. PICK body \in Seq(Nat) : body = BodyOf(f)
    BY <1>1
<1>3. PICK id \in Nat : id = f[7]
    BY <1>1
<1>4. PICK ptype \in Nat : ptype = f[4]
    BY <1>1
<1>5. PICK seq \in Nat : seq = f[8]
    BY <1>1
<1>6. PICK total \in Nat : total = f[9]
    BY <1>1
<1>7. SetOfState(AfterWhole(s, id, ptype, f[10], body))
    <2>1. Packet(id, ptype, body) \in DecodedPacket
        BY DEF Packet, DecodedPacket
    <2>2. Append(s.out, Packet(id, ptype, body)) \in Seq(DecodedPacket)
        BY <2>1, AppendProperties DEF SetOfState
    <2> QED
        BY <2>2 DEF SetOfState, AfterWhole
<1>8. SetOfState(AfterPart(s, id, ptype, seq, total, f[6], f[10], body))
    <2>1. PICK parts \in Seq(Seq(Nat)) : parts = PartsIn(s.cache, id, total)
        BY PartsType
    <2>2. SetOfState(Forgotten(s, id))
        BY ForgottenType
    <2>3. CASE seq >= Len(parts)
        BY <2>1, <2>2, <2>3, Zenon DEF AfterPart
    <2>4. CASE ~(seq >= Len(parts))
        <3>1. PICK placed \in Seq(Seq(Nat)) \ {<<>>} : placed = [parts EXCEPT ![seq + 1] = body]
            <4>1. seq + 1 \in 1..Len(parts)
                BY <2>4, LenProperties
            <4>2. /\ [parts EXCEPT ![seq + 1] = body] \in Seq(Seq(Nat))
                  /\ Len([parts EXCEPT ![seq + 1] = body]) = Len(parts)
                BY <4>1, ExceptSeq
            <4>3. Len(parts) # 0
                BY <4>1
            <4>4. [parts EXCEPT ![seq + 1] = body] # <<>>
                BY <4>2, <4>3, EmptySeq
            <4> QED
                BY <4>2, <4>4
        <3>2. FlattenSeq(placed) \in Seq(Nat)
            BY FlattenSeqType
        <3>3. SetOfState(Kept(s, id, placed)) /\
              SetOfState(Complete(s, id, ptype, FlattenSeq(placed)))
            BY <3>2, KeptType, CompleteType
        <3>4. SetOfState(AfterLast(s, id, ptype, placed, f[10]))
            BY <2>2, <3>3, Zenon DEF AfterLast
        <3>5. SetOfState(AfterMiddle(s, id, placed, f[10], body))
            BY <2>2, <3>3, Zenon DEF AfterMiddle
        <3> QED
            BY <2>1, <2>4, <3>1, <3>4, <3>5, Zenon DEF AfterPart
    <2> QED
        BY <2>3, <2>4
<1> QED
    BY <1>2, <1>3, <1>4, <1>5, <1>6, <1>7, <1>8, Zenon DEF After

\* The cache and the output of decode.
Now == [cache |-> fragCache_, out |-> out]
Then == [cache |-> fragCache_', out |-> out']

\* The frame at the front of the buffer.
Frame == SubSeq(buffer_, 1, PROTO_HEADER_SIZE + buffer_[5])

\* The first n elements of a sequence.
LEMMA FrontOf ==
    ASSUME NEW a \in Seq(Nat), NEW n \in Nat, n <= Len(a)
    PROVE  /\ SubSeq(a, 1, n) \in Seq(Nat) /\ Len(SubSeq(a, 1, n)) = n
           /\ \A i \in 1..n : SubSeq(a, 1, n)[i] = a[i]
<1>1. \A k \in 1..n : k \in 1..Len(a)
    BY LenProperties
<1>2. \A k \in 1..n : a[k] \in Nat
    BY <1>1, ElementOfSeq
<1>3. PICK f : f = SubSeq(a, 1, n)
    OBVIOUS
<1>4. /\ f \in Seq(Nat)
      /\ Len(f) = IF 1 <= n THEN n - 1 + 1 ELSE 0
      /\ \A i \in 1..(n - 1 + 1) : f[i] = a[1 + i - 1]
    BY <1>2, <1>3, SubSeqProperties
<1>5. Len(f) = n
    BY <1>4
<1>6. ASSUME NEW i \in 1..n
      PROVE  f[i] = a[i]
    <2>1. i \in 1..(n - 1 + 1) /\ 1 + i - 1 = i
        OBVIOUS
    <2> QED
        BY <1>4, <2>1, Zenon
<1> QED
    BY <1>3, <1>4, <1>5, <1>6, Zenon

\* What is true of the first cells of a buffer that begins with a whole frame.
LEMMA FrameIs ==
    ASSUME TypeOK, NEW n \in Nat, n = buffer_[5], Len(buffer_) >= 10 + n,
           NEW f, f = SubSeq(buffer_, 1, 10 + n)
    PROVE  /\ f \in Seq(Nat) /\ Len(f) = 10 + n
           /\ \A i \in 1..10 : f[i] = buffer_[i]
           /\ BodyOf(f) = SubSeq(buffer_, 11, 10 + n)
           /\ SubSeq(f, 1, 2) = SubSeq(buffer_, 1, 2)
<1>1. PICK b \in Seq(Nat) : b = buffer_
    BY DEF TypeOK
<1>2. PICK l \in Nat : l = Len(b) /\ l >= 10 + n
    BY <1>1, LenProperties
<1>3. f \in Seq(Nat) /\ Len(f) = 10 + n /\ \A i \in 1..(10 + n) : f[i] = b[i]
    <2>1. PICK m \in Nat : m = 10 + n
        <3>1. 10 + n \in Nat
            OBVIOUS
        <3> QED
            BY <3>1, Zenon
    <2>2. m <= Len(b)
        BY <1>2, <2>1
    <2> QED
        BY <1>1, <2>1, <2>2, FrontOf
<1>4. \A i \in 1..10 : f[i] = b[i]
    BY <1>3
<1>5. BodyOf(f) \in Seq(Nat) /\ Len(BodyOf(f)) = n /\ \A i \in 1..n : BodyOf(f)[i] = f[10 + i]
    BY <1>3, BodyCells
<1>6. PICK c : c = SubSeq(b, 11, 10 + n)
    OBVIOUS
<1>7. c \in Seq(Nat) /\ Len(c) = n /\ \A i \in 1..n : c[i] = b[10 + i]
    <2>1. \A k \in 11..(10 + n) : k \in 1..Len(b)
        BY <1>2
    <2>2. \A k \in 11..(10 + n) : b[k] \in Nat
        BY <2>1, ElementOfSeq
    <2>3. /\ c \in Seq(Nat) /\ Len(c) = IF 11 <= 10 + n THEN (10 + n) - 11 + 1 ELSE 0
          /\ \A i \in 1..((10 + n) - 11 + 1) : c[i] = b[11 + i - 1]
        BY <1>6, <2>2, SubSeqProperties
    <2>4. Len(c) = n
        BY <2>3
    <2>5. ASSUME NEW i \in 1..n
          PROVE  c[i] = b[10 + i]
        <3>1. i \in 1..((10 + n) - 11 + 1) /\ 11 + i - 1 = 10 + i
            OBVIOUS
        <3> QED
            BY <2>3, <3>1, Zenon
    <2> QED
        BY <2>3, <2>4, <2>5
<1>8. BodyOf(f) = c
    <2>1. ASSUME NEW i \in 1..n
          PROVE  BodyOf(f)[i] = c[i]
        <3>1. 10 + i \in 1..(10 + n)
            OBVIOUS
        <3> QED
            BY <1>3, <1>5, <1>7, <3>1, Zenon
    <2> QED
        BY <1>5, <1>7, <2>1, SeqEqual
<1>9. SubSeq(f, 1, 2) = <<f[1], f[2]>>
    BY <1>3, FrontCells
<1>10. SubSeq(b, 1, 2) = <<b[1], b[2]>>
    <2>1. PICK m \in Nat : m = l - 10 /\ l = 10 + m
        <3>1. l - 10 \in Nat /\ l = 10 + (l - 10)
            BY <1>2
        <3> QED
            BY <3>1, Zenon
    <2>2. Len(b) = 10 + m
        BY <1>2, <2>1
    <2> QED
        BY <2>2, FrontCells
<1>11. f[1] = b[1] /\ f[2] = b[2]
    <2>1. 1 \in 1..10 /\ 2 \in 1..10
        OBVIOUS
    <2> QED
        BY <1>4, <2>1, Zenon
<1> QED
    BY <1>1, <1>3, <1>4, <1>6, <1>8, <1>9, <1>10, <1>11, Zenon

\* The magic at i, cell by cell.
LEMMA MagicIs ==
    ASSUME NEW i \in Nat
    PROVE  MagicAt(i) <=> SubSeq(buffer_, i + 1, i + 2) = PROTO_MAGIC
<1>1. Len(PROTO_MAGIC) = 2
    BY DEF PROTO_MAGIC
<1> QED
    BY <1>1, Zenon DEF MagicAt

\* What handleSingleFrame takes is a frame, and no heartbeat.
LEMMA HandledFrame ==
    ASSUME TypeOK, handleSingleFrame
    PROVE  /\ IsFrame(Frame) /\ Frame[4] # HEARTBEAT
           /\ Len(buffer_) >= 10 + buffer_[5] /\ buffer_[5] \in Nat
<1>1. HavePayload
    BY DEF handleSingleFrame
<1>2. /\ Len(buffer_) >= 10 /\ MagicAt(0) /\ buffer_[3] = VERSION /\ buffer_[4] # HEARTBEAT
      /\ Len(buffer_) >= 10 + buffer_[5]
    BY <1>1 DEF HavePayload, HaveVersion, InStep, HaveHeader, hdr, HeaderOf, PROTO_HEADER_SIZE
<1>3. buffer_ \in Seq(Nat)
    BY DEF TypeOK
<1>4. PICK n \in Nat : n = buffer_[5]
    <2>1. 5 \in 1..Len(buffer_)
        BY <1>2, <1>3, LenProperties
    <2> QED
        BY <1>3, <2>1, ElementOfSeq
<1>5. PICK f : f = SubSeq(buffer_, 1, 10 + n)
    OBVIOUS
<1>6. /\ f \in Seq(Nat) /\ Len(f) = 10 + n
      /\ \A i \in 1..10 : f[i] = buffer_[i]
      /\ SubSeq(f, 1, 2) = SubSeq(buffer_, 1, 2)
    BY <1>2, <1>4, <1>5, FrameIs
<1>7. SubSeq(buffer_, 1, 2) = PROTO_MAGIC
    <2>1. 0 \in Nat /\ 0 + 1 = 1 /\ 0 + 2 = 2
        OBVIOUS
    <2>2. SubSeq(buffer_, 0 + 1, 0 + 2) = PROTO_MAGIC
        BY <1>2, <2>1, MagicIs
    <2> QED
        BY <2>1, <2>2, Zenon
<1>8. f[3] = buffer_[3] /\ f[4] = buffer_[4] /\ f[5] = n
    BY <1>4, <1>6
<1>9. IsFrame(f)
    <2>1. 10 + n >= 10
        OBVIOUS
    <2>2. Len(f) >= PROTO_HEADER_SIZE /\ Len(f) = PROTO_HEADER_SIZE + f[5]
        BY <1>6, <1>8, <2>1, Zenon DEF PROTO_HEADER_SIZE
    <2> QED
        BY <1>2, <1>6, <1>7, <1>8, <2>2, Zenon DEF IsFrame
<1>10. Frame = f
    BY <1>4, <1>5 DEF Frame, PROTO_HEADER_SIZE
<1> QED
    BY <1>2, <1>4, <1>8, <1>9, <1>10, Zenon

\* What the code reads of the header.
LEMMA HeaderFields ==
    /\ hdr.version = buffer_[3] /\ hdr.ptype = buffer_[4] /\ hdr.payload_len = buffer_[5]
    /\ hdr.flags = buffer_[6] /\ hdr.msg_id = buffer_[7] /\ hdr.seq = buffer_[8]
    /\ hdr.total = buffer_[9] /\ hdr.checksum = buffer_[10]
BY DEF hdr, HeaderOf

FrameFields(f) ==
    /\ f[4] = buffer_[4] /\ f[5] = buffer_[5] /\ f[6] = buffer_[6] /\ f[7] = buffer_[7]
    /\ f[8] = buffer_[8] /\ f[9] = buffer_[9] /\ f[10] = buffer_[10]
    /\ BodyOf(f) = SubSeq(buffer_, PROTO_HEADER_SIZE + 1, PROTO_HEADER_SIZE + buffer_[5])

\* The frame has the fields the code reads from the buffer.
LEMMA FieldsOfFrame ==
    ASSUME TypeOK, buffer_[5] \in Nat, Len(buffer_) >= 10 + buffer_[5]
    PROVE  /\ FrameFields(Frame) /\ Frame \in Seq(Nat)
           /\ Len(Frame) = PROTO_HEADER_SIZE + buffer_[5]
<1>1. PICK n \in Nat : n = buffer_[5]
    OBVIOUS
<1>2. PICK f : f = SubSeq(buffer_, 1, 10 + n)
    OBVIOUS
<1>3. /\ f \in Seq(Nat) /\ Len(f) = 10 + n /\ \A i \in 1..10 : f[i] = buffer_[i]
      /\ BodyOf(f) = SubSeq(buffer_, 11, 10 + n)
    BY <1>1, <1>2, FrameIs
<1>4. 4 \in 1..10 /\ 5 \in 1..10 /\ 6 \in 1..10 /\ 7 \in 1..10 /\ 8 \in 1..10 /\
      9 \in 1..10 /\ 10 \in 1..10
      /\ 10 + 1 = 11
    OBVIOUS
<1>5. PROTO_HEADER_SIZE = 10
    BY DEF PROTO_HEADER_SIZE
<1>6. FrameFields(f)
    BY <1>1, <1>3, <1>4, <1>5, Zenon DEF FrameFields
<1>7. f = Frame
    BY <1>1, <1>2, <1>5, Zenon DEF Frame
<1> QED
    BY <1>1, <1>3, <1>5, <1>6, <1>7, Zenon

\* Forget is what Forgotten says.
LEMMA ForgetIs ==
    ASSUME NEW id, Forget(id), UNCHANGED out
    PROVE  Then = Forgotten(Now, id)
BY Zenon DEF Forget, Then, Now, Forgotten, Without

\* Keep is what Kept says.
LEMMA KeepIs ==
    ASSUME NEW id, NEW parts, Keep(id, parts), UNCHANGED out
    PROVE  Then = Kept(Now, id, parts)
BY Zenon DEF Keep, Then, Now, Kept, With

\* Deliver appends the packet.
LEMMA DeliverIs ==
    ASSUME NEW body, Deliver(body)
    PROVE  out' = Append(out, Packet(hdr.msg_id, hdr.ptype, body))
BY Zenon DEF Deliver, Packet

\* The two fields of the state.
LEMMA NowIs == Now.cache = fragCache_ /\ Now.out = out
BY DEF Now

\* WholeMessage is what AfterWhole says.
LEMMA WholeMessageIs ==
    ASSUME NEW body, WholeMessage(body)
    PROVE  Then = AfterWhole(Now, hdr.msg_id, hdr.ptype, hdr.checksum, body)
<1>1. fragCache_' = fragCache_
    BY DEF WholeMessage
<1>2. CASE adler32(body) = hdr.checksum
    <2>1. out' = Append(out, Packet(hdr.msg_id, hdr.ptype, body))
        BY <1>2, DeliverIs DEF WholeMessage
    <2> QED
        BY <1>1, <1>2, <2>1, NowIs, Zenon DEF Then, AfterWhole
<1>3. CASE adler32(body) # hdr.checksum
    <2>1. out' = out
        BY <1>3 DEF WholeMessage
    <2> QED
        BY <1>1, <1>3, <2>1, NowIs, Zenon DEF Then, AfterWhole
<1> QED
    BY <1>2, <1>3

\* MiddlePart is what AfterMiddle says.
LEMMA MiddlePartIs ==
    ASSUME NEW id, NEW parts, NEW body, MiddlePart(id, parts, body)
    PROVE  Then = AfterMiddle(Now, id, parts, hdr.checksum, body)
<1>1. CASE adler32(body) = hdr.checksum
    <2>1. Then = Kept(Now, id, parts)
        BY <1>1, KeepIs DEF MiddlePart
    <2> QED
        BY <1>1, <2>1, Zenon DEF AfterMiddle
<1>2. CASE adler32(body) # hdr.checksum
    <2>1. Then = Forgotten(Now, id)
        BY <1>2, ForgetIs DEF MiddlePart
    <2> QED
        BY <1>2, <2>1, Zenon DEF AfterMiddle
<1> QED
    BY <1>1, <1>2

\* LastPart is what AfterLast says.
LEMMA LastPartIs ==
    ASSUME NEW id, id = hdr.msg_id, NEW parts, LastPart(id, parts)
    PROVE  Then = AfterLast(Now, id, hdr.ptype, parts, hdr.checksum)
<1>1. CASE \E k \in DOMAIN parts : parts[k] = <<>>
    <2>1. Forget(id) /\ UNCHANGED out
        BY <1>1, Zenon DEF LastPart
    <2>2. Then = Forgotten(Now, id)
        BY <2>1, ForgetIs
    <2> QED
        BY <1>1, <2>2, Zenon DEF AfterLast
<1>2. CASE ~ \E k \in DOMAIN parts : parts[k] = <<>>
    <2>1. CASE adler32(FlattenSeq(parts)) = hdr.checksum
        <3>1. Deliver(FlattenSeq(parts)) /\ Forget(id)
            BY <1>2, <2>1, Zenon DEF LastPart
        <3>2. out' = Append(out, Packet(id, hdr.ptype, FlattenSeq(parts)))
            BY <3>1, DeliverIs
        <3>3. Then = Complete(Now, id, hdr.ptype, FlattenSeq(parts))
            BY <3>1, <3>2, NowIs, Zenon DEF Then, Complete, Forget, Without
        <3> QED
            BY <1>2, <2>1, <3>3, Zenon DEF AfterLast
    <2>2. CASE adler32(FlattenSeq(parts)) # hdr.checksum
        <3>1. Keep(id, parts) /\ UNCHANGED out
            BY <1>2, <2>2, Zenon DEF LastPart
        <3>2. Then = Kept(Now, id, parts)
            BY <3>1, KeepIs
        <3> QED
            BY <1>2, <2>2, <3>2, Zenon DEF AfterLast
    <2> QED
        BY <2>1, <2>2
<1> QED
    BY <1>1, <1>2

\* Fragment is what AfterPart says.
LEMMA FragmentIs ==
    ASSUME NEW body, Fragment(body)
    PROVE  Then = AfterPart(Now, hdr.msg_id, hdr.ptype, hdr.seq, hdr.total, hdr.flags,
                            hdr.checksum, body)
<1>1. PICK id : id = hdr.msg_id
    OBVIOUS
<1>2. PICK parts : parts = PartsOf(id, hdr.total)
    OBVIOUS
<1>3. PICK placed : placed = [parts EXCEPT ![hdr.seq + 1] = body]
    OBVIOUS
<1>4. parts = PartsIn(Now.cache, id, hdr.total)
    BY <1>2, NowIs, Zenon DEF PartsOf, PartsIn
<1>5. CASE hdr.seq >= Len(parts)
    <2>1. Forget(id) /\ UNCHANGED out
        BY <1>1, <1>2, <1>5, Zenon DEF Fragment
    <2>2. Then = Forgotten(Now, id)
        BY <2>1, ForgetIs
    <2> QED
        BY <1>1, <1>4, <1>5, <2>2, Zenon DEF AfterPart
<1>6. CASE ~(hdr.seq >= Len(parts)) /\ ENDPART(hdr.flags)
    <2>1. LastPart(id, placed)
        BY <1>1, <1>2, <1>3, <1>6, Zenon DEF Fragment
    <2>2. Then = AfterLast(Now, id, hdr.ptype, placed, hdr.checksum)
        BY <1>1, <2>1, LastPartIs
    <2> QED
        BY <1>1, <1>3, <1>4, <1>6, <2>2, Zenon DEF AfterPart
<1>7. CASE ~(hdr.seq >= Len(parts)) /\ ~ENDPART(hdr.flags)
    <2>1. MiddlePart(id, placed, body)
        BY <1>1, <1>2, <1>3, <1>7, Zenon DEF Fragment
    <2>2. Then = AfterMiddle(Now, id, placed, hdr.checksum, body)
        BY <2>1, MiddlePartIs
    <2> QED
        BY <1>1, <1>3, <1>4, <1>7, <2>2, Zenon DEF AfterPart
<1> QED
    BY <1>5, <1>6, <1>7

\* handleSingleFrame does what After says, and takes the frame off the buffer.
LEMMA HandledIs ==
    ASSUME TypeOK, handleSingleFrame
    PROVE  /\ Then = After(Now, Frame)
           /\ buffer_' = SubSeq(buffer_, Len(Frame) + 1, Len(buffer_))
<1>1. /\ IsFrame(Frame) /\ Frame[4] # HEARTBEAT
      /\ Len(buffer_) >= 10 + buffer_[5] /\ buffer_[5] \in Nat
    BY HandledFrame
<1>2. FrameFields(Frame) /\ Len(Frame) = PROTO_HEADER_SIZE + buffer_[5]
    BY <1>1, FieldsOfFrame
<1>3. PICK body : body = BodyOf(Frame)
    OBVIOUS
<1>4. body = SubSeq(buffer_, PROTO_HEADER_SIZE + 1, PROTO_HEADER_SIZE + hdr.payload_len)
    BY <1>2, <1>3, HeaderFields, Zenon DEF FrameFields
<1>5. Then = After(Now, Frame)
    <2>1. CASE FRAGMENTED(hdr.flags)
        <3>1. Fragment(body)
            BY <1>4, <2>1, Zenon DEF handleSingleFrame
        <3>2. Then = AfterPart(Now, hdr.msg_id, hdr.ptype, hdr.seq, hdr.total, hdr.flags,
                               hdr.checksum, body)
            BY <3>1, FragmentIs
        <3>3. Then = AfterPart(Now, Frame[7], Frame[4], Frame[8], Frame[9], Frame[6],
                               Frame[10], body)
            BY <1>2, <3>2, HeaderFields, Zenon DEF FrameFields
        <3>4. FRAGMENTED(Frame[6])
            BY <1>2, <2>1, HeaderFields, Zenon DEF FrameFields
        <3> QED
            BY <1>1, <1>3, <3>3, <3>4, Zenon DEF After
    <2>2. CASE ~FRAGMENTED(hdr.flags)
        <3>1. WholeMessage(body)
            BY <1>4, <2>2, Zenon DEF handleSingleFrame
        <3>2. Then = AfterWhole(Now, hdr.msg_id, hdr.ptype, hdr.checksum, body)
            BY <3>1, WholeMessageIs
        <3>3. Then = AfterWhole(Now, Frame[7], Frame[4], Frame[10], body)
            BY <1>2, <3>2, HeaderFields, Zenon DEF FrameFields
        <3>4. ~FRAGMENTED(Frame[6])
            BY <1>2, <2>2, HeaderFields, Zenon DEF FrameFields
        <3> QED
            BY <1>1, <1>3, <3>3, <3>4, Zenon DEF After
    <2> QED
        BY <2>1, <2>2
<1>6. buffer_' = SubSeq(buffer_, (PROTO_HEADER_SIZE + buffer_[5]) + 1, Len(buffer_))
    BY HeaderFields, Zenon DEF handleSingleFrame, DropFrame, Drop
<1> QED
    BY <1>2, <1>5, <1>6, Zenon

\* TypeOK, with the cache and the output as one state.
LEMMA NowType == TypeOK <=>
    /\ wire \in Seq(Nat) /\ buffer_ \in Seq(Nat) /\ SetOfState(Now) /\ decoding \in BOOLEAN
    /\ sentMsgUid_ \in Nat /\ sent \in Seq(DecodedPacket) /\ count \in 0..MaxMessages
<1>1. SetOfState(Now) <=>
          /\ DOMAIN fragCache_ \subseteq Nat
          /\ \A id \in DOMAIN fragCache_ : fragCache_[id] \in Seq(Seq(Nat)) \ {<<>>}
          /\ out \in Seq(DecodedPacket)
    BY NowIs, Zenon DEF SetOfState
<1> QED
    BY <1>1, Zenon DEF TypeOK

\* The same of the next state.
LEMMA ThenType ==
    ASSUME wire' \in Seq(Nat), buffer_' \in Seq(Nat), SetOfState(Then), decoding' \in BOOLEAN,
           sentMsgUid_' \in Nat, sent' \in Seq(DecodedPacket), count' \in 0..MaxMessages
    PROVE  TypeOK'
<1>1. Then.cache = fragCache_' /\ Then.out = out'
    BY DEF Then
<1>2. /\ DOMAIN fragCache_' \subseteq Nat
      /\ \A id \in DOMAIN fragCache_' : fragCache_'[id] \in Seq(Seq(Nat)) \ {<<>>}
      /\ out' \in Seq(DecodedPacket)
    BY <1>1, Zenon DEF SetOfState
<1> QED
    BY <1>2, Zenon DEF TypeOK

\* The rest of the buffer, when its first n cells are gone.
LEMMA RestType ==
    ASSUME TypeOK, NEW n \in Nat
    PROVE  SubSeq(buffer_, n + 1, Len(buffer_)) \in Seq(Nat)
<1>1. PICK b \in Seq(Nat) : b = buffer_
    BY DEF TypeOK
<1>2. \A k \in (n + 1)..Len(b) : k \in 1..Len(b)
    BY LenProperties
<1>3. \A k \in (n + 1)..Len(b) : b[k] \in Nat
    BY <1>2, ElementOfSeq
<1>4. SubSeq(b, n + 1, Len(b)) \in Seq(Nat)
    BY <1>3, LenProperties, SubSeqProperties
<1> QED
    BY <1>1, <1>4

\* Everything decode does keeps the types.
LEMMA DecodeType ==
    ASSUME TypeOK, Decode
    PROVE  TypeOK'
<1>1. /\ wire \in Seq(Nat) /\ buffer_ \in Seq(Nat) /\ SetOfState(Now) /\ decoding \in BOOLEAN
      /\ sentMsgUid_ \in Nat /\ sent \in Seq(DecodedPacket) /\ count \in 0..MaxMessages
    BY NowType
<1>2. wire' = wire /\ sentMsgUid_' = sentMsgUid_ /\ sent' = sent /\ count' = count
    BY Zenon DEF Decode, WaitForHeader, Resync, NoMagic, VersionMismatch, Heartbeat,
                 WaitForPayload, handleSingleFrame, peerVars
<1>3. buffer_' \in Seq(Nat) /\ SetOfState(Then) /\ decoding' \in BOOLEAN
    <2>1. ASSUME fragCache_' = fragCache_, out' = out
          PROVE  SetOfState(Then)
        BY <1>1, <2>1, Zenon DEF Then, Now
    <2>2. <<>> \in Seq(Nat)
        OBVIOUS
    <2>3. CASE WaitForHeader
        BY <1>1, <2>1, <2>3, Zenon DEF WaitForHeader
    <2>4. CASE Resync
        <3>1. PICK i \in 1..(Len(buffer_) - Len(PROTO_MAGIC)) : DropTo(i)
            BY <2>4, Zenon DEF Resync
        <3>2. i \in Nat
            OBVIOUS
        <3>3. buffer_' = SubSeq(buffer_, i + 1, Len(buffer_)) /\ decoding' = decoding
            BY <3>1, Zenon DEF DropTo, Drop
        <3>4. buffer_' \in Seq(Nat)
            BY <3>2, <3>3, RestType
        <3>5. fragCache_' = fragCache_ /\ out' = out
            BY <2>4, Zenon DEF Resync
        <3> QED
            BY <1>1, <2>1, <3>3, <3>4, <3>5, Zenon
    <2>5. CASE NoMagic
        BY <1>1, <2>1, <2>2, <2>5, Zenon DEF NoMagic
    <2>6. CASE VersionMismatch
        BY <1>1, <2>1, <2>2, <2>6, Zenon DEF VersionMismatch
    <2>7. CASE Heartbeat
        <3>1. buffer_' = SubSeq(buffer_, PROTO_HEADER_SIZE + 1, Len(buffer_))
            BY <2>7, Zenon DEF Heartbeat, Drop
        <3>2. PROTO_HEADER_SIZE \in Nat
            BY DEF PROTO_HEADER_SIZE
        <3>3. buffer_' \in Seq(Nat)
            BY <3>1, <3>2, RestType
        <3> QED
            BY <1>1, <2>1, <2>7, <3>3, Zenon DEF Heartbeat
    <2>8. CASE WaitForPayload
        BY <1>1, <2>1, <2>8, Zenon DEF WaitForPayload
    <2>9. CASE handleSingleFrame
        <3>1. IsFrame(Frame)
            BY <2>9, HandledFrame
        <3>2. Then = After(Now, Frame) /\ buffer_' = SubSeq(buffer_, Len(Frame) + 1, Len(buffer_))
            BY <2>9, HandledIs
        <3>3. SetOfState(Then)
            BY <1>1, <3>1, <3>2, AfterType
        <3>4. Len(Frame) \in Nat
            BY <3>1, LenProperties DEF IsFrame
        <3>5. buffer_' \in Seq(Nat)
            BY <3>2, <3>4, RestType
        <3> QED
            BY <1>1, <2>9, <3>3, <3>5, Zenon DEF handleSingleFrame
    <2> QED
        BY <2>3, <2>4, <2>5, <2>6, <2>7, <2>8, <2>9, Zenon DEF Decode
<1> QED
    BY <1>1, <1>2, <1>3, ThenType

\* decode before anything has come.
Nothing == [cache |-> <<>>, out |-> <<>>]

\* It is done with everything, whatever the ids.
LEMMA NothingEnded ==
    ASSUME NEW uid \in Nat
    PROVE  Ended(Nothing, <<>>, uid)
<1>1. PICK s : s = Nothing
    OBVIOUS
<1>2. s.cache = <<>> /\ s.out = <<>> /\ Len(<<>>) = 0 /\ <<>> \in Seq(DecodedPacket)
    BY <1>1 DEF Nothing
<1>3. IsCache(<<>>) /\ DOMAIN <<>> = {}
    BY DEF IsCache
<1>4. IsPrefix(<<>>, <<>>)
    BY <1>2, PrefixOfItself
<1>5. s = [cache |-> s.cache, out |-> s.out]
    BY <1>1 DEF Nothing
<1>6. Good(s, <<>>, uid)
    <2>1. \A j \in 1..Len(s.out) : FALSE
        BY <1>2
    <2>2. DOMAIN s.cache \subseteq 0..(uid - 1)
        BY <1>2, <1>3
    <2>3. IsCache(s.cache) /\ s.out \in Seq(DecodedPacket) /\ IsPrefix(s.out, <<>>)
        BY <1>2, <1>3, <1>4, Zenon
    <2> QED
        BY <1>5, <2>1, <2>2, <2>3, Zenon DEF Good
<1> QED
    BY <1>1, <1>2, <1>6, Zenon DEF Ended

\* No frames leave it so.
LEMMA NothingEnds ==
    ASSUME NEW uid \in Nat
    PROVE  Ends(Nothing, <<>>, <<>>, uid)
<1>1. Ended(Nothing, <<>>, uid)
    BY NothingEnded
<1>2. Reaches(Nothing, <<>>, Nothing, <<>>, uid)
    BY <1>1, ReachesNone DEF Ended
<1> QED
    BY <1>1, <1>2, Zenon DEF Ends

\* When the first frames are lost, what is left gives the packets from some id on.
StartsLate(frames, packets, uid, later) ==
    \A j \in 1..Len(frames) : \E id \in uid..later :
        Ends(Nothing, Behind(frames, j), PacketsFrom(id, packets), later)

\* What is left of one message gives none.
LEMMA OneStartsLate ==
    ASSUME NEW uid \in Nat, NEW body \in Seq(Nat), body # <<>>,
           NEW frames, LateBehind(frames, uid, body),
           NEW packets \in Seq(DecodedPacket),
           \A k \in 1..Len(packets) : packets[k].msgId = uid
    PROVE  StartsLate(frames, packets, uid, uid + 1)
<1>1. PICK later \in Nat : later = uid + 1 /\ later \in uid..later
    <2>1. uid + 1 \in Nat /\ uid + 1 \in uid..(uid + 1)
        OBVIOUS
    <2> QED
        BY <2>1, Zenon
<1>2. PacketsFrom(later, packets) = <<>>
    <2>1. uid \in 0..(later - 1)
        BY <1>1
    <2>2. \A k \in 1..Len(packets) : packets[k].msgId \in 0..(later - 1)
        BY <2>1, Zenon
    <2> QED
        BY <2>2, PacketsFromEarlier
<1>3. ASSUME NEW j \in 1..Len(frames)
      PROVE  Ends(Nothing, Behind(frames, j), PacketsFrom(later, packets), later)
    <2>1. Ended(Nothing, <<>>, uid) /\ <<>> \in Seq(DecodedPacket)
        BY NothingEnded
    <2>2. Ends(Nothing, Behind(frames, j), <<>>, uid + 1)
        BY <2>1, LeftEnds
    <2> QED
        BY <1>1, <1>2, <2>2, Zenon
<1> QED
    BY <1>1, <1>3, Zenon DEF StartsLate

\* A sequence with all its elements in T.
LEMMA SequenceOf ==
    ASSUME NEW D, NEW fs \in Seq(D), NEW T, \A k \in 1..Len(fs) : fs[k] \in T
    PROVE  fs \in Seq(T)
<1>1. PICK n \in Nat : n = Len(fs) /\ DOMAIN fs = 1..n
    BY LenProperties
<1>2. fs = [k \in 1..n |-> fs[k]]
    BY <1>1, LenProperties
<1>3. fs \in [1..n -> T]
    BY <1>1, <1>2
<1> QED
    BY <1>3, FunctionIsSeq

\* A message as it is and damaged.
LEMMA WithDamagesHas ==
    ASSUME NEW frames
    PROVE  /\ frames \in WithDamages(frames)
           /\ \A k \in DOMAIN frames, how \in Damages :
                 Damaged(frames, k, how) \in WithDamages(frames)
BY DEF WithDamages

\* The peer sends a message as it is or damaged.
LEMMA SendingsHas ==
    ASSUME NEW id \in 0..(MaxMessages - 1), NEW body \in Bodies
    PROVE  WithDamages(encode(id, body)) \subseteq Sendings
BY DEF Sendings

\* What is known to be a frame of the peer.
LEMMA PeerFramesHas ==
    /\ HeartbeatFrame \in PeerFrames
    /\ \A frames \in Sendings : Range(frames) \subseteq PeerFrames
BY DEF PeerFrames

\* The frames of a message of the peer, damaged or not.
LEMMA PeersFrame ==
    ASSUME NEW id \in 0..(MaxMessages - 1), NEW body \in Bodies,
           NEW frames \in WithDamages(encode(id, body)), frames \in Seq(Seq(Nat)),
           NEW k \in 1..Len(frames)
    PROVE  frames[k] \in PeerFrames
<1>1. frames[k] \in Range(frames)
    <2>1. k \in DOMAIN frames
        BY LenProperties
    <2> QED
        BY <2>1 DEF Range
<1>2. frames \in Sendings
    BY SendingsHas
<1> QED
    BY <1>1, <1>2, PeerFramesHas

\* They are frames of the peer.
LEMMA PeersFrames ==
    ASSUME NEW id \in 0..(MaxMessages - 1), NEW body \in Bodies,
           NEW frames \in WithDamages(encode(id, body)), frames \in Seq(Seq(Nat))
    PROVE  frames \in Seq(PeerFrames)
<1>1. \A k \in 1..Len(frames) : frames[k] \in PeerFrames
    BY PeersFrame
<1> QED
    BY <1>1, SequenceOf

\* Every step of the peer sends frames.  It is known what they do to a decode that is
\* done with everything before them, and to one that sees them as the first, and
\* not from the beginning.
PeerSent(frames, packets, later) ==
    /\ Frames(frames) /\ packets \in Seq(DecodedPacket)
    /\ later \in Nat /\ sentMsgUid_ <= later
    /\ \A k \in 1..Len(packets) : packets[k].msgId \in sentMsgUid_..(later - 1)
    /\ \A before \in Seq(DecodedPacket) : \A s :
          Ended(s, before, sentMsgUid_) => Ends(s, frames, before \o packets, later)
    /\ StartsLate(frames, packets, sentMsgUid_, later)
    /\ sentMsgUid_ <= count => frames \in Seq(PeerFrames) /\ later <= count'
    /\ wire' = wire \o FlattenSeq(frames) /\ sent' = sent \o packets
    /\ sentMsgUid_' = later /\ count' \in 0..MaxMessages
    /\ UNCHANGED <<buffer_, fragCache_, decoding, out>>

\* What every action of the peer does to the variables.
LEMMA PeerSendsIs ==
    ASSUME TypeOK, NEW frames, NEW packets, NEW ids \in Nat, PeerSends(frames, packets, ids)
    PROVE  /\ wire' = wire \o FlattenSeq(frames) /\ sent' = sent \o packets
           /\ count' \in 0..MaxMessages /\ count' = count + ids /\ count + ids <= MaxMessages
           /\ count \in Nat /\ MaxMessages \in Nat
           /\ UNCHANGED <<buffer_, fragCache_, decoding, out>>
<1>1. count + ids <= MaxMessages /\ count' = count + ids
    BY DEF PeerSends
<1>2. count \in 0..MaxMessages /\ MaxMessages \in Nat
    BY CodecAssumption DEF TypeOK
<1>3. count' \in 0..MaxMessages /\ count \in Nat
    BY <1>1, <1>2
<1> QED
    BY <1>1, <1>2, <1>3, Zenon DEF PeerSends

\* The bodies are sequences of cells, and not empty.
LEMMA BodyType ==
    ASSUME NEW body \in Bodies
    PROVE  body \in Seq(Nat) /\ body # <<>>
BY CodecAssumption

\* Carries is a case of Ends.
LEMMA CarriesEnds ==
    ASSUME NEW s, NEW frames, NEW packets, NEW more, NEW later,
           Carries(s, frames, packets, more, later)
    PROVE  Ends(s, frames, packets \o more, later)
BY Zenon DEF Carries, Ends

\* sendMessage sends frames that arrive.
LEMMA MessageSent ==
    ASSUME TypeOK, sendMessage
    PROVE  \E frames, packets, later : PeerSent(frames, packets, later)
<1>1. PICK body \in Bodies :
          /\ PeerSends(encode(sentMsgUid_, body), <<PacketOf(sentMsgUid_, body)>>, 1)
          /\ sentMsgUid_' = sentMsgUid_ + 1
    BY DEF sendMessage
<1>2. body \in Seq(Nat) /\ body # <<>>
    BY BodyType
<1>3. PICK uid \in Nat : uid = sentMsgUid_
    BY DEF TypeOK
<1>4. PICK later \in Nat : later = uid + 1 /\ uid <= later
    <2>1. uid + 1 \in Nat /\ uid <= uid + 1
        OBVIOUS
    <2> QED
        BY <2>1, Zenon
<1>5. PICK frames : frames = encode(uid, body) /\ Frames(frames)
    BY <1>2, EncodeFrames
<1>6. PICK packets \in Seq(DecodedPacket) : packets = <<PacketOf(uid, body)>>
    <2>1. PacketOf(uid, body) \in DecodedPacket
        BY <1>2, PacketType
    <2>2. <<PacketOf(uid, body)>> \in Seq(DecodedPacket)
        BY <2>1
    <2> QED
        BY <2>2
<1>7. \A k \in 1..Len(packets) : packets[k].msgId = uid
    <2>1. PICK p : p = PacketOf(uid, body) /\ p.msgId = uid
        BY <1>2, PacketType
    <2>2. Len(<<p>>) = 1 /\ <<p>>[1] = p /\ \A k \in 1..1 : k = 1
        OBVIOUS
    <2> QED
        BY <1>6, <2>1, <2>2, Zenon
<1>8. ASSUME NEW before \in Seq(DecodedPacket), NEW s, Ended(s, before, uid)
      PROVE  Ends(s, frames, before \o packets, later)
    <2>1. Arrives(s, uid, body, before)
        BY <1>2, <1>8, MessageArrives
    <2> QED
        BY <1>4, <1>5, <1>6, <2>1, Zenon DEF Arrives, Ends
<1>9. StartsLate(frames, packets, uid, later)
    <2>1. LateBehind(frames, uid, body)
        BY <1>2, <1>5, EncodeLate
    <2>2. StartsLate(frames, packets, uid, uid + 1)
        BY <1>2, <1>7, <2>1, OneStartsLate
    <2> QED
        BY <1>4, <2>2, Zenon
<1>10. PeerSends(frames, packets, 1) /\ 1 \in Nat
    BY <1>1, <1>3, <1>5, <1>6, Zenon
<1>11. /\ wire' = wire \o FlattenSeq(frames) /\ sent' = sent \o packets
       /\ count' \in 0..MaxMessages /\ count' = count + 1 /\ count + 1 <= MaxMessages
       /\ count \in Nat /\ MaxMessages \in Nat
       /\ UNCHANGED <<buffer_, fragCache_, decoding, out>>
    BY <1>10, PeerSendsIs
<1>12. ASSUME uid <= count
       PROVE  frames \in Seq(PeerFrames) /\ later <= count'
    <2>1. uid \in 0..(MaxMessages - 1) /\ later <= count'
        BY <1>4, <1>11, <1>12
    <2>2. frames \in WithDamages(encode(uid, body)) /\ frames \in Seq(Seq(Nat))
        BY <1>5, WithDamagesHas, Zenon DEF Frames
    <2> QED
        BY <2>1, <2>2, PeersFrames
<1>13. \A k \in 1..Len(packets) : packets[k].msgId \in uid..(later - 1)
    <2>1. uid \in uid..(later - 1)
        BY <1>4
    <2> QED
        BY <1>7, <2>1, Zenon
<1>14. PeerSent(frames, packets, later)
    BY <1>1, <1>3, <1>4, <1>5, <1>8, <1>9, <1>11, <1>12, <1>13, Zenon DEF PeerSent
<1> QED
    BY <1>14

\* The fields of a heartbeat.
LEMMA HeartbeatCells ==
    /\ Cells(HeartbeatFrame, HEARTBEAT, 0, 0, 0, 0, 0, <<>>) /\ HeartbeatFrame \in Seq(Nat)
    /\ IsMessage(HeartbeatFrame)
<1>1. PICK empty \in Seq(Nat) : empty = <<>> /\ Len(empty) = 0
    <2>1. <<>> \in Seq(Nat) /\ Len(<<>>) = 0
        OBVIOUS
    <2> QED
        BY <2>1, Zenon
<1>2. 0 \in Nat /\ HEARTBEAT \in Nat
    BY DEF HEARTBEAT
<1>3. Cells(createProtoHeader(HEARTBEAT, Len(empty), 0, 0, 0, 0, 0) \o empty,
            HEARTBEAT, 0, 0, 0, 0, 0, empty)
    BY <1>2, FrameCells
<1>4. createProtoHeader(HEARTBEAT, 0, 0, 0, 0, 0, 0) \in Seq(Nat)
    <2>1. HeaderIs(createProtoHeader(HEARTBEAT, 0, 0, 0, 0, 0, 0), HEARTBEAT, 0, 0, 0, 0, 0, 0)
        BY <1>2, HeaderCells
    <2> QED
        BY <2>1 DEF HeaderIs
<1>5. createProtoHeader(HEARTBEAT, Len(empty), 0, 0, 0, 0, 0) \o empty = HeartbeatFrame
    <2>1. createProtoHeader(HEARTBEAT, 0, 0, 0, 0, 0, 0) \o empty =
              createProtoHeader(HEARTBEAT, 0, 0, 0, 0, 0, 0)
        BY <1>1, <1>4, ConcatEmptySeq
    <2> QED
        BY <1>1, <2>1, Zenon DEF HeartbeatFrame
<1>6. Cells(HeartbeatFrame, HEARTBEAT, 0, 0, 0, 0, 0, <<>>)
    BY <1>1, <1>3, <1>5, Zenon
<1>7. IsMessage(HeartbeatFrame)
    BY <1>1, <1>6, Zenon DEF Cells, IsMessage
<1>8. HeartbeatFrame \in Seq(Nat)
    BY <1>4 DEF HeartbeatFrame
<1> QED
    BY <1>6, <1>7, <1>8

\* sendHeartBeat sends a frame that changes nothing.
LEMMA HeartbeatSent ==
    ASSUME TypeOK, sendHeartBeat
    PROVE  \E frames, packets, later : PeerSent(frames, packets, later)
<1>1. PeerSends(<<HeartbeatFrame>>, <<>>, 1) /\ sentMsgUid_' = sentMsgUid_ /\ 1 \in Nat
    BY DEF sendHeartBeat
<1>2. Frames(<<HeartbeatFrame>>)
    BY HeartbeatCells, FramesOne
<1>3. PICK uid \in Nat : uid = sentMsgUid_ /\ uid <= uid
    BY DEF TypeOK
<1>4. <<>> \in Seq(DecodedPacket) /\ Len(<<>>) = 0
    OBVIOUS
<1>5. ASSUME NEW before \in Seq(DecodedPacket), NEW s, Ended(s, before, uid)
      PROVE  Ends(s, <<HeartbeatFrame>>, before \o <<>>, uid)
    <2>1. Good(s, before, uid)
        BY <1>5 DEF Ended
    <2>2. After(s, HeartbeatFrame) = s
        BY HeartbeatCells, AfterHeartbeat
    <2>3. Reaches(s, <<HeartbeatFrame>>, s, before, uid)
        BY <2>1, <2>2, ReachesOne
    <2>4. before \o <<>> = before
        BY ConcatEmptySeq
    <2> QED
        BY <1>5, <2>3, <2>4, Zenon DEF Ends
<1>6. StartsLate(<<HeartbeatFrame>>, <<>>, uid, uid)
    <2>1. PICK fs \in Seq(Seq(Nat)) : fs = <<HeartbeatFrame>>
        BY <1>2, Zenon DEF Frames
    <2>2. Len(fs) = 1 /\ 1 \in Nat /\ \A j \in 1..1 : j = 1
        BY <2>1
    <2>3. Behind(fs, 1) = <<>>
        BY <2>2, BehindEnds
    <2>4. PacketsFrom(uid, <<>>) = <<>>
        BY <1>4, PacketsFromType
    <2>5. Ends(Nothing, <<>>, <<>>, uid)
        BY NothingEnds
    <2>6. uid \in uid..uid
        OBVIOUS
    <2> QED
        BY <2>1, <2>2, <2>3, <2>4, <2>5, <2>6, Zenon DEF StartsLate
<1>7. /\ wire' = wire \o FlattenSeq(<<HeartbeatFrame>>) /\ sent' = sent \o <<>>
      /\ count' \in 0..MaxMessages /\ count' = count + 1 /\ count + 1 <= MaxMessages
      /\ count \in Nat /\ MaxMessages \in Nat
      /\ UNCHANGED <<buffer_, fragCache_, decoding, out>>
    BY <1>1, PeerSendsIs
<1>8. ASSUME uid <= count
      PROVE  <<HeartbeatFrame>> \in Seq(PeerFrames) /\ uid <= count'
    <2>1. HeartbeatFrame \in PeerFrames
        BY PeerFramesHas
    <2>2. <<HeartbeatFrame>> \in Seq(PeerFrames)
        BY <2>1
    <2>3. uid <= count'
        BY <1>7, <1>8
    <2> QED
        BY <2>2, <2>3
<1>9. \A k \in 1..Len(<<>>) : <<>>[k].msgId \in uid..(uid - 1)
    BY <1>4
<1>10. PeerSent(<<HeartbeatFrame>>, <<>>, uid)
    BY <1>1, <1>2, <1>3, <1>4, <1>5, <1>6, <1>7, <1>8, <1>9, Zenon DEF PeerSent
<1> QED
    BY <1>10

\* A message amid another goes in frames of the peer.
LEMMA NestedPeersFrames ==
    ASSUME NEW uid \in 0..(MaxMessages - 1), uid + 1 \in 0..(MaxMessages - 1),
           NEW outer \in Bodies, NEW inner \in Bodies, Len(encode(uid, outer)) > 1
    PROVE  NestedFrames(uid, outer, inner) \in Seq(PeerFrames)
<1>1. outer \in Seq(Nat) /\ outer # <<>> /\ inner \in Seq(Nat) /\ inner # <<>> /\ uid \in Nat
      /\ uid + 1 \in Nat
    BY BodyType
<1>2. PICK frames \in Seq(Seq(Nat)) : frames = encode(uid, outer)
    BY <1>1, EncodeFrames DEF Frames
<1>3. PICK middle \in Seq(Seq(Nat)) : middle = encode(uid + 1, inner)
    BY <1>1, EncodeFrames DEF Frames
<1>4. PICK n \in Nat \ {0} : n = Len(frames)
    BY <1>2, LenProperties
<1>5. \A k \in 1..n : frames[k] \in PeerFrames
    <2>1. frames \in WithDamages(encode(uid, outer))
        BY <1>2, WithDamagesHas, Zenon
    <2> QED
        BY <1>4, <2>1, PeersFrame
<1>6. middle \in Seq(PeerFrames)
    <2>1. middle \in WithDamages(encode(uid + 1, inner))
        BY <1>3, WithDamagesHas, Zenon
    <2>2. PICK mid \in 0..(MaxMessages - 1) : mid = uid + 1
        OBVIOUS
    <2>3. middle \in WithDamages(encode(mid, inner))
        BY <2>1, <2>2, Zenon
    <2> QED
        BY <2>3, PeersFrames
<1>7. PICK front \in Seq(PeerFrames) : front = Front(frames)
    <2>1. /\ Front(frames) \in Seq(Seq(Nat)) /\ Len(Front(frames)) = n - 1
          /\ \A i \in 1..(n - 1) : Front(frames)[i] = frames[i]
        BY <1>4, AllButLast
    <2>2. \A i \in 1..(n - 1) : i \in 1..n
        OBVIOUS
    <2>3. \A i \in 1..Len(Front(frames)) : Front(frames)[i] \in PeerFrames
        BY <1>5, <2>1, <2>2, Zenon
    <2>4. Front(frames) \in Seq(PeerFrames)
        BY <2>1, <2>3, SequenceOf
    <2> QED
        BY <2>4, Zenon
<1>8. PICK last \in Seq(PeerFrames) : last = <<Last(frames)>>
    <2>1. Last(frames) = frames[n]
        BY <1>4, SplitLast
    <2>2. PICK f \in PeerFrames : f = Last(frames)
        <3>1. n \in 1..n
            BY <1>4
        <3> QED
            BY <1>5, <2>1, <3>1
    <2>3. <<f>> \in Seq(PeerFrames)
        OBVIOUS
    <2> QED
        BY <2>2, <2>3, Zenon
<1>9. (front \o middle) \o last \in Seq(PeerFrames)
    <2>1. front \o middle \in Seq(PeerFrames)
        BY <1>6, ConcatProperties
    <2> QED
        BY <2>1, ConcatProperties
<1> QED
    BY <1>2, <1>3, <1>7, <1>8, <1>9, Zenon DEF NestedFrames

\* sendNested sends frames that arrive.
LEMMA NestedSent ==
    ASSUME TypeOK, sendNested
    PROVE  \E frames, packets, later : PeerSent(frames, packets, later)
<1>1. PICK outer \in Bodies, inner \in Bodies :
          /\ Len(encode(sentMsgUid_, outer)) > 1
          /\ PeerSends(NestedFrames(sentMsgUid_, outer, inner),
                       NestedPackets(sentMsgUid_, outer, inner), 2)
          /\ sentMsgUid_' = sentMsgUid_ + 2
    BY Zenon DEF sendNested, NestedFrames, NestedPackets
<1>2. outer \in Seq(Nat) /\ outer # <<>> /\ inner \in Seq(Nat) /\ inner # <<>>
    BY BodyType
<1>3. PICK uid \in Nat : uid = sentMsgUid_
    BY DEF TypeOK
<1>4. PICK later \in Nat : later = uid + 2 /\ uid <= later
    <2>1. uid + 2 \in Nat /\ uid <= uid + 2
        OBVIOUS
    <2> QED
        BY <2>1, Zenon
<1>5. Len(encode(uid, outer)) > 1
    BY <1>1, <1>3
<1>6. PICK frames : frames = NestedFrames(uid, outer, inner) /\ Frames(frames)
    BY <1>2, <1>5, NestedAreFrames
<1>7. PICK p \in DecodedPacket : p = PacketOf(uid + 1, inner) /\ p.msgId = uid + 1
    BY <1>2, PacketType
<1>8. PICK q \in DecodedPacket : q = PacketOf(uid, outer) /\ q.msgId = uid
    BY <1>2, PacketType
<1>9. PICK packets \in Seq(DecodedPacket) : packets = <<p, q>> /\
          packets = NestedPackets(uid, outer, inner)
    <2>1. <<p, q>> \in Seq(DecodedPacket)
        OBVIOUS
    <2> QED
        BY <1>7, <1>8, <2>1, Zenon DEF NestedPackets
<1>10. ASSUME NEW before \in Seq(DecodedPacket), NEW s, Ended(s, before, uid)
       PROVE  Ends(s, frames, before \o packets, later)
    <2>1. Carries(s, NestedFrames(uid, outer, inner), before,
                  NestedPackets(uid, outer, inner), uid + 2)
        BY <1>2, <1>5, <1>10, NestedArrives
    <2>2. Carries(s, frames, before, packets, later)
        BY <1>4, <1>6, <1>9, <2>1, Zenon
    <2> QED
        BY <2>2, CarriesEnds
<1>11. StartsLate(frames, packets, uid, later)
    <2>1. PICK l \in Nat : l = Len(frames)
        BY <1>6, LenProperties DEF Frames
    <2>2. Ended(Nothing, <<>>, uid) /\ <<>> \in Seq(DecodedPacket)
        BY NothingEnded
    <2>3. ASSUME NEW j \in 1..l
          PROVE  \E id \in uid..later :
                     Ends(Nothing, Behind(frames, j), PacketsFrom(id, packets), later)
        <3>1. \E id \in uid..(uid + 2) :
                  Ends(Nothing, Behind(NestedFrames(uid, outer, inner), j),
                       <<>> \o PacketsFrom(id, NestedPackets(uid, outer, inner)), uid + 2)
            BY <1>2, <1>5, <1>6, <2>1, <2>2, NestedLate
        <3>2. PICK id \in uid..later :
                  Ends(Nothing, Behind(frames, j), <<>> \o PacketsFrom(id, packets), later)
            BY <1>4, <1>6, <1>9, <3>1, Zenon
        <3>3. PICK from \in Seq(DecodedPacket) : from = PacketsFrom(id, packets)
            BY PacketsFromType
        <3>4. <<>> \o from = from
            BY ConcatEmptySeq
        <3> QED
            BY <3>2, <3>3, <3>4, Zenon
    <2> QED
        BY <2>1, <2>3, Zenon DEF StartsLate
<1>12. PeerSends(frames, packets, 2) /\ 2 \in Nat
    BY <1>1, <1>3, <1>6, <1>9, Zenon
<1>13. /\ wire' = wire \o FlattenSeq(frames) /\ sent' = sent \o packets
       /\ count' \in 0..MaxMessages /\ count' = count + 2 /\ count + 2 <= MaxMessages
       /\ count \in Nat /\ MaxMessages \in Nat
       /\ UNCHANGED <<buffer_, fragCache_, decoding, out>>
    BY <1>12, PeerSendsIs
<1>14. ASSUME uid <= count
       PROVE  frames \in Seq(PeerFrames) /\ later <= count'
    <2>1. uid \in 0..(MaxMessages - 1) /\ uid + 1 \in 0..(MaxMessages - 1) /\ later <= count'
        BY <1>4, <1>13, <1>14
    <2>2. NestedFrames(uid, outer, inner) \in Seq(PeerFrames)
        BY <1>5, <2>1, NestedPeersFrames
    <2> QED
        BY <1>6, <2>1, <2>2, Zenon
<1>15. \A k \in 1..Len(packets) : packets[k].msgId \in uid..(later - 1)
    <2>1. uid \in uid..(later - 1) /\ uid + 1 \in uid..(later - 1)
        BY <1>4
    <2>2. Len(<<p, q>>) = 2 /\ <<p, q>>[1] = p /\ <<p, q>>[2] = q /\ \A k \in 1..2 : k = 1 \/ k = 2
        OBVIOUS
    <2> QED
        BY <1>7, <1>8, <1>9, <2>1, <2>2, Zenon
<1>16. PeerSent(frames, packets, later)
    BY <1>1, <1>3, <1>4, <1>6, <1>10, <1>11, <1>13, <1>14, <1>15, Zenon DEF PeerSent
<1> QED
    BY <1>16

\* Also of a damaged message the frames behind the first are late.
LEMMA DamagedLate ==
    ASSUME NEW uid \in Nat, NEW body \in Seq(Nat), body # <<>>, NEW how \in Damages,
           NEW k \in DOMAIN encode(uid, body),
           NEW frames, frames = Damaged(encode(uid, body), k, how), Frames(frames)
    PROVE  LateBehind(frames, uid, body)
<1>1. PICK all \in Seq(Seq(Nat)) : all = encode(uid, body)
    BY EncodeFrames DEF Frames
<1>2. PICK n \in Nat : n = Len(all) /\ k \in 1..n
    BY <1>1, LenProperties
<1>3. how = "missing" \/ how \in Spoils
    BY CodecAssumption DEF Spoils
<1>4. CASE how = "missing"
    <2>1. LateBehind(all, uid, body)
        BY <1>1, EncodeLate
    <2>2. LateBehind(RemoveAt(all, k), uid, body)
        BY <1>2, <2>1, MissingLate
    <2> QED
        BY <1>1, <1>4, <2>2 DEF Damaged
<1>5. CASE how \in Spoils
    <2>1. Damaged(all, k, how) = Put(all, k, Spoilt(all[k], how))
        BY <1>1, <1>2, <1>5, DamagedIs
    <2>2. frames \in Seq(Seq(Nat)) /\ frames = Put(encode(uid, body), k,
                                                   Spoilt(encode(uid, body)[k], how))
        BY <1>1, <2>1, Zenon DEF Frames
    <2>3. n = Len(encode(uid, body))
        BY <1>1, <1>2
    <2> QED
        BY <1>2, <1>5, <2>2, <2>3, SpoiltLate
<1> QED
    BY <1>3, <1>4, <1>5

\* sendDamaged sends frames that give nothing.
LEMMA DamagedSent ==
    ASSUME TypeOK, sendDamaged
    PROVE  \E frames, packets, later : PeerSent(frames, packets, later)
<1>0. PICK body \in Bodies, how \in Damages : \E k \in DOMAIN encode(sentMsgUid_, body) :
          /\ how = "seq" => Len(encode(sentMsgUid_, body)) > 1
          /\ PeerSends(Damaged(encode(sentMsgUid_, body), k, how), <<>>, 1)
          /\ sentMsgUid_' = sentMsgUid_ + 1
    BY Zenon DEF sendDamaged
<1>1. PICK k \in DOMAIN encode(sentMsgUid_, body) :
          /\ how = "seq" => Len(encode(sentMsgUid_, body)) > 1
          /\ PeerSends(Damaged(encode(sentMsgUid_, body), k, how), <<>>, 1)
          /\ sentMsgUid_' = sentMsgUid_ + 1
    BY <1>0, Zenon
<1>2. body \in Seq(Nat) /\ body # <<>>
    BY BodyType
<1>3. PICK uid \in Nat : uid = sentMsgUid_
    BY DEF TypeOK
<1>4. PICK later \in Nat : later = uid + 1 /\ uid <= later
    <2>1. uid + 1 \in Nat /\ uid <= uid + 1
        OBVIOUS
    <2> QED
        BY <2>1, Zenon
<1>5. <<>> \in Seq(DecodedPacket) /\ Len(<<>>) = 0
    OBVIOUS
<1>6. PICK frames : frames = Damaged(encode(uid, body), k, how)
    OBVIOUS
<1>7. ASSUME NEW s, NEW packets \in Seq(DecodedPacket), Ended(s, packets, uid)
      PROVE  FramesEnd(s, frames, packets, later)
    <2>1. k \in 1..Len(encode(uid, body))
        <3>1. encode(uid, body) \in Seq(Seq(Nat))
            BY <1>2, EncodeFrames DEF Frames
        <3>2. DOMAIN encode(uid, body) = 1..Len(encode(uid, body))
            BY <3>1, LenProperties
        <3> QED
            BY <1>1, <1>3, <3>2, Zenon
    <2>2. how = "missing" \/ how \in Spoils
        BY CodecAssumption DEF Spoils
    <2>3. CASE how = "missing"
        <3>1. FramesEnd(s, Damaged(encode(uid, body), k, "missing"), packets, uid + 1)
            BY <1>2, <1>7, <2>1, MissingArrives
        <3> QED
            BY <1>4, <1>6, <2>3, <3>1, Zenon
    <2>4. CASE how \in Spoils
        <3>1. how = "seq" => Len(encode(uid, body)) > 1
            BY <1>1, <1>3
        <3>2. FramesEnd(s, Damaged(encode(uid, body), k, how), packets, uid + 1)
            BY <1>2, <1>7, <2>1, <2>4, <3>1, SpoiltArrives
        <3> QED
            BY <1>4, <1>6, <3>2, Zenon
    <2> QED
        BY <2>2, <2>3, <2>4
<1>8. Frames(frames)
    <2>1. Ended(Nothing, <<>>, uid)
        BY NothingEnded
    <2> QED
        BY <1>5, <1>7, <2>1, Zenon DEF FramesEnd
<1>9. ASSUME NEW before \in Seq(DecodedPacket), NEW s, Ended(s, before, uid)
      PROVE  Ends(s, frames, before \o <<>>, later)
    <2>1. before \o <<>> = before
        BY ConcatEmptySeq
    <2> QED
        BY <1>7, <1>9, <2>1, Zenon DEF FramesEnd
<1>10. StartsLate(frames, <<>>, uid, later)
    <2>1. LateBehind(frames, uid, body)
        BY <1>1, <1>2, <1>3, <1>6, <1>8, DamagedLate
    <2>2. \A i \in 1..Len(<<>>) : <<>>[i].msgId = uid
        BY <1>5
    <2>3. StartsLate(frames, <<>>, uid, uid + 1)
        BY <1>2, <1>5, <2>1, <2>2, OneStartsLate
    <2> QED
        BY <1>4, <2>3, Zenon
<1>11. PeerSends(frames, <<>>, 1) /\ 1 \in Nat
    BY <1>1, <1>3, <1>6, Zenon
<1>12. /\ wire' = wire \o FlattenSeq(frames) /\ sent' = sent \o <<>>
       /\ count' \in 0..MaxMessages /\ count' = count + 1 /\ count + 1 <= MaxMessages
       /\ count \in Nat /\ MaxMessages \in Nat
       /\ UNCHANGED <<buffer_, fragCache_, decoding, out>>
    BY <1>11, PeerSendsIs
<1>13. ASSUME uid <= count
       PROVE  frames \in Seq(PeerFrames) /\ later <= count'
    <2>1. uid \in 0..(MaxMessages - 1) /\ later <= count'
        BY <1>4, <1>12, <1>13
    <2>2. frames \in WithDamages(encode(uid, body)) /\ frames \in Seq(Seq(Nat))
        BY <1>1, <1>3, <1>6, <1>8, WithDamagesHas, Zenon DEF Frames
    <2> QED
        BY <2>1, <2>2, PeersFrames
<1>14. \A i \in 1..Len(<<>>) : <<>>[i].msgId \in uid..(later - 1)
    BY <1>5
<1>15. PeerSent(frames, <<>>, later)
    BY <1>1, <1>3, <1>4, <1>5, <1>8, <1>9, <1>10, <1>12, <1>13, <1>14, Zenon DEF PeerSent
<1> QED
    BY <1>15

\* Whatever the peer does, it sends frames.
LEMMA PeerIs ==
    ASSUME TypeOK, Peer
    PROVE  \E frames, packets, later : PeerSent(frames, packets, later)
BY MessageSent, HeartbeatSent, NestedSent, DamagedSent DEF Peer

\* The peer leaves the types.
LEMMA PeerType ==
    ASSUME TypeOK, Peer
    PROVE  TypeOK'
<1>1. PICK frames, packets, later : PeerSent(frames, packets, later)
    BY PeerIs
<1>2. /\ wire \in Seq(Nat) /\ buffer_ \in Seq(Nat) /\ SetOfState(Now) /\ decoding \in BOOLEAN
      /\ sentMsgUid_ \in Nat /\ sent \in Seq(DecodedPacket) /\ count \in 0..MaxMessages
    BY NowType
<1>3. FlattenSeq(frames) \in Seq(Nat)
    BY <1>1, FlattenSeqType DEF PeerSent, Frames
<1>4. wire \o FlattenSeq(frames) \in Seq(Nat)
    BY <1>2, <1>3, ConcatProperties
<1>5. sent \o packets \in Seq(DecodedPacket)
    BY <1>1, <1>2, ConcatProperties DEF PeerSent
<1>6. Then = Now
    BY <1>1, Zenon DEF PeerSent, Then, Now
<1>7. /\ wire' \in Seq(Nat) /\ buffer_' \in Seq(Nat) /\ SetOfState(Then) /\ decoding' \in BOOLEAN
      /\ sentMsgUid_' \in Nat /\ sent' \in Seq(DecodedPacket) /\ count' \in 0..MaxMessages
    BY <1>1, <1>2, <1>4, <1>5, <1>6, Zenon DEF PeerSent
<1> QED
    BY <1>7, ThenType

\* A read moves the front of what was sent to the back of the buffer.
LEMMA ReadIs ==
    ASSUME TypeOK, Read
    PROVE  /\ buffer_' \in Seq(Nat) /\ wire' \in Seq(Nat)
           /\ buffer_' \o wire' = buffer_ \o wire
<1>1. PICK n \in 1..Len(wire) :
          buffer_' = buffer_ \o SubSeq(wire, 1, n) /\ wire' = SubSeq(wire, n + 1, Len(wire))
    BY DEF Read
<1>2. PICK w \in Seq(Nat) : w = wire
    BY DEF TypeOK
<1>3. PICK l \in Nat : l = Len(w) /\ n \in 1..l
    BY <1>2, LenProperties
<1>4. PICK a \in Seq(Nat) : a = SubSeq(w, 1, n)
    <2>1. \A k \in 1..n : k \in 1..Len(w)
        BY <1>3
    <2>2. \A k \in 1..n : w[k] \in Nat
        BY <2>1, ElementOfSeq
    <2>3. SubSeq(w, 1, n) \in Seq(Nat)
        BY <1>3, <2>2, SubSeqProperties
    <2> QED
        BY <2>3
<1>5. PICK b \in Seq(Nat) : b = SubSeq(w, n + 1, l)
    <2>1. \A k \in (n + 1)..l : k \in 1..Len(w)
        BY <1>3
    <2>2. \A k \in (n + 1)..l : w[k] \in Nat
        BY <2>1, ElementOfSeq
    <2>3. SubSeq(w, n + 1, l) \in Seq(Nat)
        BY <1>3, <2>2, SubSeqProperties
    <2> QED
        BY <2>3
<1>6. a \o b = w
    <2>1. 1 \in 1..(Len(w) + 1) /\ n \in (1 - 1)..Len(w) /\ l \in n..Len(w)
        BY <1>3
    <2>2. SubSeq(w, 1, n) \o SubSeq(w, n + 1, l) = SubSeq(w, 1, l)
        BY <2>1, ConcatAdjacentSubSeq
    <2>3. SubSeq(w, 1, l) = w
        BY <1>3, SubSeqFull
    <2> QED
        BY <1>4, <1>5, <2>2, <2>3, Zenon
<1>7. buffer_ \in Seq(Nat)
    BY DEF TypeOK
<1>8. buffer_ \o a \in Seq(Nat)
    BY <1>7, ConcatProperties
<1>9. (buffer_ \o a) \o b = buffer_ \o (a \o b)
    <2>1. Associates(buffer_, a, b)
        BY <1>7, Associative
    <2> QED
        BY <2>1, Zenon DEF Associates
<1> QED
    BY <1>1, <1>2, <1>3, <1>4, <1>5, <1>6, <1>8, <1>9, Zenon

\* A read leaves the types.
LEMMA ReadType ==
    ASSUME TypeOK, Read
    PROVE  TypeOK'
<1>1. /\ SetOfState(Now) /\ sentMsgUid_ \in Nat /\ sent \in Seq(DecodedPacket)
      /\ count \in 0..MaxMessages
    BY NowType
<1>2. buffer_' \in Seq(Nat) /\ wire' \in Seq(Nat)
    BY ReadIs
<1>3. /\ Then = Now /\ decoding' \in BOOLEAN
      /\ sentMsgUid_' = sentMsgUid_ /\ sent' = sent /\ count' = count
    BY Zenon DEF Read, Then, Now, peerVars
<1> QED
    BY <1>1, <1>2, <1>3, ThenType

\* All variables have their types: whatever bytes come in, the cache holds
\* non-empty vectors of parts and what decode gives is a packet.
THEOREM CodecTypeCorrect == Spec => []TypeOK
<1>1. Init => TypeOK
    <2> SUFFICES ASSUME Init
                 PROVE  TypeOK
        OBVIOUS
    <2>1. wire \in Seq(Nat) /\ 0 \in 0..MaxMessages
        BY CodecAssumption DEF Init
    <2>2. <<>> \in Seq(Nat) /\ <<>> \in Seq(DecodedPacket) /\ DOMAIN <<>> = {} /\ 0 \in Nat
        OBVIOUS
    <2>3. DOMAIN fragCache_ \subseteq Nat /\ \A id \in DOMAIN fragCache_ : FALSE
        BY <2>2 DEF Init
    <2> QED
        BY <2>1, <2>2, <2>3, Zenon DEF Init, TypeOK
<1>2. TypeOK /\ [Next]_vars => TypeOK'
    <2> SUFFICES ASSUME TypeOK, [Next]_vars
                 PROVE  TypeOK'
        OBVIOUS
    <2>1. CASE Peer
        BY <2>1, PeerType
    <2>2. CASE Read
        BY <2>2, ReadType
    <2>3. CASE Decode
        BY <2>3, DecodeType
    <2>4. CASE UNCHANGED vars
        BY <2>4, Zenon DEF vars, peerVars, TypeOK
    <2> QED
        BY <2>1, <2>2, <2>3, <2>4, Zenon DEF Next
<1> QED
    BY <1>1, <1>2, PTL DEF Spec

\* Whatever bytes came in, what decode leaves in the buffer is at most the
\* beginning of a frame it understands.
THEOREM NoBacklogEver == Spec => []NoBacklog
<1>1. Init => NoBacklog
    <2> SUFFICES ASSUME Init
                 PROVE  NoBacklog
        OBVIOUS
    <2>1. ~(Len(buffer_) >= PROTO_HEADER_SIZE)
        BY DEF Init, PROTO_HEADER_SIZE
    <2> QED
        BY <2>1, Zenon DEF NoBacklog
<1>2. TypeOK /\ NoBacklog /\ [Next]_vars => NoBacklog'
    <2> SUFFICES ASSUME TypeOK, NoBacklog, [Next]_vars
                 PROVE  NoBacklog'
        OBVIOUS
    <2>1. ASSUME buffer_' = buffer_, decoding' = decoding
          PROVE  NoBacklog'
        BY <2>1, Zenon DEF NoBacklog, MagicAt, hdr
    <2>2. ASSUME decoding' = TRUE
          PROVE  NoBacklog'
        BY <2>2, Zenon DEF NoBacklog
    <2>3. ASSUME ~(Len(buffer_') >= PROTO_HEADER_SIZE)
          PROVE  NoBacklog'
        BY <2>3, Zenon DEF NoBacklog
    <2>4. Len(<<>>) = 0 /\ ~(0 >= PROTO_HEADER_SIZE)
        BY DEF PROTO_HEADER_SIZE
    <2>5. buffer_ \in Seq(Nat) /\ Len(buffer_) \in Nat
        BY LenProperties DEF TypeOK
    <2>6. CASE Peer
        <3>1. PICK frames, packets, later : PeerSent(frames, packets, later)
            BY <2>6, PeerIs
        <3> QED
            BY <2>1, <3>1, Zenon DEF PeerSent
    <2>7. CASE Read
        BY <2>2, <2>7, Zenon DEF Read
    <2>8. CASE WaitForHeader
        <3>1. ~(Len(buffer_) >= PROTO_HEADER_SIZE) /\ buffer_' = buffer_
            BY <2>5, <2>8 DEF WaitForHeader, PROTO_HEADER_SIZE
        <3> QED
            BY <2>3, <3>1, Zenon
    <2>9. CASE NoMagic
        BY <2>3, <2>4, <2>9, Zenon DEF NoMagic
    <2>10. CASE VersionMismatch
        BY <2>3, <2>4, <2>10, Zenon DEF VersionMismatch
    <2>11. CASE WaitForPayload
        <3>1. PICK n \in Nat : n = buffer_[5]
            <4>1. 5 \in 1..Len(buffer_)
                BY <2>5, <2>11 DEF WaitForPayload, HaveVersion, InStep, HaveHeader,
                   PROTO_HEADER_SIZE
            <4> QED
                BY <2>5, <4>1, ElementOfSeq
        <3>2. MagicAt(0) /\ hdr.version = VERSION /\ hdr.ptype # HEARTBEAT
            BY <2>11, Zenon DEF WaitForPayload, HaveVersion, InStep
        <3>3. ~(Len(buffer_) >= PROTO_HEADER_SIZE + hdr.payload_len)
            BY <2>11, Zenon DEF WaitForPayload, HavePayload
        <3>4. Len(buffer_) < PROTO_HEADER_SIZE + hdr.payload_len
            <4>1. hdr.payload_len = n
                BY <3>1, HeaderFields
            <4> QED
                BY <2>5, <3>3, <4>1 DEF PROTO_HEADER_SIZE
        <3>5. buffer_' = buffer_
            BY <2>11 DEF WaitForPayload
        <3> QED
            BY <3>2, <3>4, <3>5, Zenon DEF NoBacklog, MagicAt, hdr
    <2>12. CASE Resync \/ Heartbeat \/ handleSingleFrame
        <3>1. decoding
            BY <2>12, Zenon DEF Resync, Heartbeat, handleSingleFrame, HavePayload, HaveVersion,
                               InStep, HaveHeader
        <3>2. decoding' = decoding
            <4>1. CASE Resync
                BY <4>1, Zenon DEF Resync, DropTo
            <4>2. CASE Heartbeat
                BY <4>2, Zenon DEF Heartbeat
            <4>3. CASE handleSingleFrame
                BY <4>3, Zenon DEF handleSingleFrame
            <4> QED
                BY <2>12, <4>1, <4>2, <4>3
        <3> QED
            BY <3>1, <3>2, Zenon DEF NoBacklog
    <2>13. CASE UNCHANGED vars
        BY <2>1, <2>13, Zenon DEF vars
    <2> QED
        BY <2>6, <2>7, <2>8, <2>9, <2>10, <2>11, <2>12, <2>13, Zenon DEF Next, Decode
<1> QED
    BY <1>1, <1>2, CodecTypeCorrect, PTL DEF Spec

-----------------------------------------------------------------------------
(* The frames that decode has not handled are what it holds and what is on *)
(* its way.                                                                *)

Agree(a, c, n) == \A i \in 1..n : a[i] = c[i]

\* Of one stream, cut in two ways, the front cells are the same.
LEMMA CommonCells ==
    ASSUME NEW a \in Seq(Nat), NEW b \in Seq(Nat), NEW c \in Seq(Nat), NEW d \in Seq(Nat),
           a \o b = c \o d, NEW n \in Nat, n <= Len(a), n <= Len(c)
    PROVE  Agree(a, c, n)
<1>1. PICK l \in Nat : l = Len(a) /\ n <= l
    BY LenProperties
<1>2. PICK m \in Nat : m = Len(b)
    BY LenProperties
<1>3. PICK p \in Nat : p = Len(c) /\ n <= p
    BY LenProperties
<1>4. PICK q \in Nat : q = Len(d)
    BY LenProperties
<1>5. PICK x : x = a \o b /\ x = c \o d
    OBVIOUS
<1>6. PICK lm \in Nat : lm = l + m
    <2>1. l + m \in Nat
        OBVIOUS
    <2> QED
        BY <2>1, Zenon
<1>7. PICK pq \in Nat : pq = p + q
    <2>1. p + q \in Nat
        OBVIOUS
    <2> QED
        BY <2>1, Zenon
<1>8. JoinOf(x, a, l, b, m, lm)
    BY <1>1, <1>2, <1>5, <1>6, JoinIs
<1>9. JoinOf(x, c, p, d, q, pq)
    BY <1>3, <1>4, <1>5, <1>7, JoinIs
<1>10. ASSUME NEW i \in 1..n
       PROVE  a[i] = c[i]
    <2>1. i \in 1..lm /\ i <= l
        BY <1>1, <1>6
    <2>2. i \in 1..pq /\ i <= p
        BY <1>3, <1>7
    <2>3. x[i] = a[i]
        BY <1>8, <2>1, Zenon DEF JoinOf
    <2>4. x[i] = c[i]
        BY <1>9, <2>2, Zenon DEF JoinOf
    <2> QED
        BY <2>3, <2>4
<1> QED
    BY <1>10 DEF Agree

\* A first part that has come whole is the front of what has come, and the rest
\* of it goes on with what has not.
LEMMA FirstPart ==
    ASSUME NEW a \in Seq(Nat), NEW b \in Seq(Nat), NEW c \in Seq(Nat), NEW d \in Seq(Nat),
           a \o b = c \o d, NEW n \in Nat, n = Len(c), n <= Len(a)
    PROVE  /\ SubSeq(a, 1, n) = c
           /\ SubSeq(a, n + 1, Len(a)) \o b = d
<1>1. PICK l \in Nat : l = Len(a) /\ n <= l
    BY LenProperties
<1>2. Agree(a, c, n)
    <2>1. n <= n
        OBVIOUS
    <2> QED
        BY <2>1, CommonCells
<1>3. PICK f \in Seq(Nat) : f = SubSeq(a, 1, n) /\ Len(f) = n /\ \A i \in 1..n : f[i] = a[i]
    BY FrontOf
<1>4. f = c
    BY <1>2, <1>3, SeqEqual DEF Agree
<1>5. PICK r \in Seq(Nat) : r = SubSeq(a, n + 1, l)
    <2>1. \A k \in (n + 1)..l : k \in 1..Len(a)
        BY <1>1
    <2>2. \A k \in (n + 1)..l : a[k] \in Nat
        BY <2>1, ElementOfSeq
    <2>3. n + 1 \in Int /\ l \in Int
        OBVIOUS
    <2>4. SubSeq(a, n + 1, l) \in Seq(Nat)
        BY <2>2, <2>3, SubSeqProperties
    <2> QED
        BY <2>4
<1>6. f \o r = a
    <2>1. 1 \in 1..(Len(a) + 1) /\ n \in (1 - 1)..Len(a) /\ l \in n..Len(a)
        BY <1>1
    <2>2. SubSeq(a, 1, n) \o SubSeq(a, n + 1, l) = SubSeq(a, 1, l)
        BY <2>1, ConcatAdjacentSubSeq
    <2>3. SubSeq(a, 1, l) = a
        BY <1>1, SubSeqFull
    <2> QED
        BY <1>3, <1>5, <2>2, <2>3, Zenon
<1>7. c \o (r \o b) = c \o d
    <2>1. Associates(c, r, b)
        BY Associative
    <2>2. (c \o r) \o b = c \o d
        BY <1>4, <1>6, Zenon
    <2> QED
        BY <2>1, <2>2, Zenon DEF Associates
<1>8. r \o b \in Seq(Nat)
    BY ConcatProperties
<1>9. r \o b = d
    BY <1>7, <1>8, ConcatSimplifications
<1> QED
    BY <1>1, <1>3, <1>4, <1>5, <1>9, Zenon

\* The frames take decode from s to t, where all that was sent is out.
Pending(buf, wr, s, packets, uid, frames, t) ==
    /\ Frames(frames) /\ buf \o wr = FlattenSeq(frames)
    /\ Reaches(s, frames, t, packets, uid) /\ t.out = packets

\* The first frame has not come whole.
Waits(buf, frames) == frames = <<>> \/ Len(buf) < Len(frames[1])

\* All that is in the buffer and on its way is frames, and they will make it that
\* packets are out.
StreamFor(packets) ==
    \E frames, t :
        /\ Pending(buffer_, wire, Now, packets, sentMsgUid_, frames, t)
        /\ ~decoding => Waits(buffer_, frames)

StreamInv == StreamFor(sent)

\* The invariant after a step, from frames and a goal for the next state.
LEMMA StreamThen ==
    ASSUME NEW packets, NEW frames, NEW t,
           Pending(buffer_', wire', Then, packets, sentMsgUid_', frames, t),
           ~decoding' => Waits(buffer_', frames)
    PROVE  StreamFor(packets)'
<1>1. Then = Now'
    BY DEF Then, Now
<1> QED
    BY <1>1, Zenon DEF StreamFor, Pending, Waits

\* No frames make an empty stream.
LEMMA FlattenNothing == FlattenSeq(<<>>) = <<>>
<1>1. PICK empty \in Seq(Seq(Nat)) : empty = <<>> /\ Len(empty) = 0
    <2>1. <<>> \in Seq(Seq(Nat)) /\ Len(<<>>) = 0
        OBVIOUS
    <2> QED
        BY <2>1, Zenon
<1>2. PICK f \in [0..Len(empty) -> Seq(Nat)] : Joins(f, empty, Len(empty))
    BY JoinsExist
<1>3. f[0] = <<>>
    BY <1>2, Zenon DEF Joins
<1>4. FlattenSeq(empty) = f[Len(empty)]
    BY <1>2, FlattenSeqIs
<1> QED
    BY <1>1, <1>3, <1>4, Zenon

\* When no frame is pending, nothing is on its way.
LEMMA NoneOnItsWay ==
    ASSUME NEW buf \in Seq(Nat), NEW wr \in Seq(Nat), NEW s, NEW packets, NEW uid, NEW t,
           Pending(buf, wr, s, packets, uid, <<>>, t)
    PROVE  buf = <<>> /\ wr = <<>> /\ s = t
<1>1. buf \o wr = <<>>
    BY FlattenNothing, Zenon DEF Pending
<1>2. buf = <<>> /\ wr = <<>>
    BY <1>1, ConcatEqualIffEmpty
<1>3. <<>> \in Seq(Seq(Nat))
    OBVIOUS
<1>4. s = t
    BY <1>3, ReachesGood DEF Pending
<1> QED
    BY <1>2, <1>4

\* The first of the frames, and what follows it.
First(buf, wr, s, packets, uid, t, f, rest) ==
    /\ IsMessage(f) /\ f \in Seq(Nat) /\ Len(f) = 10 + f[5] /\ f[5] \in Nat
    /\ f[1] = 91 /\ f[2] = 92 /\ f[3] = VERSION
    /\ Frames(rest) /\ FlattenSeq(rest) \in Seq(Nat)
    /\ buf \o wr = f \o FlattenSeq(rest)
    /\ Reaches(After(s, f), rest, t, packets, uid)

\* Of pending frames the first has a header, and the rest are pending after it.
LEMMA FirstIs ==
    ASSUME NEW buf, NEW wr, NEW s, NEW packets, NEW uid, NEW t, NEW frames, frames # <<>>,
           Pending(buf, wr, s, packets, uid, frames, t)
    PROVE  First(buf, wr, s, packets, uid, t, frames[1], Tail(frames))
<1>1. Frames(frames) /\ frames \in Seq(Seq(Nat))
    BY DEF Pending, Frames
<1>2. PICK n \in Nat \ {0} : n = Len(frames)
    BY <1>1, EmptySeq
<1>3. /\ frames[1] \in Seq(Nat) /\ Tail(frames) \in Seq(Seq(Nat))
      /\ FlattenSeq(frames) = frames[1] \o FlattenSeq(Tail(frames))
    BY <1>1, FlattenSeqCons
<1>4. IsMessage(frames[1])
    <2>1. 1 \in 1..n
        OBVIOUS
    <2> QED
        BY <1>1, <1>2, <2>1, Zenon DEF Frames
<1>5. PICK f \in Seq(Nat) : f = frames[1]
    BY <1>3
<1>6. IsMessage(f) /\ IsFrame(f)
    BY <1>4, <1>5, Zenon DEF IsMessage
<1>7. Len(f) = 10 + f[5] /\ Len(f) >= 10 /\ f[3] = VERSION /\ SubSeq(f, 1, 2) = <<91, 92>>
    BY <1>6, Zenon DEF IsFrame, PROTO_HEADER_SIZE, PROTO_MAGIC
<1>8. f[5] \in Nat
    <2>1. 5 \in 1..Len(f)
        BY <1>7, LenProperties
    <2> QED
        BY <2>1, ElementOfSeq
<1>9. f[1] = 91 /\ f[2] = 92
    <2>1. PICK m \in Nat : m = f[5]
        BY <1>8
    <2>2. Len(f) = 10 + m
        BY <1>7, <2>1
    <2>3. SubSeq(f, 1, 2) = <<f[1], f[2]>>
        BY <2>2, FrontCells
    <2>4. <<f[1], f[2]>> = <<91, 92>>
        BY <1>7, <2>3
    <2> QED
        BY <2>4
<1>10. Frames(Tail(frames))
    <2>1. Tail(frames) = SubSeq(frames, 2, n)
        BY <1>1, <1>2, TailIsSubSeq
    <2>2. 2 \in 1..(Len(frames) + 1) /\ n \in 0..Len(frames) /\ 2 <= n + 1
        BY <1>2
    <2>3. Frames(SubSeq(frames, 2, n))
        BY <1>1, <2>2, FramesSub
    <2> QED
        BY <2>1, <2>3
<1>11. FlattenSeq(Tail(frames)) \in Seq(Nat)
    BY <1>3, FlattenSeqType
<1>12. Reaches(After(s, frames[1]), Tail(frames), t, packets, uid)
    BY <1>1, ReachesRest DEF Pending
<1>13. buf \o wr = frames[1] \o FlattenSeq(Tail(frames))
    BY <1>3 DEF Pending
<1> QED
    BY <1>5, <1>6, <1>7, <1>8, <1>9, <1>10, <1>11, <1>12, <1>13, Zenon DEF First

\* A header in the buffer is that of the first pending frame, and the buffer is in
\* step with the frames.
LEMMA FrontIs ==
    ASSUME TypeOK, Len(buffer_) >= 10,
           NEW s, NEW packets, NEW uid, NEW t, NEW f, NEW rest,
           First(buffer_, wire, s, packets, uid, t, f, rest)
    PROVE  /\ MagicAt(0) /\ buffer_[3] = VERSION
           /\ buffer_[4] = f[4] /\ buffer_[5] = f[5] /\ buffer_[5] \in Nat
<1>1. PICK b \in Seq(Nat) : b = buffer_
    BY DEF TypeOK
<1>2. PICK w \in Seq(Nat) : w = wire
    BY DEF TypeOK
<1>3. /\ f \in Seq(Nat) /\ Len(f) = 10 + f[5] /\ f[5] \in Nat
      /\ f[1] = 91 /\ f[2] = 92 /\ f[3] = VERSION
      /\ FlattenSeq(rest) \in Seq(Nat) /\ b \o w = f \o FlattenSeq(rest)
    BY <1>1, <1>2, Zenon DEF First
<1>4. PICK ten \in Nat : ten = 10 /\ ten <= Len(b) /\ ten <= Len(f)
    <2>1. PICK n \in Nat : n = f[5]
        BY <1>3, Zenon
    <2>2. Len(f) = 10 + n
        BY <1>3, <2>1, Zenon
    <2>3. 10 \in Nat /\ 10 <= 10 + n
        OBVIOUS
    <2>4. 10 <= Len(b)
        BY <1>1
    <2> QED
        BY <2>2, <2>3, <2>4, Zenon
<1>5. Agree(b, f, 10)
    <2>1. PICK r \in Seq(Nat) : r = FlattenSeq(rest)
        BY <1>3, Zenon
    <2>2. b \o w = f \o r
        BY <1>3, <2>1, Zenon
    <2>3. f \in Seq(Nat) /\ ten <= Len(b) /\ ten <= Len(f)
        BY <1>3, <1>4
    <2>4. Agree(b, f, ten)
        BY <2>2, <2>3, CommonCells
    <2> QED
        BY <1>4, <2>4, Zenon
<1>6. 1 \in 1..10 /\ 2 \in 1..10 /\ 3 \in 1..10 /\ 4 \in 1..10 /\ 5 \in 1..10
    OBVIOUS
<1>7. b[1] = 91 /\ b[2] = 92 /\ b[3] = VERSION /\ b[4] = f[4] /\ b[5] = f[5]
    <2>1. b[1] = f[1] /\ b[2] = f[2] /\ b[3] = f[3] /\ b[4] = f[4] /\ b[5] = f[5]
        BY <1>5, <1>6, Zenon DEF Agree
    <2> QED
        BY <1>3, <2>1, Zenon
<1>8. MagicAt(0)
    <2>1. PICK m \in Nat : m = Len(b) - 10 /\ Len(b) = 10 + m
        <3>1. Len(b) - 10 \in Nat /\ Len(b) = 10 + (Len(b) - 10)
            BY <1>1, LenProperties
        <3> QED
            BY <3>1, Zenon
    <2>2. SubSeq(b, 1, 2) = <<b[1], b[2]>>
        BY <2>1, FrontCells
    <2>3. 0 \in Nat /\ 0 + 1 = 1 /\ 0 + 2 = 2
        OBVIOUS
    <2>4. SubSeq(buffer_, 0 + 1, 0 + 2) = PROTO_MAGIC
        BY <1>1, <1>7, <2>2, <2>3, Zenon DEF PROTO_MAGIC
    <2> QED
        BY <2>3, <2>4, MagicIs
<1> QED
    BY <1>1, <1>3, <1>7, <1>8, Zenon

\* When the first frame has come whole and is taken off the buffer, the rest of
\* the frames are pending.
LEMMA TakenIs ==
    ASSUME TypeOK, NEW s, NEW packets, NEW uid, NEW t, t.out = packets, NEW f, NEW rest,
           First(buffer_, wire, s, packets, uid, t, f, rest), Len(f) <= Len(buffer_)
    PROVE  /\ SubSeq(buffer_, 1, Len(f)) = f
           /\ Pending(SubSeq(buffer_, Len(f) + 1, Len(buffer_)), wire, After(s, f),
                      packets, uid, rest, t)
<1>1. /\ buffer_ \in Seq(Nat) /\ wire \in Seq(Nat) /\ f \in Seq(Nat)
      /\ FlattenSeq(rest) \in Seq(Nat) /\ buffer_ \o wire = f \o FlattenSeq(rest)
    BY Zenon DEF First, TypeOK
<1>2. PICK n \in Nat : n = Len(f) /\ n <= Len(buffer_)
    BY <1>1, LenProperties
<1>3. /\ SubSeq(buffer_, 1, n) = f
      /\ SubSeq(buffer_, n + 1, Len(buffer_)) \o wire = FlattenSeq(rest)
    BY <1>1, <1>2, FirstPart
<1> QED
    BY <1>2, <1>3, Zenon DEF First, Pending

\* There is a first frame when anything has come.
LEMMA SomethingCame ==
    ASSUME TypeOK, Len(buffer_) >= 10, NEW s, NEW packets, NEW uid, NEW frames, NEW t,
           Pending(buffer_, wire, s, packets, uid, frames, t)
    PROVE  First(buffer_, wire, s, packets, uid, t, frames[1], Tail(frames))
<1>1. buffer_ \in Seq(Nat) /\ wire \in Seq(Nat)
    BY DEF TypeOK
<1>2. frames # <<>>
    <2> SUFFICES ASSUME frames = <<>>
                 PROVE  FALSE
        OBVIOUS
    <2>1. Pending(buffer_, wire, s, packets, uid, <<>>, t)
        BY Zenon
    <2>2. buffer_ = <<>>
        BY <1>1, <2>1, NoneOnItsWay
    <2> QED
        BY <2>2
<1> QED
    BY <1>2, FirstIs

PeerStays == sent' = sent /\ sentMsgUid_' = sentMsgUid_

\* To wait for a header keeps the invariant: no frame is shorter.
LEMMA WaitForHeaderStream ==
    ASSUME TypeOK, NEW packets, StreamFor(packets), WaitForHeader
    PROVE  StreamFor(packets)'
<1>1. PICK frames, t : Pending(buffer_, wire, Now, packets, sentMsgUid_, frames, t)
    BY Zenon DEF StreamFor
<1>2. buffer_' = buffer_ /\ wire' = wire /\ Then = Now /\ PeerStays
    BY Zenon DEF WaitForHeader, Then, Now, PeerStays, peerVars
<1>3. Pending(buffer_', wire', Then, packets, sentMsgUid_', frames, t)
    BY <1>1, <1>2, Zenon DEF PeerStays
<1>4. Waits(buffer_, frames)
    <2> SUFFICES ASSUME frames # <<>>
                 PROVE  Len(buffer_) < Len(frames[1])
        BY DEF Waits
    <2>1. First(buffer_, wire, Now, packets, sentMsgUid_, t, frames[1], Tail(frames))
        BY <1>1, FirstIs
    <2>2. PICK n \in Nat : n = frames[1][5] /\ Len(frames[1]) = 10 + n
        BY <2>1 DEF First
    <2>3. Len(buffer_) < 10 /\ Len(buffer_) \in Nat
        BY LenProperties DEF WaitForHeader, PROTO_HEADER_SIZE, TypeOK
    <2> QED
        BY <2>2, <2>3
<1>5. Waits(buffer_', frames)
    BY <1>2, <1>4, Zenon
<1> QED
    BY <1>3, <1>5, StreamThen

\* To wait for the body of a frame keeps the invariant: it has not come whole.
LEMMA WaitForPayloadStream ==
    ASSUME TypeOK, NEW packets, StreamFor(packets), WaitForPayload
    PROVE  StreamFor(packets)'
<1>1. PICK frames, t : Pending(buffer_, wire, Now, packets, sentMsgUid_, frames, t)
    BY Zenon DEF StreamFor
<1>2. buffer_' = buffer_ /\ wire' = wire /\ Then = Now /\ PeerStays
    BY Zenon DEF WaitForPayload, Then, Now, PeerStays, peerVars
<1>3. Pending(buffer_', wire', Then, packets, sentMsgUid_', frames, t)
    BY <1>1, <1>2, Zenon DEF PeerStays
<1>4. Len(buffer_) >= 10 /\ ~(Len(buffer_) >= 10 + buffer_[5]) /\ Len(buffer_) \in Nat
    <2>1. /\ Len(buffer_) >= PROTO_HEADER_SIZE
          /\ ~(Len(buffer_) >= PROTO_HEADER_SIZE + hdr.payload_len)
        BY Zenon DEF WaitForPayload, HavePayload, HaveVersion, InStep, HaveHeader
    <2> QED
        BY <2>1, HeaderFields, LenProperties DEF PROTO_HEADER_SIZE, TypeOK
<1>5. First(buffer_, wire, Now, packets, sentMsgUid_, t, frames[1], Tail(frames))
    BY <1>1, <1>4, SomethingCame
<1>6. buffer_[5] = frames[1][5] /\ buffer_[5] \in Nat
    BY <1>4, <1>5, FrontIs
<1>7. Len(frames[1]) = 10 + frames[1][5]
    BY <1>5, Zenon DEF First
<1>8. Len(buffer_) < Len(frames[1])
    BY <1>4, <1>6, <1>7
<1>9. Waits(buffer_', frames)
    BY <1>2, <1>8, Zenon DEF Waits
<1> QED
    BY <1>3, <1>9, StreamThen

\* To drop a heartbeat is to take a frame without a body off the stream.
LEMMA HeartbeatStream ==
    ASSUME TypeOK, NEW packets, StreamFor(packets), Heartbeat
    PROVE  StreamFor(packets)'
<1>1. PICK frames, t : Pending(buffer_, wire, Now, packets, sentMsgUid_, frames, t)
    BY Zenon DEF StreamFor
<1>2. PICK f : f = frames[1]
    OBVIOUS
<1>3. Len(buffer_) >= 10 /\ buffer_[4] = HEARTBEAT /\ decoding /\ decoding' = decoding
    BY HeaderFields, Zenon DEF Heartbeat, HaveVersion, InStep, HaveHeader, PROTO_HEADER_SIZE
<1>4. First(buffer_, wire, Now, packets, sentMsgUid_, t, f, Tail(frames))
    BY <1>1, <1>2, <1>3, SomethingCame
<1>5. f[4] = HEARTBEAT
    BY <1>3, <1>4, FrontIs
<1>6. Len(f) = 10
    <2>1. f[5] = 0 /\ Len(f) = 10 + f[5]
        BY <1>4, <1>5, Zenon DEF First, IsMessage
    <2> QED
        BY <2>1
<1>7. After(Now, f) = Now
    BY <1>5, Zenon DEF After
<1>8. t.out = packets
    BY <1>1 DEF Pending
<1>9. Len(f) <= Len(buffer_)
    BY <1>3, <1>6
<1>10. Pending(SubSeq(buffer_, Len(f) + 1, Len(buffer_)), wire, After(Now, f),
               packets, sentMsgUid_, Tail(frames), t)
    BY <1>4, <1>8, <1>9, TakenIs
<1>11. buffer_' = SubSeq(buffer_, Len(f) + 1, Len(buffer_))
    BY <1>6, Zenon DEF Heartbeat, Drop, PROTO_HEADER_SIZE
<1>12. wire' = wire /\ Then = Now /\ PeerStays
    BY Zenon DEF Heartbeat, Then, Now, PeerStays, peerVars
<1>13. Pending(buffer_', wire', Then, packets, sentMsgUid_', Tail(frames), t)
    BY <1>7, <1>10, <1>11, <1>12, Zenon DEF PeerStays
<1> QED
    BY <1>3, <1>13, StreamThen

\* handleSingleFrame takes the first frame off the stream and does what it
\* does.
LEMMA HandledStream ==
    ASSUME TypeOK, NEW packets, StreamFor(packets), handleSingleFrame
    PROVE  StreamFor(packets)'
<1>1. PICK frames, t : Pending(buffer_, wire, Now, packets, sentMsgUid_, frames, t)
    BY Zenon DEF StreamFor
<1>2. PICK f : f = frames[1]
    OBVIOUS
<1>3. /\ HaveHeader /\ decoding /\ decoding' = decoding /\ wire' = wire /\ PeerStays
    BY Zenon DEF handleSingleFrame, HavePayload, HaveVersion, InStep, HaveHeader,
       PeerStays, peerVars
<1>4. Len(buffer_) >= 10 /\ Len(buffer_) >= 10 + buffer_[5]
    BY <1>3, HandledFrame DEF HaveHeader, PROTO_HEADER_SIZE
<1>5. First(buffer_, wire, Now, packets, sentMsgUid_, t, f, Tail(frames))
    BY <1>1, <1>2, <1>4, SomethingCame
<1>6. buffer_[5] = f[5] /\ buffer_[5] \in Nat
    BY <1>4, <1>5, FrontIs
<1>7. Len(f) = 10 + buffer_[5]
    BY <1>5, <1>6, Zenon DEF First
<1>8. t.out = packets
    BY <1>1 DEF Pending
<1>9. Len(f) <= Len(buffer_)
    <2>1. Len(buffer_) \in Nat
        BY LenProperties DEF TypeOK
    <2> QED
        BY <1>4, <1>6, <1>7, <2>1
<1>10. /\ SubSeq(buffer_, 1, Len(f)) = f
       /\ Pending(SubSeq(buffer_, Len(f) + 1, Len(buffer_)), wire, After(Now, f),
                  packets, sentMsgUid_, Tail(frames), t)
    BY <1>5, <1>8, <1>9, TakenIs
<1>11. Frame = f
    BY <1>7, <1>10, Zenon DEF Frame, PROTO_HEADER_SIZE
<1>12. Then = After(Now, f) /\ buffer_' = SubSeq(buffer_, Len(f) + 1, Len(buffer_))
    BY <1>11, HandledIs
<1>13. Pending(buffer_', wire', Then, packets, sentMsgUid_', Tail(frames), t)
    BY <1>3, <1>10, <1>12, Zenon DEF PeerStays
<1> QED
    BY <1>3, <1>13, StreamThen

\* decode never has to look for a magic, and always finds its version.
LEMMA InStepAlways ==
    ASSUME TypeOK, NEW packets, StreamFor(packets)
    PROVE  ~Resync /\ ~NoMagic /\ ~VersionMismatch
<1>1. PICK frames, t : Pending(buffer_, wire, Now, packets, sentMsgUid_, frames, t)
    BY Zenon DEF StreamFor
<1>2. HaveHeader => Len(buffer_) >= 10 /\ MagicAt(0) /\ hdr.version = VERSION
    <2> SUFFICES ASSUME HaveHeader
                 PROVE  Len(buffer_) >= 10 /\ MagicAt(0) /\ hdr.version = VERSION
        OBVIOUS
    <2>1. Len(buffer_) >= 10
        BY DEF HaveHeader, PROTO_HEADER_SIZE
    <2>2. First(buffer_, wire, Now, packets, sentMsgUid_, t, frames[1], Tail(frames))
        BY <1>1, <2>1, SomethingCame
    <2>3. MagicAt(0) /\ buffer_[3] = VERSION
        BY <2>1, <2>2, FrontIs
    <2> QED
        BY <2>1, <2>3, HeaderFields, Zenon
<1>3. ~Resync
    BY <1>2, Zenon DEF Resync
<1>4. ~VersionMismatch
    BY <1>2, Zenon DEF VersionMismatch, InStep
<1>5. ~NoMagic
    <2> SUFFICES ASSUME NoMagic
                 PROVE  FALSE
        OBVIOUS
    <2>1. HaveHeader /\ \A i \in 0..(Len(buffer_) - Len(PROTO_MAGIC)) : ~MagicAt(i)
        BY Zenon DEF NoMagic
    <2>2. 0 \in 0..(Len(buffer_) - Len(PROTO_MAGIC))
        <3>1. Len(PROTO_MAGIC) = 2
            BY DEF PROTO_MAGIC
        <3>2. Len(buffer_) >= 10 /\ Len(buffer_) \in Nat
            BY <1>2, <2>1, LenProperties DEF TypeOK
        <3> QED
            BY <3>1, <3>2
    <2> QED
        BY <1>2, <2>1, <2>2, Zenon
<1> QED
    BY <1>3, <1>4, <1>5

\* A read moves the cut and leaves the stream.
LEMMA ReadStream ==
    ASSUME TypeOK, NEW packets, StreamFor(packets), Read
    PROVE  StreamFor(packets)'
<1>1. PICK frames, t : Pending(buffer_, wire, Now, packets, sentMsgUid_, frames, t)
    BY Zenon DEF StreamFor
<1>2. buffer_' \o wire' = buffer_ \o wire
    BY ReadIs
<1>3. Then = Now /\ PeerStays /\ decoding'
    BY Zenon DEF Read, Then, Now, PeerStays, peerVars
<1>4. Pending(buffer_', wire', Then, packets, sentMsgUid_', frames, t)
    BY <1>1, <1>2, <1>3, Zenon DEF PeerStays, Pending
<1> QED
    BY <1>3, <1>4, StreamThen

\* What a step of decode does to the frames that are pending.
LEMMA DecodeStream ==
    ASSUME TypeOK, NEW packets, StreamFor(packets), Decode
    PROVE  StreamFor(packets)'
BY WaitForHeaderStream, WaitForPayloadStream, HeartbeatStream, HandledStream,
   InStepAlways DEF Decode

\* What the peer sends goes behind the frames that are pending.
LEMMA PeerStream ==
    ASSUME TypeOK, NEW packets \in Seq(DecodedPacket), StreamFor(packets),
           NEW new, NEW more, NEW later, PeerSent(new, more, later)
    PROVE  StreamFor(packets \o more)'
<1>1. PICK frames, t :
          /\ Pending(buffer_, wire, Now, packets, sentMsgUid_, frames, t)
          /\ ~decoding => Waits(buffer_, frames)
    BY Zenon DEF StreamFor
<1>3. PICK uid \in Nat : uid = sentMsgUid_
    BY DEF TypeOK
<1>4. /\ Frames(new) /\ new \in Seq(Seq(Nat)) /\ Frames(frames) /\ frames \in Seq(Seq(Nat))
      /\ buffer_ \o wire = FlattenSeq(frames)
      /\ Reaches(Now, frames, t, packets, uid) /\ t.out = packets
    BY <1>1, <1>3, Zenon DEF PeerSent, Pending, Frames
<1>5. buffer_ \in Seq(Nat) /\ wire \in Seq(Nat)
    BY DEF TypeOK
<1>6. more \in Seq(DecodedPacket) /\ later \in Nat /\ uid <= later
    BY <1>3, Zenon DEF PeerSent
<1>7. Ended(t, packets, uid)
    BY <1>4, ReachesGood DEF Ended
<1>8. PICK u : Reaches(t, new, u, packets \o more, later) /\ Ended(u, packets \o more, later)
    <2>1. Ends(t, new, packets \o more, later)
        BY <1>3, <1>7, Zenon DEF PeerSent
    <2> QED
        BY <2>1 DEF Ends
<1>9. Reaches(Now, frames, t, packets \o more, later)
    BY <1>4, <1>5, <1>6, ReachesMore
<1>10. Reaches(Now, frames \o new, u, packets \o more, later)
    BY <1>4, <1>8, <1>9, ReachesConcat
<1>11. Frames(frames \o new)
    BY <1>4, FramesConcat
<1>12. buffer_ \o (wire \o FlattenSeq(new)) = FlattenSeq(frames \o new)
    <2>1. FlattenSeq(new) \in Seq(Nat)
        BY <1>4, FlattenSeqType
    <2>2. Associates(buffer_, wire, FlattenSeq(new))
        BY <1>5, <2>1, Associative
    <2>3. FlattenSeq(frames \o new) = FlattenSeq(frames) \o FlattenSeq(new)
        BY <1>4, FlattenSeqConcat
    <2> QED
        BY <1>4, <2>2, <2>3, Zenon DEF Associates
<1>13. /\ wire' = wire \o FlattenSeq(new) /\ sent' = sent \o more
       /\ sentMsgUid_' = later /\ buffer_' = buffer_ /\ decoding' = decoding /\ Then = Now
    BY Zenon DEF PeerSent, Then, Now
<1>14. Pending(buffer_', wire', Then, packets \o more, sentMsgUid_', frames \o new, u)
    BY <1>8, <1>10, <1>11, <1>12, <1>13, Zenon DEF Pending, Ended
<1>15. ASSUME ~decoding
       PROVE  Waits(buffer_, frames \o new)
    <2>1. CASE frames = <<>>
        <3>1. Pending(buffer_, wire, Now, packets, sentMsgUid_, <<>>, t)
            BY <1>1, <2>1, Zenon
        <3>2. buffer_ = <<>>
            BY <1>5, <3>1, NoneOnItsWay
        <3>3. frames \o new = new
            BY <1>4, <2>1, ConcatEmptySeq
        <3>4. CASE new = <<>>
            BY <3>3, <3>4, Zenon DEF Waits
        <3>5. CASE new # <<>>
            <4>1. IsMessage(new[1])
                <5>1. 1 \in 1..Len(new)
                    BY <1>4, <3>5, EmptySeq
                <5> QED
                    BY <1>4, <5>1, Zenon DEF Frames
            <4>2. Len(new[1]) >= 10 /\ new[1] \in Seq(Nat)
                BY <4>1, Zenon DEF IsMessage, IsFrame, PROTO_HEADER_SIZE
            <4>3. Len(buffer_) < Len(new[1])
                <5>1. Len(buffer_) = 0
                    BY <3>2
                <5>2. PICK l \in Nat : l = Len(new[1])
                    BY <4>2, LenProperties
                <5> QED
                    BY <4>2, <5>1, <5>2
            <4> QED
                BY <3>3, <4>3, Zenon DEF Waits
        <3> QED
            BY <3>4, <3>5
    <2>2. CASE frames # <<>>
        <3>1. Len(buffer_) < Len(frames[1])
            BY <1>1, <1>15, <2>2, Zenon DEF Waits
        <3>2. (frames \o new)[1] = frames[1]
            <4>1. PICK n \in Nat \ {0} : n = Len(frames)
                BY <1>4, <2>2, EmptySeq
            <4>2. PICK m \in Nat : m = Len(new)
                BY <1>4, LenProperties
            <4>3. PICK l \in Nat : l = n + m /\ 1 \in 1..l /\ 1 <= n
                <5>1. n + m \in Nat /\ 1 \in 1..(n + m) /\ 1 <= n
                    OBVIOUS
                <5> QED
                    BY <5>1, Zenon
            <4>4. PICK c : c = frames \o new
                OBVIOUS
            <4>5. JoinOf(c, frames, n, new, m, l)
                BY <1>4, <4>1, <4>2, <4>3, <4>4, JoinIs
            <4> QED
                BY <4>3, <4>4, <4>5, Zenon DEF JoinOf
        <3> QED
            BY <3>1, <3>2, Zenon DEF Waits
    <2> QED
        BY <2>1, <2>2
<1> QED
    BY <1>13, <1>14, <1>15, StreamThen

\* At first nothing is pending.
LEMMA FirstState ==
    ASSUME Init, wire = <<>>
    PROVE  StreamInv
<1>1. Now = [cache |-> Now.cache, out |-> Now.out] /\ Now.cache = <<>> /\ Now.out = <<>>
    BY DEF Now, Init
<1>2. IsCache(<<>>) /\ DOMAIN <<>> = {}
    BY DEF IsCache
<1>3. Len(<<>>) = 0 /\ <<>> \in Seq(DecodedPacket) /\ <<>> \in Seq(Nat) /\ <<>> \in Seq(Seq(Nat))
    OBVIOUS
<1>4. IsPrefix(<<>>, <<>>)
    BY <1>3, PrefixOfItself
<1>5. \A j \in 1..Len(Now.out) : FALSE
    BY <1>1, <1>3
<1>6. Good(Now, <<>>, 0)
    <2>1. DOMAIN Now.cache \subseteq 0..(0 - 1)
        BY <1>1, <1>2
    <2>2. IsCache(Now.cache) /\ Now.out \in Seq(DecodedPacket) /\ IsPrefix(Now.out, <<>>)
        BY <1>1, <1>2, <1>3, <1>4, Zenon
    <2> QED
        BY <1>1, <1>5, <2>1, <2>2, Zenon DEF Good
<1>7. Reaches(Now, <<>>, Now, <<>>, 0)
    BY <1>6, ReachesNone
<1>8. Frames(<<>>)
    BY DEF Frames
<1>9. <<>> \o <<>> = FlattenSeq(<<>>)
    BY <1>3, ConcatEmptySeq, FlattenNothing
<1>10. buffer_ = <<>> /\ sent = <<>> /\ sentMsgUid_ = 0
    BY Zenon DEF Init
<1>11. Pending(buffer_, wire, Now, sent, sentMsgUid_, <<>>, Now)
    BY <1>1, <1>7, <1>8, <1>9, <1>10, Zenon DEF Pending
<1>12. Waits(buffer_, <<>>)
    BY Zenon DEF Waits
<1> QED
    BY <1>11, <1>12, Zenon DEF StreamInv, StreamFor

\* The invariant when packets are those sent.
LEMMA StreamSent ==
    ASSUME NEW packets, StreamFor(packets)', sent' = packets
    PROVE  StreamInv'
BY Zenon DEF StreamInv, StreamFor, Pending, Waits

\* Every step keeps the invariant.
LEMMA StreamStep ==
    ASSUME TypeOK, StreamInv, [Next]_vars
    PROVE  StreamInv'
<1>1. PICK packets \in Seq(DecodedPacket) : packets = sent
    BY DEF TypeOK
<1>2. StreamFor(packets)
    BY <1>1, Zenon DEF StreamInv
<1>3. CASE Peer
    <2>1. PICK new, more, later : PeerSent(new, more, later)
        BY <1>3, PeerIs
    <2>2. PICK all : all = packets \o more
        OBVIOUS
    <2>3. StreamFor(all)'
        BY <1>2, <2>1, <2>2, PeerStream
    <2>4. sent' = all
        BY <1>1, <2>1, <2>2, Zenon DEF PeerSent
    <2> QED
        BY <2>3, <2>4, StreamSent
<1>4. CASE Read
    <2>1. StreamFor(packets)'
        BY <1>2, <1>4, ReadStream
    <2>2. sent' = packets
        BY <1>1, <1>4, Zenon DEF Read, peerVars
    <2> QED
        BY <2>1, <2>2, StreamSent
<1>5. CASE Decode
    <2>1. StreamFor(packets)'
        BY <1>2, <1>5, DecodeStream
    <2>2. sent' = packets
        BY <1>1, <1>5, Zenon DEF Decode, peerVars, WaitForHeader, Resync, NoMagic, VersionMismatch,
           Heartbeat, WaitForPayload, handleSingleFrame
    <2> QED
        BY <2>1, <2>2, StreamSent
<1>6. CASE UNCHANGED vars
    BY <1>6, Zenon DEF vars, peerVars, StreamInv, StreamFor, Pending, Waits, Now
<1> QED
    BY <1>3, <1>4, <1>5, <1>6, Zenon DEF Next

\* From a stream that begins with a frame, all that is in the buffer and on its
\* way is frames, and they take decode to where everything sent is out.
THEOREM StreamIsFrames == wire = <<>> /\ Spec => []StreamInv
<1>1. Init /\ wire = <<>> => StreamInv
    BY FirstState
<1>2. TypeOK /\ TypeOK' /\ StreamInv /\ [Next]_vars => StreamInv'
    BY StreamStep
<1> QED
    BY <1>1, <1>2, CodecTypeCorrect, PTL DEF Spec

\* What is out is part of packets, and once all is read it is packets.
LEMMA StreamGives ==
    ASSUME TypeOK, NEW packets, StreamFor(packets)
    PROVE  IsPrefix(out, packets) /\ (AllRead => out = packets /\ buffer_ = <<>>)
<1>1. PICK frames, t :
          /\ Pending(buffer_, wire, Now, packets, sentMsgUid_, frames, t)
          /\ ~decoding => Waits(buffer_, frames)
    BY Zenon DEF StreamFor
<1>2. frames \in Seq(Seq(Nat)) /\ buffer_ \in Seq(Nat) /\ wire \in Seq(Nat)
    BY <1>1, Zenon DEF Pending, Frames, TypeOK
<1>3. Good(Now, packets, sentMsgUid_)
    BY <1>1, <1>2, ReachesGood DEF Pending
<1>4. IsPrefix(out, packets)
    BY <1>3, NowIs, Zenon DEF Good
<1>5. ASSUME wire = <<>>, ~decoding
      PROVE  out = packets /\ buffer_ = <<>>
    <2>1. frames = <<>>
        <3> SUFFICES ASSUME frames # <<>>
                     PROVE  FALSE
            OBVIOUS
        <3>1. Len(buffer_) < Len(frames[1])
            BY <1>1, <1>5, Zenon DEF Waits
        <3>2. First(buffer_, wire, Now, packets, sentMsgUid_, t, frames[1], Tail(frames))
            BY <1>1, FirstIs
        <3>3. PICK f \in Seq(Nat) : f = frames[1]
            BY <3>2, Zenon DEF First
        <3>4. PICK r \in Seq(Nat) : r = FlattenSeq(Tail(frames))
            BY <3>2, Zenon DEF First
        <3>5. buffer_ = f \o r
            <4>1. buffer_ \o <<>> = buffer_
                BY <1>2, ConcatEmptySeq
            <4> QED
                BY <1>5, <3>2, <3>3, <3>4, <4>1, Zenon DEF First
        <3>6. Len(buffer_) = Len(f) + Len(r) /\ Len(f) \in Nat /\ Len(r) \in Nat
            BY <3>5, ConcatProperties, LenProperties
        <3> QED
            BY <3>1, <3>3, <3>6
    <2>2. buffer_ = <<>> /\ Now = t
        <3>1. Pending(buffer_, wire, Now, packets, sentMsgUid_, <<>>, t)
            BY <1>1, <2>1, Zenon
        <3> QED
            BY <1>2, <3>1, NoneOnItsWay
    <2> QED
        BY <1>1, <2>2, NowIs, Zenon DEF Pending
<1> QED
    BY <1>4, <1>5, Zenon DEF AllRead

\* Wherever reads cut the stream, decode gives the whole messages, each once and in
\* order, and nothing of the damaged ones; once all is read, it gave them all.
THEOREM DecodedIsSent == wire = <<>> /\ Spec => []DecodesWhatWasSent
<1>1. TypeOK /\ StreamInv => DecodesWhatWasSent
    <2> SUFFICES ASSUME TypeOK, StreamInv
                 PROVE  DecodesWhatWasSent
        OBVIOUS
    <2>1. StreamFor(sent)
        BY Zenon DEF StreamInv
    <2>2. IsPrefix(out, sent) /\ (AllRead => out = sent /\ buffer_ = <<>>)
        BY <2>1, StreamGives
    <2> QED
        BY <2>2, Zenon DEF DecodesWhatWasSent
<1> QED
    BY <1>1, CodecTypeCorrect, StreamIsFrames, PTL

\* decode keeps no part of a message it gave.
THEOREM DeliveredLeaveNothing == wire = <<>> /\ Spec => []NoPartsOfDelivered
<1>1. TypeOK /\ StreamInv => NoPartsOfDelivered
    <2> SUFFICES ASSUME TypeOK, StreamInv
                 PROVE  NoPartsOfDelivered
        OBVIOUS
    <2>1. PICK frames, t : Pending(buffer_, wire, Now, sent, sentMsgUid_, frames, t)
        BY Zenon DEF StreamInv, StreamFor
    <2>2. frames \in Seq(Seq(Nat))
        BY <2>1, Zenon DEF Pending, Frames
    <2>3. Good(Now, sent, sentMsgUid_)
        BY <2>1, <2>2, ReachesGood DEF Pending
    <2>4. DOMAIN out = 1..Len(out)
        BY LenProperties DEF TypeOK
    <2> QED
        BY <2>3, <2>4, NowIs, Zenon DEF Good, NoPartsOfDelivered
<1> QED
    BY <1>1, CodecTypeCorrect, StreamIsFrames, PTL

-----------------------------------------------------------------------------
(* Before decode has found its place: wherever the stream is cut, the      *)
(* scrap of a frame or of the dirt is left, and the frames behind it.      *)

\* The cells have a sequence's type besides, which Scraps does not say.
IsScrap(junk) ==
    /\ junk \in Scraps /\ junk \in Seq(Nat)
    /\ \E cells \in Seq(Nat) : \E i \in 1..Len(cells) :
          /\ junk = SubSeq(cells, i, Len(cells))
          /\ cells \in Dirt \/ (cells \in PeerFrames /\ i >= 2)

\* The remains of dirt, and of a frame without its first cell, are scraps.
LEMMA ScrapOf ==
    ASSUME NEW cells \in Seq(Nat), NEW n \in Nat, n = Len(cells), NEW i \in 1..n,
           cells \in Dirt \/ (cells \in PeerFrames /\ i >= 2)
    PROVE  IsScrap(SubSeq(cells, i, n))
<1>1. SubSeq(cells, i, n) \in Scraps
    <2>1. CASE cells \in Dirt
        <3>1. SubSeq(cells, i, n) \in Remains(cells, 1)
            BY DEF Remains
        <3> QED
            BY <2>1, <3>1 DEF Scraps
    <2>2. CASE cells \in PeerFrames /\ i >= 2
        <3>1. i \in 2..n
            BY <2>2
        <3>2. SubSeq(cells, i, n) \in Remains(cells, 2)
            BY <3>1 DEF Remains
        <3> QED
            BY <2>2, <3>2 DEF Scraps
    <2> QED
        BY <2>1, <2>2
<1>2. SubSeq(cells, i, n) \in Seq(Nat)
    <2>1. \A k \in i..n : k \in 1..Len(cells)
        OBVIOUS
    <2>2. \A k \in i..n : cells[k] \in Nat
        BY <2>1, ElementOfSeq
    <2> QED
        BY <2>2, SubSeqProperties
<1> QED
    BY <1>1, <1>2 DEF IsScrap

\* A scrap, or nothing.
Left(junk) == junk \in Seq(Nat) /\ (junk = <<>> \/ IsScrap(junk))

\* The first cell of what begins at i, and what is left without it.
LEMMA FirstCell ==
    ASSUME NEW cells \in Seq(Nat), NEW n \in Nat, n = Len(cells), NEW i \in 1..n,
           cells \in Dirt \/ cells \in PeerFrames
    PROVE  /\ cells[i] \in Nat /\ Left(SubSeq(cells, i + 1, n))
           /\ SubSeq(cells, i, n) = <<cells[i]>> \o SubSeq(cells, i + 1, n)
<1>1. cells[i] \in Nat
    BY ElementOfSeq
<1>2. Left(SubSeq(cells, i + 1, n))
    <2>1. CASE i = n
        <3>1. SubSeq(cells, i + 1, n) = <<>>
            BY <2>1, SubSeqEmpty
        <3> QED
            BY <3>1 DEF Left
    <2>2. CASE i # n
        <3>1. PICK next \in 1..n : next = i + 1 /\ next >= 2
            <4>1. i + 1 \in 1..n /\ i + 1 >= 2
                BY <2>2
            <4> QED
                BY <4>1, Zenon
        <3>2. IsScrap(SubSeq(cells, next, n))
            BY <3>1, ScrapOf
        <3> QED
            BY <3>1, <3>2, Zenon DEF Left, IsScrap
    <2> QED
        BY <2>1, <2>2
<1>3. SubSeq(cells, i, n) = <<cells[i]>> \o SubSeq(cells, i + 1, n)
    <2>1. i \in 1..Len(cells) /\ n \in i..Len(cells)
        OBVIOUS
    <2> QED
        BY <2>1, SubSeqRecursiveFirst
<1> QED
    BY <1>1, <1>2, <1>3

Moves(c, x, junk, rest) ==
    /\ c \o ((<<x>> \o junk) \o rest) = (c \o <<x>>) \o (junk \o rest)
    /\ c \o <<x>> \in Seq(Nat) /\ Len(c \o <<x>>) = Len(c) + 1

\* A cell goes from the back of a cut to its front.
LEMMA MoveCell ==
    ASSUME NEW c \in Seq(Nat), NEW x \in Nat, NEW junk \in Seq(Nat), NEW rest \in Seq(Nat)
    PROVE  Moves(c, x, junk, rest)
<1>1. PICK one \in Seq(Nat) : one = <<x>> /\ Len(one) = 1
    <2>1. <<x>> \in Seq(Nat) /\ Len(<<x>>) = 1
        OBVIOUS
    <2> QED
        BY <2>1, Zenon
<1>2. (one \o junk) \o rest = one \o (junk \o rest)
    BY ConcatAssociative, SMTT(30)
<1>3. junk \o rest \in Seq(Nat)
    BY ConcatProperties
<1>4. c \o (one \o (junk \o rest)) = (c \o one) \o (junk \o rest)
    <2>1. PICK back \in Seq(Nat) : back = junk \o rest
        BY <1>3
    <2>2. (c \o one) \o back = c \o (one \o back)
        BY ConcatAssociative, SMTT(30)
    <2> QED
        BY <2>1, <2>2, Zenon
<1>5. c \o one \in Seq(Nat) /\ Len(c \o one) = Len(c) + 1
    BY <1>1, ConcatProperties
<1> QED
    BY <1>1, <1>2, <1>4, <1>5, Zenon DEF Moves

\* The stream is c, junk, and the frames behind the first k.
Cut(stream, frames, c, junk, k) ==
    /\ c \in Seq(Nat) /\ Left(junk) /\ k \in 0..Len(frames)
    /\ stream = c \o (junk \o FlattenSeq(Behind(frames, k)))

\* The first of the frames behind k, and those behind it.
LEMMA NextBehind ==
    ASSUME NEW frames, Frames(frames), NEW n \in Nat, n = Len(frames), NEW k \in 0..(n - 1)
    PROVE  /\ frames[k + 1] \in Seq(Nat) /\ Len(frames[k + 1]) >= 10
           /\ FlattenSeq(Behind(frames, k + 1)) \in Seq(Nat)
           /\ FlattenSeq(Behind(frames, k)) = frames[k + 1] \o FlattenSeq(Behind(frames, k + 1))
<1>1. frames \in Seq(Seq(Nat))
    BY DEF Frames
<1>2. PICK next \in 1..n : next = k + 1
    <2>1. k + 1 \in 1..n
        OBVIOUS
    <2> QED
        BY <2>1, Zenon
<1>3. frames[next] \in Seq(Nat) /\ Len(frames[next]) >= 10
    <2>1. IsMessage(frames[next])
        BY Zenon DEF Frames
    <2> QED
        BY <2>1 DEF IsMessage, IsFrame, PROTO_HEADER_SIZE
<1>4. SubSeq(frames, next, n) = <<frames[next]>> \o SubSeq(frames, next + 1, n)
    <2>1. next \in 1..Len(frames) /\ n \in next..Len(frames)
        OBVIOUS
    <2> QED
        BY <1>1, <2>1, SubSeqRecursiveFirst
<1>5. Behind(frames, k) = <<frames[next]>> \o Behind(frames, next)
    BY <1>2, <1>4, Zenon DEF Behind
<1>6. Behind(frames, next) \in Seq(Seq(Nat))
    <2>1. next \in 0..n
        OBVIOUS
    <2> QED
        BY <1>1, <2>1, BehindIs
<1>7. PICK f \in Seq(Nat) : f = frames[next]
    BY <1>3
<1>8. <<f>> \in Seq(Seq(Nat))
    OBVIOUS
<1>9. FlattenSeq(<<f>> \o Behind(frames, next)) =
          FlattenSeq(<<f>>) \o FlattenSeq(Behind(frames, next))
    BY <1>6, <1>8, FlattenSeqConcat
<1>10. FlattenSeq(<<f>>) = f
    BY FlattenSeqOne
<1>11. FlattenSeq(Behind(frames, next)) \in Seq(Nat)
    BY <1>6, FlattenSeqType
<1> QED
    BY <1>2, <1>3, <1>5, <1>7, <1>9, <1>10, <1>11, Zenon

\* A cut can be moved by one cell.
LEMMA CutOneMore ==
    ASSUME NEW frames \in Seq(PeerFrames), Frames(frames), NEW stream \in Seq(Nat),
           NEW c, NEW junk, NEW k, Cut(stream, frames, c, junk, k),
           Len(c) < Len(stream)
    PROVE  \E d, scrap, j : Cut(stream, frames, d, scrap, j) /\ Len(d) = Len(c) + 1
<1>1. /\ c \in Seq(Nat) /\ junk \in Seq(Nat) /\ (junk = <<>> \/ IsScrap(junk))
      /\ stream = c \o (junk \o FlattenSeq(Behind(frames, k)))
    BY DEF Cut, Left
<1>2. frames \in Seq(Seq(Nat))
    BY DEF Frames
<1>3. PICK n \in Nat : n = Len(frames)
    BY <1>2, LenProperties
<1>4. k \in 0..n
    BY <1>3 DEF Cut
<1>5. PICK rest \in Seq(Nat) : rest = FlattenSeq(Behind(frames, k))
    <2>1. Behind(frames, k) \in Seq(Seq(Nat))
        BY <1>2, <1>3, <1>4, BehindIs
    <2> QED
        BY <2>1, FlattenSeqType
<1>6. CASE junk # <<>>
    <2>0. PICK cells \in Seq(Nat) : \E i \in 1..Len(cells) :
              junk = SubSeq(cells, i, Len(cells)) /\ (cells \in Dirt \/ cells \in PeerFrames)
        BY <1>1, <1>6, Zenon DEF IsScrap
    <2>1. PICK i \in 1..Len(cells) :
              junk = SubSeq(cells, i, Len(cells)) /\ (cells \in Dirt \/ cells \in PeerFrames)
        BY <2>0
    <2>2. PICK m \in Nat : m = Len(cells) /\ i \in 1..m
        BY LenProperties
    <2>3. /\ cells[i] \in Nat /\ Left(SubSeq(cells, i + 1, m))
          /\ SubSeq(cells, i, m) = <<cells[i]>> \o SubSeq(cells, i + 1, m)
        BY <2>1, <2>2, FirstCell
    <2>4. PICK scrap \in Seq(Nat) : scrap = SubSeq(cells, i + 1, m)
        BY <2>3, Zenon DEF Left
    <2>5. PICK x \in Nat : x = cells[i]
        BY <2>3
    <2>6. junk = <<x>> \o scrap /\ Left(scrap)
        BY <2>1, <2>2, <2>3, <2>4, <2>5, Zenon
    <2>7. PICK d \in Seq(Nat) : d = c \o <<x>> /\ Len(d) = Len(c) + 1 /\
              c \o ((<<x>> \o scrap) \o rest) = d \o (scrap \o rest)
        <3>1. Moves(c, x, scrap, rest)
            BY <1>1, MoveCell
        <3> QED
            BY <3>1, Zenon DEF Moves
    <2>8. Cut(stream, frames, d, scrap, k)
        BY <1>1, <1>5, <2>6, <2>7, Zenon DEF Cut
    <2> QED
        BY <2>7, <2>8
<1>7. CASE junk = <<>>
    <2>1. stream = c \o rest
        <3>1. junk \o rest = rest
            BY <1>7, ConcatEmptySeq
        <3> QED
            BY <1>1, <1>5, <3>1, Zenon
    <2>2. k # n
        <3> SUFFICES ASSUME k = n
                     PROVE  FALSE
            OBVIOUS
        <3>1. Behind(frames, n) = <<>>
            BY <1>2, <1>3, BehindEnds
        <3>2. rest = <<>>
            BY <1>5, <3>1, FlattenNothing, Zenon
        <3>3. stream = c
            BY <1>1, <2>1, <3>2, ConcatEmptySeq
        <3> QED
            BY <3>3
    <2>3. PICK next \in 1..n : next = k + 1 /\ k \in 0..(n - 1)
        <3>1. k + 1 \in 1..n /\ k \in 0..(n - 1)
            BY <1>4, <2>2
        <3> QED
            BY <3>1, Zenon
    <2>4. /\ frames[next] \in Seq(Nat) /\ Len(frames[next]) >= 10
          /\ FlattenSeq(Behind(frames, next)) \in Seq(Nat)
          /\ FlattenSeq(Behind(frames, k)) = frames[next] \o FlattenSeq(Behind(frames, next))
        BY <1>3, <2>3, NextBehind
    <2>5. PICK f \in Seq(Nat) : f = frames[next]
        BY <2>4
    <2>6. PICK m \in Nat : m = Len(f) /\ 1 \in 1..m
        <3>1. Len(f) \in Nat /\ 1 \in 1..Len(f)
            BY <2>4, <2>5, LenProperties
        <3> QED
            BY <3>1, Zenon
    <2>7. f \in PeerFrames
        <3>1. next \in 1..Len(frames)
            BY <1>3
        <3> QED
            BY <2>5, <3>1, ElementOfSeq
    <2>8. /\ f[1] \in Nat /\ Left(SubSeq(f, 1 + 1, m))
          /\ SubSeq(f, 1, m) = <<f[1]>> \o SubSeq(f, 1 + 1, m)
        BY <2>6, <2>7, FirstCell
    <2>9. SubSeq(f, 1, m) = f
        BY <2>6, SubSeqFull
    <2>10. PICK scrap \in Seq(Nat) : scrap = SubSeq(f, 1 + 1, m)
        BY <2>8, Zenon DEF Left
    <2>11. PICK x \in Nat : x = f[1]
        BY <2>8
    <2>12. PICK behind \in Seq(Nat) : behind = FlattenSeq(Behind(frames, next))
        BY <2>4
    <2>13. stream = c \o ((<<x>> \o scrap) \o behind)
        BY <1>5, <2>1, <2>4, <2>5, <2>8, <2>9, <2>10, <2>11, <2>12, Zenon
    <2>14. PICK d \in Seq(Nat) : d = c \o <<x>> /\ Len(d) = Len(c) + 1 /\
              c \o ((<<x>> \o scrap) \o behind) = d \o (scrap \o behind)
        <3>1. Moves(c, x, scrap, behind)
            BY <1>1, MoveCell
        <3> QED
            BY <3>1, Zenon DEF Moves
    <2>15. next \in 0..Len(frames)
        BY <1>3
    <2>16. Cut(stream, frames, d, scrap, next)
        BY <2>8, <2>10, <2>12, <2>13, <2>14, <2>15, Zenon DEF Cut
    <2> QED
        BY <2>14, <2>16
<1> QED
    BY <1>6, <1>7

\* A scrap, and frames of the peer behind it.
Scrappy(stream, scrap, frames) ==
    /\ IsScrap(scrap) /\ frames \in Seq(PeerFrames) /\ Frames(frames)
    /\ stream = scrap \o FlattenSeq(frames)

\* Such a stream can be cut anywhere.
LEMMA CutAnywhere ==
    ASSUME NEW stream \in Seq(Nat), NEW scrap, NEW frames, Scrappy(stream, scrap, frames),
           NEW n \in Nat, n <= Len(stream)
    PROVE  \E c, junk, k : Cut(stream, frames, c, junk, k) /\ Len(c) = n
<1>0. /\ IsScrap(scrap) /\ frames \in Seq(PeerFrames) /\ Frames(frames)
      /\ stream = scrap \o FlattenSeq(frames)
    BY Zenon DEF Scrappy
<1> DEFINE S == {l \in Nat : l <= Len(stream) =>
                     \E c, junk, k : Cut(stream, frames, c, junk, k) /\ Len(c) = l}
<1>1. 0 \in S
    <2>1. PICK none \in Seq(Nat) : none = <<>> /\ Len(none) = 0
        <3>1. <<>> \in Seq(Nat) /\ Len(<<>>) = 0
            OBVIOUS
        <3> QED
            BY <3>1, Zenon
    <2>2. none \o stream = stream
        BY <2>1, ConcatEmptySeq
    <2>3. Behind(frames, 0) = frames
        <3>1. PICK m \in Nat : m = Len(frames)
            BY <1>0, LenProperties
        <3> QED
            BY <1>0, <3>1, BehindEnds
    <2>4. 0 \in 0..Len(frames)
        <3>1. Len(frames) \in Nat
            BY <1>0, LenProperties
        <3> QED
            BY <3>1
    <2>5. Left(scrap)
        BY <1>0, Zenon DEF Left, IsScrap
    <2>6. Cut(stream, frames, none, scrap, 0)
        BY <1>0, <2>2, <2>3, <2>4, <2>5, Zenon DEF Cut
    <2> QED
        BY <2>1, <2>6
<1>2. ASSUME NEW l \in Nat, l \in S
      PROVE  l + 1 \in S
    <2> SUFFICES ASSUME l + 1 <= Len(stream)
                 PROVE  \E c, junk, k : Cut(stream, frames, c, junk, k) /\ Len(c) = l + 1
        OBVIOUS
    <2>1. l <= Len(stream) /\ l < Len(stream)
        BY LenProperties
    <2>2. PICK c, junk, k : Cut(stream, frames, c, junk, k) /\ l = Len(c)
        BY <1>2, <2>1
    <2> HIDE DEF S
    <2>3. Len(c) < Len(stream)
        BY <2>1, <2>2
    <2>4. \E d, other, j : Cut(stream, frames, d, other, j) /\ Len(d) = Len(c) + 1
        BY <1>0, <2>2, <2>3, CutOneMore
    <2> QED
        BY <2>2, <2>4, Zenon
<1> HIDE DEF S
<1>3. Nat \subseteq S
    BY <1>1, <1>2, Induction
<1> QED
    BY <1>3 DEF S

\* Behind some of the frames behind k.
LEMMA BehindBehind ==
    ASSUME NEW D, NEW fs \in Seq(D), NEW n \in Nat, n = Len(fs), NEW k \in 0..n,
           NEW j \in 0..(n - k)
    PROVE  Behind(Behind(fs, k), j) = Behind(fs, k + j)
<1>1. PICK b : b = Behind(fs, k)
    OBVIOUS
<1>2. b \in Seq(D) /\ Len(b) = n - k /\ \A i \in 1..(n - k) : b[i] = fs[i + k]
    BY <1>1, BehindIs
<1>3. PICK m \in Nat : m = n - k
    <2>1. n - k \in Nat
        OBVIOUS
    <2> QED
        BY <2>1, Zenon
<1>4. PICK x : x = Behind(b, j)
    OBVIOUS
<1>5. x \in Seq(D) /\ Len(x) = m - j /\ \A i \in 1..(m - j) : x[i] = b[i + j]
    <2>1. m = Len(b) /\ j \in 0..m
        BY <1>2, <1>3
    <2> QED
        BY <1>2, <1>4, <2>1, BehindIs, ZenonT(30)
<1>6. PICK p \in 0..n : p = k + j
    <2>1. k + j \in 0..n
        OBVIOUS
    <2> QED
        BY <2>1, Zenon
<1>7. PICK y : y = Behind(fs, p)
    OBVIOUS
<1>8. y \in Seq(D) /\ Len(y) = n - p /\ \A i \in 1..(n - p) : y[i] = fs[i + p]
    BY <1>7, BehindIs
<1>9. Len(x) = Len(y)
    BY <1>3, <1>5, <1>6, <1>8
<1>10. ASSUME NEW i \in 1..Len(x)
       PROVE  x[i] = y[i]
    <2>1. i \in 1..(m - j) /\ i \in 1..(n - p) /\ i + j \in 1..(n - k) /\ (i + j) + k = i + p
        BY <1>3, <1>5, <1>6, <1>9
    <2>2. x[i] = b[i + j]
        BY <1>5, <2>1
    <2>3. b[i + j] = fs[(i + j) + k]
        BY <1>2, <2>1
    <2>4. y[i] = fs[i + p]
        BY <1>8, <2>1
    <2> QED
        BY <2>1, <2>2, <2>3, <2>4
<1>11. x = y
    BY <1>5, <1>8, <1>9, <1>10, SeqEqual
<1> QED
    BY <1>1, <1>4, <1>6, <1>7, <1>11, Zenon

\* From whichever of the frames decode starts, they make it that the packets from
\* some id on are out.
Hopeful(frames, packets, uid) ==
    \A k \in 0..Len(frames) : \E id \in 0..uid :
        Ends(Nothing, Behind(frames, k), PacketsFrom(id, packets), uid)

\* The frames behind k are hopeful as all of them are.
LEMMA HopefulBehind ==
    ASSUME NEW frames \in Seq(Seq(Nat)), NEW packets, NEW uid, Hopeful(frames, packets, uid),
           NEW k \in 0..Len(frames)
    PROVE  Hopeful(Behind(frames, k), packets, uid)
<1>1. PICK n \in Nat : n = Len(frames) /\ k \in 0..n
    BY LenProperties
<1>2. PICK behind : behind = Behind(frames, k) /\ Len(behind) = n - k
    BY <1>1, BehindIs
<1>3. ASSUME NEW j \in 0..(n - k)
      PROVE  \E id \in 0..uid : Ends(Nothing, Behind(behind, j), PacketsFrom(id, packets), uid)
    <2>1. PICK p : p = k + j
        OBVIOUS
    <2>2. p \in 0..Len(frames)
        BY <1>1, <2>1
    <2>3. Behind(behind, j) = Behind(frames, p)
        BY <1>1, <1>2, <2>1, BehindBehind
    <2> QED
        BY <2>2, <2>3, Zenon DEF Hopeful
<1> QED
    BY <1>2, <1>3, Zenon DEF Hopeful

\* Nothing has been taken for a frame yet; the next one begins behind a scrap.
LostIn(buf, wr, s, packets, uid) ==
    /\ s = Nothing
    /\ \E junk, frames :
          Scrappy(buf \o wr, junk, frames) /\ Hopeful(frames, packets, uid)

Lost == LostIn(buffer_, wire, Now, sent, sentMsgUid_)

\* decode is in step with the frames, and they bring the messages from some id on.
Found == \E id \in 0..sentMsgUid_ : StreamFor(SentFrom(id))

\* Lost, from the next state's variables.
LEMMA LostThen ==
    ASSUME LostIn(buffer_', wire', Then, sent', sentMsgUid_')
    PROVE  Lost'
<1>1. Then = Now'
    BY DEF Then, Now
<1> QED
    BY <1>1, Zenon DEF Lost, LostIn

\* Found, from the next state's variables.
LEMMA FoundThen ==
    ASSUME NEW packets, StreamFor(packets)', NEW id, id \in 0..sentMsgUid_',
           packets = PacketsFrom(id, sent')
    PROVE  Found'
<1>1. packets = SentFrom(id)'
    BY Zenon DEF SentFrom
<1>2. StreamFor(SentFrom(id))'
    BY <1>1, Zenon DEF StreamFor, Pending, Waits
<1> QED
    BY <1>2, Zenon DEF Found

\* Steps that do not move the front of the stream, and deliver nothing.
LEMMA LostStays ==
    ASSUME Lost, buffer_' \o wire' = buffer_ \o wire, Then = Now, PeerStays
    PROVE  Lost'
<1>1. LostIn(buffer_', wire', Then, sent', sentMsgUid_')
    BY Zenon DEF Lost, LostIn, PeerStays
<1> QED
    BY <1>1, LostThen

\* When decode drops cells and has nothing, it is lost or has found its place.
LEMMA LostOrFound ==
    ASSUME TypeOK, Lost, NEW n \in Nat, n <= Len(buffer_),
           buffer_' = SubSeq(buffer_, n + 1, Len(buffer_)), wire' = wire,
           Then = Nothing, PeerStays, ~decoding' => buffer_' = <<>>
    PROVE  Lost' \/ Found'
<1>1. PICK junk, frames :
          /\ IsScrap(junk) /\ frames \in Seq(PeerFrames) /\ Frames(frames)
          /\ buffer_ \o wire = junk \o FlattenSeq(frames)
          /\ Hopeful(frames, sent, sentMsgUid_)
    BY Zenon DEF Lost, LostIn, Scrappy
<1>2. buffer_ \in Seq(Nat) /\ wire \in Seq(Nat) /\ frames \in Seq(Seq(Nat))
    BY <1>1, Zenon DEF TypeOK, Frames
<1>3. PICK stream \in Seq(Nat) : stream = buffer_ \o wire /\ n <= Len(stream)
    <2>1. buffer_ \o wire \in Seq(Nat) /\ Len(buffer_ \o wire) = Len(buffer_) + Len(wire)
        BY <1>2, ConcatProperties
    <2>2. Len(buffer_) \in Nat /\ Len(wire) \in Nat
        BY <1>2, LenProperties
    <2>3. n <= Len(buffer_ \o wire)
        BY <2>1, <2>2
    <2> QED
        BY <2>1, <2>3, Zenon
<1>4. PICK c, scrap, k : Cut(stream, frames, c, scrap, k) /\ Len(c) = n
    <2>1. Scrappy(stream, junk, frames)
        BY <1>1, <1>3, Zenon DEF Scrappy
    <2> QED
        BY <1>3, <2>1, CutAnywhere
<1>5. /\ c \in Seq(Nat) /\ scrap \in Seq(Nat) /\ (scrap = <<>> \/ IsScrap(scrap))
      /\ k \in 0..Len(frames)
      /\ buffer_ \o wire = c \o (scrap \o FlattenSeq(Behind(frames, k)))
    BY <1>3, <1>4, Zenon DEF Cut, Left
<1>6. PICK behind \in Seq(Seq(Nat)) : behind = Behind(frames, k)
    <2>1. PICK m \in Nat : m = Len(frames)
        BY <1>2, LenProperties
    <2>2. Behind(frames, k) \in Seq(Seq(Nat))
        BY <1>2, <1>5, <2>1, BehindIs
    <2> QED
        BY <2>2, Zenon
<1>7. behind \in Seq(PeerFrames)
    <2>1. PICK m \in Nat : m = Len(frames)
        BY <1>2, LenProperties
    <2> QED
        BY <1>1, <1>5, <1>6, <2>1, BehindIs
<1>8. Frames(behind)
    <2>1. PICK m \in Nat : m = Len(frames) /\ k \in 0..m
        BY <1>2, <1>5, LenProperties
    <2>2. k + 1 \in 1..(Len(frames) + 1) /\ m \in 0..Len(frames) /\ k + 1 <= m + 1
        BY <2>1
    <2>3. Frames(SubSeq(frames, k + 1, m))
        BY <1>1, <2>2, FramesSub
    <2> QED
        BY <1>6, <2>1, <2>3, Zenon DEF Behind
<1>9. Hopeful(behind, sent, sentMsgUid_)
    BY <1>1, <1>2, <1>5, <1>6, HopefulBehind
<1>10. PICK flat \in Seq(Nat) : flat = FlattenSeq(behind)
    BY FlattenSeqType
<1>11. buffer_' \o wire' = scrap \o flat
    <2>1. PICK rest \in Seq(Nat) : rest = scrap \o flat
        BY <1>5, ConcatProperties
    <2>2. buffer_ \o wire = c \o rest
        BY <1>5, <1>6, <1>10, <2>1, Zenon
    <2>3. n = Len(c)
        BY <1>4
    <2>4. c \in Seq(Nat) /\ buffer_ \in Seq(Nat) /\ wire \in Seq(Nat)
        BY <1>2, <1>5
    <2>5. SubSeq(buffer_, n + 1, Len(buffer_)) \o wire = rest
        BY <2>2, <2>3, <2>4, FirstPart
    <2> QED
        BY <2>1, <2>5
<1>12. CASE IsScrap(scrap)
    <2>1. LostIn(buffer_', wire', Then, sent', sentMsgUid_')
        BY <1>7, <1>8, <1>9, <1>10, <1>11, <1>12, Zenon DEF LostIn, Scrappy, PeerStays
    <2> QED
        BY <2>1, LostThen
<1>13. CASE scrap = <<>>
    <2>1. buffer_' \o wire' = FlattenSeq(behind)
        <3>1. scrap \o flat = flat
            BY <1>13, ConcatEmptySeq
        <3> QED
            BY <1>10, <1>11, <3>1, Zenon
    <2>2. PICK uid \in Nat : uid = sentMsgUid_
        BY DEF TypeOK
    <2>3. PICK id \in 0..uid : Ends(Nothing, behind, PacketsFrom(id, sent), uid)
        <3>1. Behind(behind, 0) = behind /\ 0 \in 0..Len(behind)
            <4>1. PICK m \in Nat : m = Len(behind) /\ 0 \in 0..m
                BY LenProperties
            <4> QED
                BY <4>1, BehindEnds
        <3> QED
            BY <1>9, <2>2, <3>1, Zenon DEF Hopeful
    <2>4. PICK packets : packets = PacketsFrom(id, sent)
        OBVIOUS
    <2>5. PICK t : Reaches(Nothing, behind, t, packets, uid) /\ t.out = packets
        BY <2>3, <2>4, Zenon DEF Ends, Ended
    <2>6. Pending(buffer_', wire', Then, packets, sentMsgUid_', behind, t)
        BY <1>8, <2>1, <2>2, <2>5, Zenon DEF Pending, PeerStays
    <2>7. ASSUME ~decoding'
          PROVE  Waits(buffer_', behind)
        <3> SUFFICES ASSUME behind # <<>>
                     PROVE  Len(buffer_') < Len(behind[1])
            BY DEF Waits
        <3>1. 1 \in 1..Len(behind)
            BY EmptySeq
        <3>2. IsMessage(behind[1])
            BY <1>8, <3>1, Zenon DEF Frames
        <3>3. Len(behind[1]) >= 10 /\ Len(behind[1]) \in Nat
            BY <3>2, LenProperties DEF IsMessage, IsFrame, PROTO_HEADER_SIZE
        <3>4. Len(buffer_') = 0
            BY <2>7
        <3> QED
            BY <3>3, <3>4
    <2>8. StreamFor(packets)'
        BY <2>6, <2>7, StreamThen
    <2>9. id \in 0..sentMsgUid_' /\ packets = PacketsFrom(id, sent')
        BY <2>2, <2>4, Zenon DEF PeerStays
    <2> QED
        BY <2>8, <2>9, FoundThen
<1> QED
    BY <1>5, <1>12, <1>13

\* What is known of a part when nothing has come of its message.
LEMMA NothingKept ==
    ASSUME NEW id, NEW total \in Nat
    PROVE  /\ Forgotten(Nothing, id) = Nothing
           /\ PartsIn(Nothing.cache, id, total) = [k \in 1..total |-> <<>>]
<1>1. PICK empty : empty = <<>> /\ IsCache(empty) /\ DOMAIN empty = {}
    <2>1. IsCache(<<>>) /\ DOMAIN <<>> = {}
        BY DEF IsCache
    <2> QED
        BY <2>1, Zenon
<1>2. Nothing.cache = empty /\ Nothing.out = <<>> /\ Nothing = [cache |-> empty, out |-> <<>>]
    BY <1>1 DEF Nothing
<1>3. id \notin DOMAIN empty
    BY <1>1
<1>4. Without(empty, id) = empty
    BY <1>1, <1>3, WithoutFresh
<1>5. Forgotten(Nothing, id) = Nothing
    BY <1>2, <1>4, Zenon DEF Forgotten
<1>6. PartsIn(empty, id, total) = [k \in 1..total |-> <<>>]
    BY <1>3, Zenon DEF PartsIn
<1> QED
    BY <1>2, <1>5, <1>6, Zenon

\* Nothing comes of a part that is refused.
LEMMA RefusedPart ==
    ASSUME NEW id, NEW ptype, NEW seq \in Nat, NEW total \in Nat, NEW flags, NEW sum,
           NEW body \in Seq(Nat),
           \/ seq >= total
           \/ ENDPART(flags) /\ total > 1
           \/ ~ENDPART(flags) /\ adler32(body) # sum
    PROVE  AfterPart(Nothing, id, ptype, seq, total, flags, sum, body) = Nothing
<1> DEFINE parts == [k \in 1..total |-> <<>>]
           placed == [parts EXCEPT ![seq + 1] = body]
<1>1. Forgotten(Nothing, id) = Nothing /\ PartsIn(Nothing.cache, id, total) = parts
    BY NothingKept
<1>2. Len(parts) = total
    OBVIOUS
<1>3. seq < total /\ total > 1 => \E k \in DOMAIN placed : placed[k] = <<>>
    <2> SUFFICES ASSUME seq < total, total > 1
                 PROVE  \E k \in DOMAIN placed : placed[k] = <<>>
        OBVIOUS
    <2>1. PICK k \in 1..total : k # seq + 1
        <3>1. CASE seq = 0
            <4>1. 2 \in 1..total /\ 2 # seq + 1
                BY <3>1
            <4> QED
                BY <4>1
        <3>2. CASE seq # 0
            <4>1. 1 \in 1..total /\ 1 # seq + 1
                BY <3>2
            <4> QED
                BY <4>1
        <3> QED
            BY <3>1, <3>2
    <2> QED
        BY <2>1
<1> HIDE DEF parts, placed
<1>4. AfterPart(Nothing, id, ptype, seq, total, flags, sum, body) =
          IF seq >= total THEN Forgotten(Nothing, id)
          ELSE IF ENDPART(flags) THEN AfterLast(Nothing, id, ptype, placed, sum)
          ELSE AfterMiddle(Nothing, id, placed, sum, body)
    BY <1>1, <1>2, Zenon DEF AfterPart, placed
<1>5. CASE seq >= total
    BY <1>1, <1>4, <1>5, Zenon
<1>6. CASE ~(seq >= total) /\ ENDPART(flags) /\ total > 1
    <2>1. \E k \in DOMAIN placed : placed[k] = <<>>
        BY <1>3, <1>6
    <2>2. AfterLast(Nothing, id, ptype, placed, sum) = Forgotten(Nothing, id)
        BY <2>1, Zenon DEF AfterLast
    <2> QED
        BY <1>1, <1>4, <1>6, <2>2, Zenon
<1>7. CASE ~(seq >= total) /\ ~ENDPART(flags) /\ adler32(body) # sum
    BY <1>1, <1>4, <1>7, Zenon DEF AfterMiddle
<1> QED
    BY <1>5, <1>6, <1>7, Zenon

\* Nothing comes of a frame that is refused.
LEMMA RefusedNothing ==
    ASSUME NEW f \in Seq(Nat), IsFrame(f), NEW h,
           h.ptype = f[4], h.flags = f[6], h.seq = f[8], h.total = f[9], h.checksum = f[10],
           Refused(h, BodyOf(f))
    PROVE  After(Nothing, f) = Nothing
<1>1. f[4] \in Nat /\ f[8] \in Nat /\ f[9] \in Nat
    <2>1. Len(f) >= 10 /\ Len(f) \in Nat
        BY LenProperties DEF IsFrame, PROTO_HEADER_SIZE
    <2>2. 4 \in 1..Len(f) /\ 8 \in 1..Len(f) /\ 9 \in 1..Len(f)
        BY <2>1
    <2> QED
        BY <2>2, ElementOfSeq
<1>2. BodyOf(f) \in Seq(Nat)
    <2>1. PICK n \in Nat : n = f[5] /\ Len(f) = 10 + n
        BY FrameLen
    <2> QED
        BY <2>1, BodyCells
<1>3. /\ \/ f[4] = HEARTBEAT
         \/ FRAGMENTED(f[6]) /\ f[8] >= f[9]
         \/ FRAGMENTED(f[6]) /\ ENDPART(f[6]) /\ f[9] > 1
         \/ ~(FRAGMENTED(f[6]) /\ ENDPART(f[6])) /\ adler32(BodyOf(f)) # f[10]
    BY Zenon DEF Refused
<1>4. CASE f[4] = HEARTBEAT
    BY <1>4, Zenon DEF After
<1>5. CASE f[4] # HEARTBEAT /\ FRAGMENTED(f[6])
    <2>1. \/ f[8] >= f[9]
          \/ ENDPART(f[6]) /\ f[9] > 1
          \/ ~ENDPART(f[6]) /\ adler32(BodyOf(f)) # f[10]
        BY <1>3, <1>5, Zenon
    <2>2. PICK seq \in Nat : seq = f[8]
        BY <1>1
    <2>3. PICK total \in Nat : total = f[9]
        BY <1>1
    <2>4. PICK body \in Seq(Nat) : body = BodyOf(f)
        BY <1>2
    <2>5. PICK flags : flags = f[6]
        OBVIOUS
    <2>6. PICK sum : sum = f[10]
        OBVIOUS
    <2>7. \/ seq >= total
          \/ ENDPART(flags) /\ total > 1
          \/ ~ENDPART(flags) /\ adler32(body) # sum
        BY <2>1, <2>2, <2>3, <2>4, <2>5, <2>6, Zenon
    <2>8. AfterPart(Nothing, f[7], f[4], seq, total, flags, sum, body) = Nothing
        BY <2>7, RefusedPart
    <2> QED
        BY <1>5, <2>2, <2>3, <2>4, <2>5, <2>6, <2>8, Zenon DEF After
<1>6. CASE f[4] # HEARTBEAT /\ ~FRAGMENTED(f[6])
    <2>1. adler32(BodyOf(f)) # f[10]
        BY <1>3, <1>6, Zenon
    <2>2. Nothing = [cache |-> Nothing.cache, out |-> Nothing.out]
        BY DEF Nothing
    <2>3. AfterWhole(Nothing, f[7], f[4], f[10], BodyOf(f)) = Nothing
        BY <2>1, <2>2, Zenon DEF AfterWhole
    <2> QED
        BY <1>6, <2>3, Zenon DEF After
<1> QED
    BY <1>4, <1>5, <1>6, Zenon

\* A frame at the front of a stream that is no false frame is refused.
LEMMA NoFalseFront ==
    ASSUME NEW f \in Seq(Nat), IsFrame(f), f[5] \in Nat, NEW rest \in Seq(Nat),
           NEW stream, stream = f \o rest, ~FalseFrame(stream)
    PROVE  After(Nothing, f) = Nothing
<1>1. PICK n \in Nat : n = f[5]
    OBVIOUS
<1>2. PICK l \in Nat : l = 10 + n /\ l >= 10
    <2>1. 10 + n \in Nat /\ 10 + n >= 10
        OBVIOUS
    <2> QED
        BY <2>1, Zenon
<1>3. Len(f) = l /\ SubSeq(f, 1, 2) = PROTO_MAGIC /\ f[3] = VERSION
    BY <1>1, <1>2, Zenon DEF IsFrame, PROTO_HEADER_SIZE
<1>4. PICK whole \in Seq(Nat) : whole = stream /\ whole = f \o rest
    BY ConcatProperties
<1>5. Len(whole) >= l /\ \A i \in 1..10 : whole[i] = f[i]
    <2>1. PICK m \in Nat : m = Len(rest)
        BY LenProperties
    <2>2. PICK all \in Nat : all = l + m /\ all >= l
        <3>1. l + m \in Nat /\ l + m >= l
            OBVIOUS
        <3> QED
            BY <3>1, Zenon
    <2>3. l = Len(f)
        BY <1>3
    <2>4. JoinOf(whole, f, l, rest, m, all)
        BY <1>4, <2>1, <2>2, <2>3, JoinIs
    <2>5. Len(whole) = all /\ \A i \in 1..all : whole[i] = IF i <= l THEN f[i] ELSE rest[i - l]
        BY <2>4, Zenon DEF JoinOf
    <2>6. \A i \in 1..10 : i \in 1..all /\ i <= l
        BY <1>2, <2>2
    <2> QED
        BY <2>2, <2>5, <2>6, Zenon
<1>6. SubSeq(whole, 1, 2) = PROTO_MAGIC
    <2>1. 1 \in 1..Len(f) /\ 2 \in 1..Len(f)
        BY <1>2, <1>3
    <2>2. SubSeq(f \o rest, 1, 2) = SubSeq(f, 1, 2)
        BY <2>1, SubSeqOfConcat1
    <2> QED
        BY <1>3, <1>4, <2>2, Zenon
<1>7. SubSeq(whole, 11, l) = BodyOf(f)
    <2>0. BodyOf(f) = SubSeq(f, 11, l)
        <3>1. 10 + 1 = 11
            OBVIOUS
        <3> QED
            BY <1>3, <3>1, Zenon DEF BodyOf, PROTO_HEADER_SIZE
    <2>1. CASE n = 0
        <3>1. l < 11 /\ 11 \in Int /\ l \in Int
            BY <1>2, <2>1
        <3>2. SubSeq(whole, 11, l) = <<>> /\ SubSeq(f, 11, l) = <<>>
            BY <3>1, SubSeqEmpty
        <3> QED
            BY <2>0, <3>2, Zenon
    <2>2. CASE n # 0
        <3>1. 11 \in 1..Len(f) /\ l \in 1..Len(f)
            BY <1>2, <1>3, <2>2
        <3>2. SubSeq(f \o rest, 11, l) = SubSeq(f, 11, l)
            BY <3>1, SubSeqOfConcat1
        <3> QED
            BY <1>4, <2>0, <3>2, Zenon
    <2> QED
        BY <2>1, <2>2
<1>8. PICK h : h = HeaderOf(whole)
    OBVIOUS
<1>9. /\ h.version = whole[3] /\ h.ptype = whole[4] /\ h.payload_len = whole[5]
      /\ h.flags = whole[6] /\ h.seq = whole[8] /\ h.total = whole[9] /\ h.checksum = whole[10]
    BY <1>8 DEF HeaderOf
<1>10. /\ h.version = f[3] /\ h.ptype = f[4] /\ h.payload_len = n
       /\ h.flags = f[6] /\ h.seq = f[8] /\ h.total = f[9] /\ h.checksum = f[10]
    <2>1. /\ whole[3] = f[3] /\ whole[4] = f[4] /\ whole[5] = f[5] /\ whole[6] = f[6]
          /\ whole[8] = f[8] /\ whole[9] = f[9] /\ whole[10] = f[10]
        BY <1>5
    <2> QED
        BY <1>1, <1>9, <2>1, Zenon
<1>11. Refused(h, BodyOf(f))
    <2> SUFFICES ASSUME ~Refused(h, BodyOf(f))
                 PROVE  FALSE
        OBVIOUS
    <2>1. 10 + 1 = 11 /\ 10 + n = l /\ Len(whole) >= 10
        <3>1. Len(whole) \in Nat
            BY LenProperties
        <3> QED
            BY <1>2, <1>5, <3>1
    <2>2. FalseFrame(whole)
        BY <1>3, <1>5, <1>6, <1>7, <1>8, <1>10, <2>1, Zenon DEF FalseFrame, PROTO_HEADER_SIZE
    <2> QED
        BY <1>4, <2>2, Zenon
<1> QED
    BY <1>10, <1>11, RefusedNothing

\* A frame that decode finds while it is lost gives nothing.
LEMMA LostHandled ==
    ASSUME NoFalseFrame, TypeOK, Lost, handleSingleFrame
    PROVE  Then = Nothing
<1>1. PICK junk, frames : Scrappy(buffer_ \o wire, junk, frames)
    BY Zenon DEF Lost, LostIn
<1>2. Now = Nothing
    BY Zenon DEF Lost, LostIn
<1>3. ~FalseFrame(buffer_ \o wire)
    <2>1. junk \in Scraps /\ frames \in Seq(PeerFrames)
        BY <1>1, Zenon DEF Scrappy, IsScrap
    <2>2. ~FalseFrame(junk \o FlattenSeq(frames))
        BY <2>1, Zenon DEF NoFalseFrame
    <2> QED
        BY <1>1, <2>2, Zenon DEF Scrappy
<1>4. PICK b \in Seq(Nat) : b = buffer_
    BY DEF TypeOK
<1>5. PICK w \in Seq(Nat) : w = wire
    BY DEF TypeOK
<1>6. PICK n \in Nat : n = buffer_[5] /\ Len(b) >= 10 + n
    BY <1>4, HandledFrame
<1>7. PICK m \in Nat : m = Len(b)
    BY <1>4, LenProperties
<1>8. PICK l \in 0..m : l = 10 + n
    <2>1. 10 + n \in 0..m
        BY <1>6, <1>7
    <2> QED
        BY <2>1, Zenon
<1>9. PICK f \in Seq(Nat) : f = Frame /\ IsFrame(f)
    BY HandledFrame DEF IsFrame
<1>10. f = SubSeq(b, 1, l)
    BY <1>4, <1>6, <1>8, <1>9, Zenon DEF Frame, PROTO_HEADER_SIZE
<1>11. PICK r \in Seq(Nat) : r = SubSeq(b, l + 1, m)
    <2>1. SubSeq(buffer_, l + 1, Len(buffer_)) \in Seq(Nat)
        <3>1. l \in Nat
            OBVIOUS
        <3> QED
            BY <3>1, RestType
    <2> QED
        BY <1>4, <1>7, <2>1, Zenon
<1>12. b = f \o r
    <2>1. 1 \in 1..(Len(b) + 1) /\ l \in (1 - 1)..Len(b) /\ m \in l..Len(b)
        BY <1>7
    <2>2. SubSeq(b, 1, l) \o SubSeq(b, l + 1, m) = SubSeq(b, 1, m)
        BY <2>1, ConcatAdjacentSubSeq
    <2>3. SubSeq(b, 1, m) = b
        BY <1>7, SubSeqFull
    <2> QED
        BY <1>10, <1>11, <2>2, <2>3, Zenon
<1>13. PICK rest \in Seq(Nat) : rest = r \o w
    BY ConcatProperties
<1>14. PICK stream : stream = f \o rest /\ ~FalseFrame(stream)
    <2>1. Associates(f, r, w)
        BY Associative
    <2>2. buffer_ \o wire = f \o rest
        BY <1>4, <1>5, <1>12, <1>13, <2>1, Zenon DEF Associates
    <2> QED
        BY <1>3, <2>2, Zenon
<1>15. f[5] \in Nat
    <2>1. PICK x \in Nat : x = f[5]
        BY <1>9, FrameLen
    <2> QED
        BY <2>1
<1>16. After(Nothing, f) = Nothing
    <2>1. IsFrame(f)
        BY <1>9
    <2> QED
        BY <1>14, <1>15, <2>1, NoFalseFront
<1>17. Then = After(Now, Frame)
    BY HandledIs
<1> QED
    BY <1>2, <1>9, <1>16, <1>17, Zenon

\* While decode is lost, a step of it leaves it lost or lets it find its place.
LEMMA LostDecode ==
    ASSUME NoFalseFrame, TypeOK, Lost, Decode
    PROVE  Lost' \/ Found'
<1>1. Now = Nothing
    BY Zenon DEF Lost, LostIn
<1>2. PICK l \in Nat : l = Len(buffer_) /\ SubSeq(buffer_, l + 1, l) = <<>>
    <2>1. PICK m \in Nat : m = Len(buffer_)
        BY LenProperties DEF TypeOK
    <2>2. m + 1 \in Int /\ m \in Int /\ m < m + 1
        OBVIOUS
    <2>3. SubSeq(buffer_, m + 1, m) = <<>>
        BY <2>2, SubSeqEmpty
    <2> QED
        BY <2>1, <2>3
<1>3. CASE WaitForHeader \/ WaitForPayload
    <2>1. buffer_' = buffer_ /\ wire' = wire /\ Then = Now /\ PeerStays
        BY <1>3, Zenon DEF WaitForHeader, WaitForPayload, Then, Now, PeerStays, peerVars
    <2>2. buffer_' \o wire' = buffer_ \o wire
        BY <2>1, Zenon
    <2> QED
        BY <2>1, <2>2, LostStays
<1>4. CASE Resync
    <2>1. PICK i \in 1..(Len(buffer_) - Len(PROTO_MAGIC)) : DropTo(i)
        BY <1>4, Zenon DEF Resync
    <2>2. i \in Nat /\ i <= Len(buffer_)
        <3>1. Len(PROTO_MAGIC) = 2
            BY DEF PROTO_MAGIC
        <3> QED
            BY <1>2, <3>1
    <2>3. buffer_' = SubSeq(buffer_, i + 1, Len(buffer_)) /\ decoding' = decoding
        BY <2>1, Zenon DEF DropTo, Drop
    <2>4. decoding /\ wire' = wire /\ Then = Now /\ PeerStays
        BY <1>4, Zenon DEF Resync, HaveHeader, Then, Now, PeerStays, peerVars
    <2>5. Then = Nothing /\ decoding'
        BY <1>1, <2>3, <2>4, Zenon
    <2> QED
        BY <2>2, <2>3, <2>4, <2>5, LostOrFound
<1>5. CASE NoMagic \/ VersionMismatch
    <2>1. buffer_' = <<>> /\ wire' = wire /\ Then = Now /\ PeerStays
        BY <1>5, Zenon DEF NoMagic, VersionMismatch, Then, Now, PeerStays, peerVars
    <2>2. Then = Nothing /\ l <= Len(buffer_) /\ buffer_' = SubSeq(buffer_, l + 1, Len(buffer_))
        BY <1>1, <1>2, <2>1
    <2> QED
        BY <2>1, <2>2, LostOrFound
<1>6. CASE Heartbeat
    <2>1. /\ Len(buffer_) >= 10 /\ decoding' = decoding /\ decoding
          /\ buffer_' = SubSeq(buffer_, 10 + 1, Len(buffer_))
          /\ wire' = wire /\ Then = Now /\ PeerStays
        BY <1>6, Zenon DEF Heartbeat, HaveVersion, InStep, HaveHeader, Drop, Then, Now,
           PeerStays, peerVars, PROTO_HEADER_SIZE
    <2>2. 10 \in Nat /\ 10 <= Len(buffer_)
        BY <1>2, <2>1
    <2>3. Then = Nothing /\ decoding'
        BY <1>1, <2>1, Zenon
    <2> QED
        BY <2>1, <2>2, <2>3, LostOrFound
<1>7. CASE handleSingleFrame
    <2>1. Then = Nothing
        BY <1>7, LostHandled
    <2>2. buffer_' = SubSeq(buffer_, Len(Frame) + 1, Len(buffer_))
        BY <1>7, HandledIs
    <2>3. wire' = wire /\ decoding' = decoding /\ decoding /\ PeerStays
        BY <1>7, Zenon DEF handleSingleFrame, HavePayload, HaveVersion, InStep, HaveHeader,
           PeerStays, peerVars
    <2>4. Len(Frame) \in Nat /\ Len(Frame) <= Len(buffer_)
        <3>1. Len(buffer_) >= 10 + buffer_[5] /\ buffer_[5] \in Nat
            BY <1>7, HandledFrame
        <3>2. Len(Frame) = 10 + buffer_[5]
            BY <3>1, FieldsOfFrame DEF PROTO_HEADER_SIZE
        <3> QED
            BY <1>2, <3>1, <3>2
    <2>5. decoding'
        BY <2>3, Zenon
    <2> QED
        BY <2>1, <2>2, <2>3, <2>4, <2>5, LostOrFound
<1> QED
    BY <1>3, <1>4, <1>5, <1>6, <1>7, Zenon DEF Decode

\* The packets of what was sent, with what the peer sends now.
LEMMA PacketsFromMore ==
    ASSUME NEW packets \in Seq(DecodedPacket), NEW more \in Seq(DecodedPacket), NEW uid \in Nat,
           NEW id \in 0..uid, \A k \in 1..Len(more) : more[k].msgId >= uid
    PROVE  PacketsFrom(id, packets \o more) = PacketsFrom(id, packets) \o more
<1>1. id \in Nat
    OBVIOUS
<1>2. \A k \in 1..Len(more) : more[k].msgId >= id
    <2>1. ASSUME NEW k \in 1..Len(more)
          PROVE  more[k].msgId >= id
        <3>1. more[k] \in DecodedPacket
            BY ElementOfSeq
        <3>2. more[k].msgId \in Nat /\ more[k].msgId >= uid
            BY <3>1 DEF DecodedPacket
        <3> QED
            BY <3>2
    <2> QED
        BY <2>1
<1>3. PacketsFrom(id, more) = more
    BY <1>1, <1>2, PacketsFromAll
<1>4. PacketsFrom(id, packets \o more) = PacketsFrom(id, packets) \o PacketsFrom(id, more)
    BY <1>1, PacketsFromConcat
<1> QED
    BY <1>3, <1>4, Zenon

\* The ids of what the peer sends now are new.
LEMMA SentLater ==
    ASSUME NEW new, NEW more, NEW later, PeerSent(new, more, later),
           NEW uid \in Nat, uid = sentMsgUid_
    PROVE  \A k \in 1..Len(more) : more[k].msgId >= uid
<1>1. later \in Nat /\ \A k \in 1..Len(more) : more[k].msgId \in uid..(later - 1)
    BY Zenon DEF PeerSent
<1> QED
    BY <1>1

\* What the peer sends goes behind frames that were to end.
LEMMA EndsMore ==
    ASSUME TypeOK, NEW new, NEW more, NEW later, PeerSent(new, more, later),
           NEW s, NEW frames \in Seq(Seq(Nat)), NEW packets \in Seq(DecodedPacket),
           Ends(s, frames, packets, sentMsgUid_)
    PROVE  Ends(s, frames \o new, packets \o more, later)
<1>1. PICK uid \in Nat : uid = sentMsgUid_
    BY DEF TypeOK
<1>2. PICK t : Reaches(s, frames, t, packets, uid) /\ Ended(t, packets, uid)
    BY <1>1, Zenon DEF Ends
<1>3. new \in Seq(Seq(Nat)) /\ more \in Seq(DecodedPacket) /\ later \in Nat /\ uid <= later
    BY <1>1, Zenon DEF PeerSent, Frames
<1>4. Ends(t, new, packets \o more, later)
    BY <1>1, <1>2, Zenon DEF PeerSent
<1>5. PICK u : Reaches(t, new, u, packets \o more, later) /\ Ended(u, packets \o more, later)
    BY <1>4, Zenon DEF Ends
<1>6. Reaches(s, frames, t, packets \o more, later)
    BY <1>2, <1>3, ReachesMore
<1>7. Reaches(s, frames \o new, u, packets \o more, later)
    BY <1>3, <1>5, <1>6, ReachesConcat
<1> QED
    BY <1>5, <1>7, Zenon DEF Ends

\* The ids of what was sent are used up.
UsedUp == \A k \in 1..Len(sent) : sent[k].msgId \in 0..(sentMsgUid_ - 1)

\* With what the peer sends the frames stay hopeful.
LEMMA HopefulMore ==
    ASSUME TypeOK, UsedUp, NEW new, NEW more, NEW later, PeerSent(new, more, later),
           NEW frames \in Seq(Seq(Nat)), Hopeful(frames, sent, sentMsgUid_)
    PROVE  Hopeful(frames \o new, sent \o more, later)
<1>1. PICK uid \in Nat : uid = sentMsgUid_
    BY DEF TypeOK
<1>2. PICK old \in Seq(DecodedPacket) : old = sent
    BY DEF TypeOK
<1>3. new \in Seq(Seq(Nat)) /\ more \in Seq(DecodedPacket) /\ later \in Nat /\ uid <= later
    BY <1>1, Zenon DEF PeerSent, Frames
<1>4. PICK n \in Nat : n = Len(frames)
    BY LenProperties
<1>5. PICK m \in Nat : m = Len(new)
    BY <1>3, LenProperties
<1>6. Len(frames \o new) = n + m
    BY <1>3, <1>4, <1>5, ConcatProperties
<1>7. PICK all : all = frames \o new
    OBVIOUS
<1>8. ASSUME NEW k \in 0..n
      PROVE  \E id \in 0..later : Ends(Nothing, Behind(all, k), PacketsFrom(id, old \o more), later)
    <2>1. PICK id \in 0..uid : Ends(Nothing, Behind(frames, k), PacketsFrom(id, old), uid)
        BY <1>1, <1>2, <1>4, <1>8, Zenon DEF Hopeful
    <2>2. PICK behind \in Seq(Seq(Nat)) : behind = Behind(frames, k)
        BY <1>4, BehindIs
    <2>3. PICK packets \in Seq(DecodedPacket) : packets = PacketsFrom(id, old)
        BY PacketsFromType
    <2>4. Ends(Nothing, behind, packets, sentMsgUid_)
        BY <1>1, <2>1, <2>2, <2>3, Zenon
    <2>5. Ends(Nothing, behind \o new, packets \o more, later)
        BY <2>4, EndsMore
    <2>6. Behind(all, k) = behind \o new
        BY <1>3, <1>4, <1>7, <2>2, BehindFirst
    <2>7. PacketsFrom(id, old \o more) = packets \o more
        <3>1. \A j \in 1..Len(more) : more[j].msgId >= uid
            BY <1>1, SentLater
        <3> QED
            BY <1>3, <2>3, <3>1, PacketsFromMore
    <2>8. id \in 0..later
        BY <1>3
    <2> QED
        BY <2>5, <2>6, <2>7, <2>8, Zenon
<1>9. ASSUME NEW k \in 1..m, NEW place, place = n + k
      PROVE  \E id \in 0..later :
                 Ends(Nothing, Behind(all, place), PacketsFrom(id, old \o more), later)
    <2>1. PICK id \in uid..later : Ends(Nothing, Behind(new, k), PacketsFrom(id, more), later)
        BY <1>1, <1>5, Zenon DEF PeerSent, StartsLate
    <2>2. Behind(all, place) = Behind(new, k)
        <3>1. place = Len(frames) + k /\ k \in 0..Len(new)
            BY <1>4, <1>5, <1>9
        <3> QED
            BY <1>3, <1>7, <3>1, BehindSecond
    <2>3. id \in Nat /\ id \in 0..later
        BY <1>3
    <2>4. PacketsFrom(id, old) = <<>>
        <3>1. \A j \in 1..Len(old) : old[j].msgId \in 0..(uid - 1)
            BY <1>1, <1>2, Zenon DEF UsedUp
        <3>2. \A i \in 0..(uid - 1) : i \in 0..(id - 1)
            OBVIOUS
        <3>3. \A j \in 1..Len(old) : old[j].msgId \in 0..(id - 1)
            BY <3>1, <3>2, Zenon
        <3> QED
            BY <2>3, <3>3, PacketsFromEarlier
    <2>5. PacketsFrom(id, old \o more) = PacketsFrom(id, old) \o PacketsFrom(id, more)
        BY <1>3, <2>3, PacketsFromConcat
    <2>6. PICK from \in Seq(DecodedPacket) : from = PacketsFrom(id, more)
        BY <1>3, PacketsFromType
    <2>7. <<>> \o from = from
        BY ConcatEmptySeq
    <2>8. PacketsFrom(id, old \o more) = PacketsFrom(id, more)
        BY <2>4, <2>5, <2>6, <2>7, Zenon
    <2> QED
        BY <2>1, <2>2, <2>3, <2>8, Zenon
<1>10. ASSUME NEW k \in 0..(n + m)
       PROVE  \E id \in 0..later :
                  Ends(Nothing, Behind(all, k), PacketsFrom(id, old \o more), later)
    <2>1. CASE k <= n
        <3>1. k \in 0..n
            BY <2>1
        <3> QED
            BY <1>8, <3>1
    <2>2. CASE ~(k <= n)
        <3>1. PICK j \in 1..m : k = n + j
            <4>1. k - n \in 1..m /\ k = n + (k - n)
                BY <2>2
            <4> QED
                BY <4>1, Zenon
        <3> QED
            BY <1>9, <3>1
    <2> QED
        BY <2>1, <2>2
<1> QED
    BY <1>2, <1>6, <1>7, <1>10, Zenon DEF Hopeful

\* What the peer sends keeps decode lost: it goes behind the other frames.
LEMMA LostPeer ==
    ASSUME TypeOK, UsedUp, sentMsgUid_ <= count, Lost,
           NEW new, NEW more, NEW later, PeerSent(new, more, later)
    PROVE  Lost'
<1>1. PICK junk, frames :
          Scrappy(buffer_ \o wire, junk, frames) /\ Hopeful(frames, sent, sentMsgUid_)
    BY Zenon DEF Lost, LostIn
<1>2. /\ IsScrap(junk) /\ frames \in Seq(PeerFrames) /\ Frames(frames)
      /\ buffer_ \o wire = junk \o FlattenSeq(frames)
      /\ junk \in Seq(Nat) /\ frames \in Seq(Seq(Nat))
    BY <1>1, Zenon DEF Scrappy, IsScrap, Frames
<1>3. /\ Frames(new) /\ new \in Seq(Seq(Nat)) /\ new \in Seq(PeerFrames)
      /\ wire' = wire \o FlattenSeq(new) /\ sent' = sent \o more /\ sentMsgUid_' = later
      /\ buffer_' = buffer_ /\ Then = Now
    BY Zenon DEF PeerSent, Frames, Then, Now
<1>4. PICK all : all = frames \o new
    OBVIOUS
<1>5. all \in Seq(PeerFrames)
    BY <1>2, <1>3, <1>4, ConcatProperties
<1>6. Frames(all)
    BY <1>2, <1>3, <1>4, FramesConcat
<1>7. Hopeful(all, sent', sentMsgUid_')
    <2>1. Hopeful(frames \o new, sent \o more, later)
        BY <1>1, <1>2, HopefulMore
    <2> QED
        BY <1>3, <1>4, <2>1, Zenon
<1>8. buffer_' \o wire' = junk \o FlattenSeq(all)
    <2>1. PICK a \in Seq(Nat) : a = FlattenSeq(frames)
        BY <1>2, FlattenSeqType
    <2>2. PICK b \in Seq(Nat) : b = FlattenSeq(new)
        BY <1>3, FlattenSeqType
    <2>3. FlattenSeq(all) = a \o b
        BY <1>2, <1>3, <1>4, <2>1, <2>2, FlattenSeqConcat
    <2>4. buffer_ \in Seq(Nat) /\ wire \in Seq(Nat)
        BY DEF TypeOK
    <2>5. Associates(buffer_, wire, b)
        BY <2>4, Associative
    <2>6. Associates(junk, a, b)
        BY <1>2, Associative
    <2> QED
        BY <1>2, <1>3, <2>1, <2>2, <2>3, <2>5, <2>6, Zenon DEF Associates
<1>9. Now = Nothing
    BY Zenon DEF Lost, LostIn
<1>10. LostIn(buffer_', wire', Then, sent', sentMsgUid_')
    BY <1>2, <1>3, <1>5, <1>6, <1>7, <1>8, <1>9, Zenon DEF LostIn, Scrappy
<1> QED
    BY <1>10, LostThen

\* What the peer sends leaves decode in step.
LEMMA FoundPeer ==
    ASSUME TypeOK, Found, NEW new, NEW more, NEW later, PeerSent(new, more, later)
    PROVE  Found'
<1>1. PICK uid \in Nat : uid = sentMsgUid_
    BY DEF TypeOK
<1>2. PICK old \in Seq(DecodedPacket) : old = sent
    BY DEF TypeOK
<1>3. PICK id \in 0..uid : StreamFor(PacketsFrom(id, old))
    BY <1>1, <1>2, Zenon DEF Found, SentFrom
<1>4. PICK packets \in Seq(DecodedPacket) : packets = PacketsFrom(id, old)
    BY PacketsFromType
<1>5. StreamFor(packets)
    BY <1>3, <1>4, Zenon
<1>6. /\ more \in Seq(DecodedPacket) /\ later \in Nat /\ uid <= later
      /\ sent' = sent \o more /\ sentMsgUid_' = later
    BY <1>1, Zenon DEF PeerSent
<1>7. PICK all : all = packets \o more
    OBVIOUS
<1>8. StreamFor(all)'
    BY <1>5, <1>7, PeerStream
<1>9. all = PacketsFrom(id, sent')
    <2>1. \A j \in 1..Len(more) : more[j].msgId >= uid
        BY <1>1, SentLater
    <2>2. PacketsFrom(id, old \o more) = PacketsFrom(id, old) \o more
        BY <1>6, <2>1, PacketsFromMore
    <2> QED
        BY <1>2, <1>4, <1>6, <1>7, <2>2, Zenon
<1>10. id \in 0..sentMsgUid_'
    BY <1>6
<1> QED
    BY <1>8, <1>9, <1>10, FoundThen

\* A read or a step of decode leaves decode in step.
LEMMA FoundStays ==
    ASSUME TypeOK, Found, Read \/ Decode
    PROVE  Found'
<1>1. PICK id \in 0..sentMsgUid_ : StreamFor(SentFrom(id))
    BY Zenon DEF Found
<1>2. PICK packets : packets = SentFrom(id)
    OBVIOUS
<1>3. StreamFor(packets)
    BY <1>1, <1>2, Zenon
<1>4. StreamFor(packets)'
    BY <1>3, ReadStream, DecodeStream
<1>5. PeerStays
    BY Zenon DEF Read, Decode, WaitForHeader, Resync, NoMagic, VersionMismatch, Heartbeat,
       WaitForPayload, handleSingleFrame, PeerStays, peerVars
<1>6. id \in 0..sentMsgUid_' /\ packets = PacketsFrom(id, sent')
    BY <1>2, <1>5, Zenon DEF PeerStays, SentFrom
<1> QED
    BY <1>4, <1>6, FoundThen

\* decode is lost or in step, and the ids of the peer are counted.
LossInv == (Lost \/ Found) /\ sentMsgUid_ <= count /\ UsedUp

\* What the peer sends uses up the ids of it.
LEMMA UsedUpMore ==
    ASSUME TypeOK, UsedUp, NEW new, NEW more, NEW later, PeerSent(new, more, later)
    PROVE  UsedUp'
<1>1. PICK uid \in Nat : uid = sentMsgUid_
    BY DEF TypeOK
<1>2. PICK old \in Seq(DecodedPacket) : old = sent
    BY DEF TypeOK
<1>3. /\ more \in Seq(DecodedPacket) /\ later \in Nat /\ uid <= later
      /\ sent' = old \o more /\ sentMsgUid_' = later
      /\ \A k \in 1..Len(more) : more[k].msgId \in uid..(later - 1)
    BY <1>1, <1>2, Zenon DEF PeerSent
<1>4. PICK n \in Nat : n = Len(old)
    BY LenProperties
<1>5. PICK m \in Nat : m = Len(more)
    BY <1>3, LenProperties
<1>6. PICK l \in Nat : l = n + m
    <2>1. n + m \in Nat
        OBVIOUS
    <2> QED
        BY <2>1, Zenon
<1>7. PICK all : all = old \o more
    OBVIOUS
<1>8. JoinOf(all, old, n, more, m, l)
    BY <1>3, <1>4, <1>5, <1>6, <1>7, JoinIs
<1>9. \A k \in 1..n : old[k].msgId \in 0..(uid - 1)
    BY <1>1, <1>2, <1>4, Zenon DEF UsedUp
<1>10. ASSUME NEW k \in 1..l
       PROVE  all[k].msgId \in 0..(later - 1)
    <2>1. CASE k <= n
        <3>1. k \in 1..n
            BY <2>1
        <3>2. all[k] = old[k]
            BY <1>8, <2>1, Zenon DEF JoinOf
        <3>3. all[k].msgId \in 0..(uid - 1)
            BY <1>9, <3>1, <3>2, Zenon
        <3> QED
            BY <1>3, <3>3
    <2>2. CASE ~(k <= n)
        <3>1. PICK j \in 1..m : j = k - n
            <4>1. k - n \in 1..m
                BY <1>6, <2>2
            <4> QED
                BY <4>1, Zenon
        <3>2. all[k] = more[j]
            BY <1>8, <2>2, <3>1, Zenon DEF JoinOf
        <3>3. all[k].msgId \in uid..(later - 1)
            BY <1>3, <1>5, <3>1, <3>2, Zenon
        <3> QED
            BY <1>3, <3>3
    <2> QED
        BY <2>1, <2>2
<1>11. Len(all) = l
    BY <1>8, Zenon DEF JoinOf
<1> QED
    BY <1>3, <1>7, <1>10, <1>11, Zenon DEF UsedUp

\* Every step keeps the invariant.
LEMMA LossStep ==
    ASSUME NoFalseFrame, TypeOK, LossInv, [Next]_vars
    PROVE  LossInv'
<1>1. (Lost \/ Found) /\ sentMsgUid_ <= count /\ UsedUp
    BY DEF LossInv
<1>2. CASE Peer
    <2>1. PICK new, more, later : PeerSent(new, more, later)
        BY <1>2, PeerIs
    <2>2. Lost' \/ Found'
        BY <1>1, <2>1, LostPeer, FoundPeer
    <2>3. UsedUp'
        BY <1>1, <2>1, UsedUpMore
    <2>4. sentMsgUid_' <= count'
        BY <1>1, <2>1, Zenon DEF PeerSent
    <2> QED
        BY <2>2, <2>3, <2>4, Zenon DEF LossInv
<1>3. CASE Read \/ Decode
    <2>1. PeerStays /\ count' = count
        BY <1>3, Zenon DEF Read, Decode, WaitForHeader, Resync, NoMagic, VersionMismatch, Heartbeat,
           WaitForPayload, handleSingleFrame, PeerStays, peerVars
    <2>2. Lost' \/ Found'
        <3>1. CASE Found
            BY <1>3, <3>1, FoundStays
        <3>2. CASE Lost /\ Decode
            BY <3>2, LostDecode
        <3>3. CASE Lost /\ Read
            <4>1. buffer_' \o wire' = buffer_ \o wire
                BY <3>3, ReadIs
            <4>2. Then = Now
                BY <3>3, Zenon DEF Read, Then, Now
            <4> QED
                BY <2>1, <3>3, <4>1, <4>2, LostStays
        <3> QED
            BY <1>1, <1>3, <3>1, <3>2, <3>3
    <2>3. UsedUp' /\ sentMsgUid_' <= count'
        BY <1>1, <2>1, Zenon DEF UsedUp, PeerStays
    <2> QED
        BY <2>2, <2>3, Zenon DEF LossInv
<1>4. CASE UNCHANGED vars
    <2>1. buffer_' \o wire' = buffer_ \o wire /\ Then = Now /\ PeerStays
        BY <1>4, Zenon DEF vars, peerVars, Then, Now, PeerStays
    <2>2. Lost => Lost'
        BY <2>1, LostStays
    <2>3. Found => Found'
        BY <1>4, Zenon DEF vars, peerVars, Found, SentFrom, StreamFor, Pending, Waits, Now
    <2>4. UsedUp' /\ sentMsgUid_' <= count'
        BY <1>1, <1>4, Zenon DEF vars, peerVars, UsedUp
    <2> QED
        BY <1>1, <2>2, <2>3, <2>4, Zenon DEF LossInv
<1> QED
    BY <1>2, <1>3, <1>4, Zenon DEF Next

\* At first decode is in step, or what is on its way is dirt.
LEMMA LossInit ==
    ASSUME Init
    PROVE  LossInv
<1>1. /\ wire \in Dirt /\ buffer_ = <<>> /\ Now = Nothing /\ sentMsgUid_ = 0 /\ sent = <<>>
      /\ count = 0
    BY Zenon DEF Init, Now, Nothing
<1>2. Len(<<>>) = 0 /\ <<>> \in Seq(DecodedPacket) /\ <<>> \in Seq(PeerFrames) /\ 0 \in 0..0
    OBVIOUS
<1>3. PacketsFrom(0, <<>>) = <<>>
    BY <1>2, PacketsFromType
<1>4. CASE wire = <<>>
    <2>1. StreamFor(sent)
        BY <1>4, FirstState, Zenon DEF StreamInv
    <2>2. SentFrom(0) = sent
        BY <1>1, <1>3, Zenon DEF SentFrom
    <2>3. 0 \in 0..sentMsgUid_
        BY <1>1
    <2>4. Found
        BY <2>1, <2>2, <2>3, Zenon DEF Found
    <2> QED
        BY <1>1, <1>2, <2>4 DEF LossInv, UsedUp
<1>5. CASE wire # <<>>
    <2>1. PICK dirt \in Seq(Nat) : dirt = wire /\ dirt \in Dirt
        BY <1>1, CodecAssumption
    <2>2. PICK n \in Nat : n = Len(dirt) /\ 1 \in 1..n
        <3>1. Len(dirt) \in Nat /\ 1 \in 1..Len(dirt)
            BY <1>5, <2>1, EmptySeq
        <3> QED
            BY <3>1, Zenon
    <2>3. IsScrap(dirt)
        <3>1. IsScrap(SubSeq(dirt, 1, n))
            BY <2>1, <2>2, ScrapOf
        <3>2. SubSeq(dirt, 1, n) = dirt
            BY <2>2, SubSeqFull
        <3> QED
            BY <3>1, <3>2, Zenon
    <2>4. buffer_ \o wire = dirt \o FlattenSeq(<<>>)
        <3>1. <<>> \o dirt = dirt /\ dirt \o <<>> = dirt
            BY ConcatEmptySeq
        <3> QED
            BY <1>1, <2>1, <3>1, FlattenNothing, Zenon
    <2>5. Frames(<<>>)
        BY DEF Frames
    <2>6. Hopeful(<<>>, <<>>, 0)
        <3>1. PICK none \in Seq(Seq(Nat)) : none = <<>> /\ Len(none) = 0
            <4>1. <<>> \in Seq(Seq(Nat)) /\ Len(<<>>) = 0
                OBVIOUS
            <4> QED
                BY <4>1, Zenon
        <3>2. 0 \in Nat /\ \A k \in 0..0 : k = 0
            OBVIOUS
        <3>3. Behind(none, 0) = none
            BY <3>1, <3>2, BehindEnds
        <3>4. Ends(Nothing, <<>>, <<>>, 0)
            BY <3>2, NothingEnds
        <3> QED
            BY <1>2, <1>3, <3>1, <3>2, <3>3, <3>4, Zenon DEF Hopeful
    <2>7. Scrappy(buffer_ \o wire, dirt, <<>>)
        BY <1>2, <2>3, <2>4, <2>5, Zenon DEF Scrappy
    <2>8. Lost
        BY <1>1, <2>6, <2>7, Zenon DEF Lost, LostIn
    <2> QED
        BY <1>1, <1>2, <2>8 DEF LossInv, UsedUp
<1> QED
    BY <1>4, <1>5

\* Lost, decode has given nothing; in step, the packets from some id on.
LEMMA LossGives ==
    ASSUME TypeOK, LossInv
    PROVE  LosesOnlyAtStart
<1>1. PICK uid \in Nat : uid = sentMsgUid_ /\ uid \in 0..uid
    <2>1. sentMsgUid_ \in Nat /\ sentMsgUid_ \in 0..sentMsgUid_
        BY DEF TypeOK
    <2> QED
        BY <2>1, Zenon
<1>2. CASE Lost
    <2>1. SentFrom(uid) = <<>>
        <3>1. sent \in Seq(DecodedPacket)
            BY DEF TypeOK
        <3>2. \A k \in 1..Len(sent) : sent[k].msgId \in 0..(uid - 1)
            BY <1>1, Zenon DEF LossInv, UsedUp
        <3>3. PacketsFrom(uid, sent) = <<>>
            BY <3>1, <3>2, PacketsFromEarlier
        <3> QED
            BY <3>3, Zenon DEF SentFrom
    <2>2. out = <<>>
        <3>1. Now = Nothing
            BY <1>2, Zenon DEF Lost, LostIn
        <3>2. Nothing.out = <<>>
            BY DEF Nothing
        <3> QED
            BY <3>1, <3>2, NowIs
    <2>3. IsPrefix(<<>>, <<>>)
        <3>1. <<>> \in Seq(DecodedPacket)
            OBVIOUS
        <3> QED
            BY <3>1, PrefixOfItself
    <2> QED
        BY <1>1, <2>1, <2>2, <2>3, Zenon DEF LosesOnlyAtStart
<1>3. CASE Found
    <2>1. PICK id \in 0..sentMsgUid_ : StreamFor(SentFrom(id))
        BY <1>3, Zenon DEF Found
    <2>2. PICK packets : packets = SentFrom(id)
        OBVIOUS
    <2>3. StreamFor(packets)
        BY <2>1, <2>2, Zenon
    <2>4. IsPrefix(out, packets) /\ (AllRead => out = packets)
        BY <2>3, StreamGives
    <2> QED
        BY <2>1, <2>2, <2>4, Zenon DEF LosesOnlyAtStart
<1> QED
    BY <1>2, <1>3 DEF LossInv

\* Behind dirt, wherever reads cut it, decode loses the messages that begin first and
\* no other: once it has found a frame it gives every whole message, in order.
THEOREM LossOnlyAtStart ==
    ASSUME NoFalseFrame
    PROVE  Spec => []LosesOnlyAtStart
<1>1. Init => LossInv
    BY LossInit
<1>2. TypeOK /\ LossInv /\ [Next]_vars => LossInv'
    BY LossStep
<1>3. TypeOK /\ LossInv => LosesOnlyAtStart
    BY LossGives
<1> QED
    BY <1>1, <1>2, <1>3, CodecTypeCorrect, PTL DEF Spec

=============================================================================
