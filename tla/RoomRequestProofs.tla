-------------------------- MODULE RoomRequestProofs --------------------------
(***************************************************************************)
(* Theorems about RoomRequest, for chars and codes of any size, any codes  *)
(* that are taken, any number of draws and requests of any length.         *)
(*                                                                         *)
(* The properties speak of how a request ends.  The invariant says what    *)
(* was taken, and from where, at each step before that: the offset behind  *)
(* the name depends on the second byte alone, and so does whether the      *)
(* length of the password is read inside the string.                       *)
(***************************************************************************)
EXTENDS RoomRequest, SequenceTheorems, TLAPS

Creates == req # <<>> /\ req[1] = CREATEROOM

NameTaken == Len(req) >= 2 /\ field["name"] = substr(2, Signed(req[2]))

PasswdTaken ==
    LET n == Signed(req[2])
    IN /\ Valid(n + 3)
       /\ n + 2 \in 0..(Len(req) - 1) =>
              field["passwd"] = substr(n + 3, Signed(req[n + 3]))

\* substr threw, or the subscript before it lay outside.
RunsOut == Len(req) = 1 \/ Signed(req[2]) + 3 \notin 1..Len(req)

TakenSoFar ==
    /\ pc = "type" => offset = 0
    /\ pc = "name" => Creates /\ offset = 1
    /\ pc = "passwd" => Creates /\ NameTaken /\ offset = Signed(req[2]) + 2
    /\ pc = "code" => req # <<>> /\ ~Creates /\ offset = 1
    /\ pc \in {"draw", "GEN_ROOMCODE_FAILED"} => Creates
    /\ pc \in {"draw", "called", "GEN_ROOMCODE_FAILED"} /\ Creates =>
           NameTaken /\ PasswdTaken
    /\ pc = "called" /\ ~Creates => req # <<>> /\ field["room_code"] = substr(1, CodeLen)
    /\ pc \in {"thrown", "aborted"} => Creates /\ RunsOut
    /\ pc = "ignored" => req = <<>>

DrawnSoFar ==
    /\ pc \notin {"draw", "called", "GEN_ROOMCODE_FAILED"} => draws = 0
    /\ pc = "draw" => draws < Attempts

IInv ==
    /\ TypeOK
    /\ Len(req) <= MaxLen
    /\ TakenSoFar
    /\ DrawnSoFar

-----------------------------------------------------------------------------
(* The string.                                                             *)

LEMMA Chars ==
    ASSUME NEW b \in Byte
    PROVE  Signed(b) \in -Half..(Half - 1)
BY RoomRequestAssumption DEF Byte, Signed

LEMMA ReadInside ==
    ASSUME TypeOK, NEW i \in 0..(Len(req) - 1)
    PROVE  At(i) = {req[i + 1]} /\ req[i + 1] \in Byte
BY LenProperties, ElementOfSeq DEF At, TypeOK

LEMMA ReadAnywhere ==
    ASSUME TypeOK, NEW i \in Int
    PROVE  At(i) \subseteq Byte
<1>1. 0 \in Byte
    BY RoomRequestAssumption DEF Byte
<1>2. CASE i \in 0..(Len(req) - 1)
    BY <1>2, ReadInside
<1>3. CASE i \notin 0..(Len(req) - 1)
    BY <1>1, <1>3 DEF At
<1> QED
    BY <1>2, <1>3

LEMMA SubstrType ==
    ASSUME TypeOK, NEW pos \in Int, NEW n \in Int, Valid(pos)
    PROVE  substr(pos, n) \in Seq(Byte)
<1> DEFINE end == IF n < 0 \/ pos + n > Len(req) THEN Len(req) ELSE pos + n
<1>1. req \in Seq(Byte) /\ Len(req) \in Nat
    BY LenProperties DEF TypeOK
<1>2. end \in Int /\ end <= Len(req) /\ pos + 1 >= 1
    BY <1>1 DEF Valid
<1>3. \A i \in (pos + 1)..end : req[i] \in Byte
    BY <1>1, <1>2, ElementOfSeq
<1>4. SubSeq(req, pos + 1, end) \in Seq(Byte)
    BY <1>2, <1>3, SubSeqProperties
<1> QED
    BY <1>4 DEF substr

LEMMA InitIInv == Init => IInv
<1> SUFFICES ASSUME Init
             PROVE  IInv
    OBVIOUS
<1>1. req \in Seq(Byte) /\ Len(req) <= MaxLen
    <2>1. CASE req = <<>>
        BY <2>1, RoomRequestAssumption
    <2>2. CASE req # <<>>
        <3>1. PICK n \in 1..MaxLen :
                   \E type \in {CREATEROOM, JOINROOM, LEAVEROOM}, body \in [1..(n - 1) -> Byte] :
                       req = <<type>> \o body
            BY <2>2 DEF Init
        <3> PICK type \in {CREATEROOM, JOINROOM, LEAVEROOM}, body \in [1..(n - 1) -> Byte] :
                     req = <<type>> \o body
            BY <3>1
        <3>2. <<type>> \in Seq(Byte) /\ Len(<<type>>) = 1
            BY RoomRequestAssumption DEF CREATEROOM, JOINROOM, LEAVEROOM, Byte
        <3>3. body \in Seq(Byte) /\ Len(body) = n - 1
            BY <3>1, RoomRequestAssumption
        <3> QED
            BY <3>1, <3>2, <3>3, ConcatProperties
    <2> QED
        BY <2>1, <2>2
<1>2. TypeOK
    BY <1>1, RoomRequestAssumption DEF Init, TypeOK
<1> QED
    BY <1>1, <1>2, RoomRequestAssumption
    DEF Init, IInv, TakenSoFar, DrawnSoFar

-----------------------------------------------------------------------------
(* The steps.                                                              *)

LEMMA TypeStep ==
    ASSUME IInv, ReadType
    PROVE  IInv'
<1>1. TypeOK'
    BY RoomRequestAssumption, LenProperties DEF IInv, TypeOK, ReadType, Ends
<1>2. Len(req)' <= MaxLen
    BY DEF IInv, ReadType
<1>3. TakenSoFar'
    BY DEF IInv, TakenSoFar, ReadType, Creates
<1>4. DrawnSoFar'
    BY DEF IInv, DrawnSoFar, ReadType
<1> QED
    BY <1>1, <1>2, <1>3, <1>4 DEF IInv

LEMMA Lengths ==
    ASSUME IInv, req # <<>>
    PROVE  Len(req) \in 1..MaxLen /\ MaxLen \in Nat
BY EmptySeq, RoomRequestAssumption DEF IInv, TypeOK

\* What a substr does to types.
LEMMA TakeTypes ==
    ASSUME IInv, NEW f \in {"name", "passwd", "room_code"}, NEW pos \in Int, NEW n \in Int,
           NEW next \in {"passwd", "draw", "called"}, Take(f, pos, n, next),
           pos \in -Half..(MaxLen + Half),
           Valid(pos) => pos + n \in -Half..(MaxLen + CodeLen + Half)
    PROVE  TypeOK' /\ Len(req)' <= MaxLen
<1>1. /\ Half \in Nat /\ MaxLen \in Nat /\ CodeLen \in Nat
    BY RoomRequestAssumption
<1>2. req' \in Seq(Byte) /\ draws' \in 0..Attempts /\ code' \in Code \cup {<<>>}
    BY DEF IInv, TypeOK, Take
<1>3. pc' \in {"type", "name", "passwd", "code", "draw"} \cup Ends
    BY DEF Take, Ends
<1>4. offset' \in -Half..(MaxLen + CodeLen + Half)
    BY <1>1 DEF Take
<1>5. field' \in [{"name", "passwd", "room_code"} -> Seq(Byte)]
    <2>1. CASE Valid(pos)
        <3>1. substr(pos, n) \in Seq(Byte)
            BY <2>1, SubstrType DEF IInv
        <3>2. field' = [field EXCEPT ![f] = substr(pos, n)]
            BY <2>1 DEF Take
        <3> QED
            BY <3>1, <3>2 DEF IInv, TypeOK
    <2>2. CASE ~Valid(pos)
        BY <2>2 DEF Take, IInv, TypeOK
    <2> QED
        BY <2>1, <2>2
<1>6. Len(req)' <= MaxLen
    BY DEF IInv, Take
<1> QED
    BY <1>2, <1>3, <1>4, <1>5, <1>6 DEF TypeOK

LEMMA NameStep ==
    ASSUME IInv, TakeName
    PROVE  IInv'
<1>1. /\ req # <<>> /\ req[1] = CREATEROOM /\ offset = 1 /\ draws = 0
      /\ Len(req) \in 1..MaxLen /\ MaxLen \in Nat /\ Half \in Nat /\ TypeOK
    BY Lengths, RoomRequestAssumption DEF IInv, TakenSoFar, DrawnSoFar, Creates, TakeName
<1>2. ~Abort
    BY <1>1 DEF Abort
<1>3. PICK b \in At(1) : Take("name", 2, Signed(b), "passwd")
    BY <1>1, <1>2 DEF TakeName, TakeLengthAnd
<1>4. b \in Byte
    BY <1>1, <1>3, ReadAnywhere
<1>5. Signed(b) \in -Half..(Half - 1)
    BY <1>4, Chars
<1>6. Valid(2) <=> Len(req) >= 2
    BY <1>1 DEF Valid
<1>7. Len(req) >= 2 => b = req[2]
    BY <1>1, <1>3, ReadInside
<1>8. TypeOK' /\ Len(req)' <= MaxLen
    <2>1. 2 \in -Half..(MaxLen + Half)
        BY <1>1, RoomRequestAssumption
    <2>2. Valid(2) => 2 + Signed(b) \in -Half..(MaxLen + CodeLen + Half)
        BY <1>1, <1>5, <1>6, RoomRequestAssumption
    <2> QED
        BY <1>3, <1>5, <2>1, <2>2, TakeTypes
<1>9. CASE Len(req) >= 2
    <2>1. /\ pc' = "passwd" /\ offset' = Signed(req[2]) + 2
          /\ field' = [field EXCEPT !["name"] = substr(2, Signed(req[2]))]
          /\ UNCHANGED <<req, draws, code>>
        BY <1>3, <1>5, <1>6, <1>7, <1>9 DEF Take
    <2>2. field["name"]' = substr(2, Signed(req[2]))
        BY <1>1, <2>1 DEF TypeOK
    <2>3. NameTaken' /\ Creates'
        BY <1>1, <1>9, <2>1, <2>2 DEF NameTaken, Creates, substr
    <2>4. TakenSoFar'
        BY <2>1, <2>3 DEF TakenSoFar
    <2>5. DrawnSoFar'
        BY <1>1, <2>1 DEF DrawnSoFar
    <2> QED
        BY <1>8, <2>4, <2>5 DEF IInv
<1>10. CASE ~(Len(req) >= 2)
    <2>1. Len(req) = 1
        <3>1. PICK l \in Nat : l = Len(req) /\ l >= 1
            BY <1>1
        <3>2. l = 1
            BY <1>10, <3>1
        <3> QED
            BY <3>1, <3>2
    <2>2. pc' = "thrown" /\ UNCHANGED <<req, draws, code>>
        BY <1>3, <1>6, <1>10 DEF Take
    <2>3. TakenSoFar'
        BY <1>1, <2>1, <2>2 DEF TakenSoFar, Creates, RunsOut
    <2>4. DrawnSoFar'
        BY <1>1, <2>2 DEF DrawnSoFar
    <2> QED
        BY <1>8, <2>3, <2>4 DEF IInv
<1> QED
    BY <1>9, <1>10

LEMMA PasswdStep ==
    ASSUME IInv, TakePasswd
    PROVE  IInv'
<1> DEFINE n == Signed(req[2])
<1>1. /\ req # <<>> /\ req[1] = CREATEROOM /\ NameTaken /\ offset = n + 2 /\ draws = 0
      /\ Len(req) \in 2..MaxLen /\ MaxLen \in Nat /\ Half \in Nat /\ TypeOK
    BY Lengths, RoomRequestAssumption
    DEF IInv, TakenSoFar, DrawnSoFar, Creates, TakePasswd, NameTaken
<1>2. n \in -Half..(Half - 1)
    BY <1>1, Chars, ReadInside
<1> HIDE DEF n
<1>3. CASE Abort
    <2>1. n + 3 \notin 1..Len(req)
        BY <1>1, <1>2, <1>3 DEF Abort
    <2>2. pc' = "aborted" /\ UNCHANGED <<req, offset, field, draws, code>>
        BY <1>3 DEF Abort
    <2>3. TypeOK' /\ Len(req)' <= MaxLen
        BY <2>2 DEF IInv, TypeOK, Ends
    <2>4. TakenSoFar'
        BY <1>1, <2>1, <2>2 DEF TakenSoFar, Creates, RunsOut, n
    <2>5. DrawnSoFar'
        BY <1>1, <2>2 DEF DrawnSoFar
    <2> QED
        BY <2>3, <2>4, <2>5 DEF IInv
<1>4. CASE ~Abort
    <2>1. PICK b \in At(n + 2) : Take("passwd", n + 3, Signed(b), "draw")
        <3>1. PICK b \in At(offset) : Take("passwd", offset + 1, Signed(b), "draw")
            BY <1>4 DEF TakePasswd, TakeLengthAnd
        <3>2. offset + 1 = n + 3
            BY <1>1, <1>2
        <3> QED
            BY <1>1, <3>1, <3>2
    <2>2. b \in Byte
        BY <1>1, <1>2, <2>1, ReadAnywhere
    <2>3. Signed(b) \in -Half..(Half - 1)
        BY <2>2, Chars
    <2>4. TypeOK' /\ Len(req)' <= MaxLen
        <3>1. n + 3 \in -Half..(MaxLen + Half)
            BY <1>1, <1>2
        <3>2. Valid(n + 3) => n + 3 + Signed(b) \in -Half..(MaxLen + CodeLen + Half)
            BY <1>1, <1>2, <2>3, RoomRequestAssumption DEF Valid
        <3>3. n + 3 \in Int
            BY <1>2
        <3> QED
            BY <2>1, <2>3, <3>1, <3>2, <3>3, TakeTypes
    <2>5. CASE Valid(n + 3)
        <3>1. /\ pc' = "draw" /\ UNCHANGED <<req, draws, code>>
              /\ field' = [field EXCEPT !["passwd"] = substr(n + 3, Signed(b))]
            BY <2>1, <2>5 DEF Take
        <3>2. field["name"]' = field["name"] /\ field["passwd"]' = substr(n + 3, Signed(b))
            BY <1>1, <3>1 DEF TypeOK
        <3>3. NameTaken' /\ Creates'
            BY <1>1, <3>1, <3>2 DEF NameTaken, Creates, substr
        <3>4. PasswdTaken'
            <4>1. Valid(n + 3)
                BY <2>5
            <4>2. ASSUME n + 2 \in 0..(Len(req) - 1)
                  PROVE  field["passwd"]' = substr(n + 3, Signed(req[n + 3]))
                <5>1. b = req[n + 3]
                    BY <1>1, <1>2, <2>1, <4>2, ReadInside
                <5> QED
                    BY <3>2, <5>1
            <4> QED
                BY <3>1, <4>1, <4>2 DEF PasswdTaken, Valid, substr, n
        <3>5. TakenSoFar'
            BY <3>1, <3>3, <3>4 DEF TakenSoFar
        <3>6. DrawnSoFar'
            BY <1>1, <3>1, RoomRequestAssumption DEF DrawnSoFar
        <3> QED
            BY <2>4, <3>5, <3>6 DEF IInv
    <2>6. CASE ~Valid(n + 3)
        <3>1. pc' = "thrown" /\ UNCHANGED <<req, draws, code>>
            BY <2>1, <2>6 DEF Take
        <3>2. n + 3 \notin 1..Len(req)
            BY <1>1, <2>6 DEF Valid
        <3>3. TakenSoFar'
            BY <1>1, <3>1, <3>2 DEF TakenSoFar, Creates, RunsOut, n
        <3>4. DrawnSoFar'
            BY <1>1, <3>1 DEF DrawnSoFar
        <3> QED
            BY <2>4, <3>3, <3>4 DEF IInv
    <2> QED
        BY <2>5, <2>6
<1> QED
    BY <1>3, <1>4

LEMMA CodeStep ==
    ASSUME IInv, TakeCode
    PROVE  IInv'
<1>1. /\ req # <<>> /\ ~Creates /\ offset = 1 /\ draws = 0
      /\ Len(req) \in 1..MaxLen /\ MaxLen \in Nat /\ Half \in Nat /\ CodeLen \in Nat /\ TypeOK
    BY Lengths, RoomRequestAssumption DEF IInv, TakenSoFar, DrawnSoFar, TakeCode
<1>2. Take("room_code", 1, CodeLen, "called") /\ Valid(1)
    BY <1>1 DEF TakeCode, Valid
<1>3. TypeOK' /\ Len(req)' <= MaxLen
    <2>1. 1 \in -Half..(MaxLen + Half) /\ 1 + CodeLen \in -Half..(MaxLen + CodeLen + Half)
        BY <1>1
    <2> QED
        BY <1>1, <1>2, <2>1, TakeTypes
<1>4. /\ pc' = "called" /\ UNCHANGED <<req, draws, code>>
      /\ field' = [field EXCEPT !["room_code"] = substr(1, CodeLen)]
    BY <1>2 DEF Take
<1>5. field["room_code"]' = substr(1, CodeLen)'
    BY <1>1, <1>4 DEF TypeOK, substr
<1>6. TakenSoFar'
    BY <1>1, <1>4, <1>5 DEF TakenSoFar, Creates
<1>7. DrawnSoFar'
    BY <1>1, <1>4 DEF DrawnSoFar
<1> QED
    BY <1>3, <1>6, <1>7 DEF IInv

LEMMA DrawStep ==
    ASSUME IInv, DrawCode
    PROVE  IInv'
<1>1. /\ pc = "draw" /\ draws \in Nat /\ draws < Attempts /\ Attempts \in Nat /\ TypeOK
      /\ Creates /\ NameTaken /\ PasswdTaken /\ Len(req) <= MaxLen
    BY RoomRequestAssumption DEF IInv, TypeOK, TakenSoFar, DrawnSoFar, DrawCode
<1>2. /\ draws' = draws + 1 /\ code' \in Code
      /\ UNCHANGED <<req, offset, field>>
    BY DEF DrawCode, genRoomCode
<1>3. /\ code' \notin Taken => pc' = "called"
      /\ code' \in Taken /\ draws' < Attempts => pc' = "draw"
      /\ code' \in Taken /\ ~(draws' < Attempts) => pc' = "GEN_ROOMCODE_FAILED"
    BY Zenon DEF DrawCode
<1>4. TypeOK' /\ Len(req)' <= MaxLen
    BY <1>1, <1>2, <1>3 DEF TypeOK, Ends
<1>5. Creates' /\ NameTaken' /\ PasswdTaken'
    BY <1>1, <1>2 DEF Creates, NameTaken, PasswdTaken, Valid, substr
<1>6. TakenSoFar'
    BY <1>3, <1>5 DEF TakenSoFar
<1>7. DrawnSoFar'
    BY <1>3 DEF DrawnSoFar
<1> QED
    BY <1>4, <1>6, <1>7 DEF IInv

LEMMA NextIInv == IInv /\ [Next]_vars => IInv'
<1> SUFFICES ASSUME IInv, [Next]_vars
             PROVE  IInv'
    OBVIOUS
<1>1. CASE UNCHANGED vars
    BY <1>1 DEF vars, IInv, TypeOK, TakenSoFar, DrawnSoFar, Creates,
                NameTaken, PasswdTaken, RunsOut, Valid, substr
<1>2. CASE Next
    BY <1>2, TypeStep, NameStep, PasswdStep, CodeStep, DrawStep DEF Next
<1> QED
    BY <1>1, <1>2

LEMMA OutcomeFollows == IInv => OutcomeInBytes
<1> SUFFICES ASSUME IInv, req # <<>>, req[1] = CREATEROOM
             PROVE  OutcomeInBytes
    BY DEF OutcomeInBytes
<1> DEFINE n == IF Len(req) = 1 THEN 0 ELSE Signed(req[2])
<1>1. Creates /\ TypeOK /\ TakenSoFar
    BY DEF Creates, IInv
<1>2. PICK l \in Nat : l = Len(req) /\ l >= 1
    BY Lengths
<1>3. n \in Int
    <2>1. CASE l = 1
        BY <1>2, <2>1
    <2>2. CASE l # 1
        <3>1. 1 \in 0..(Len(req) - 1)
            BY <1>2, <2>2
        <3>2. Signed(req[2]) \in -Half..(Half - 1)
            BY <1>1, <3>1, ReadInside, Chars
        <3> QED
            BY <1>2, <2>2, <3>2, RoomRequestAssumption
    <2> QED
        BY <2>1, <2>2
<1>4. RunsOut => n + 3 \notin 1..Len(req)
    BY <1>2, <1>3 DEF RunsOut
<1>5. ASSUME NameTaken, PasswdTaken
      PROVE  /\ n + 3 \in 0..Len(req)
             /\ field["name"] = SubSeq(req, 3, IF n < 0 THEN Len(req) ELSE n + 2)
    <2>1. n = Signed(req[2])
        BY <1>2, <1>5 DEF NameTaken
    <2>2. n + 3 \in 0..Len(req)
        BY <1>5, <2>1 DEF PasswdTaken, Valid
    <2>3. field["name"] = substr(2, n)
        BY <1>5, <2>1 DEF NameTaken
    <2> HIDE DEF n
    <2>4. substr(2, n) = SubSeq(req, 3, IF n < 0 THEN Len(req) ELSE n + 2)
        <3>1. CASE n < 0
            BY <3>1 DEF substr
        <3>2. CASE ~(n < 0)
            <4>1. ~(2 + n > Len(req)) /\ 2 + n = n + 2 /\ 2 + 1 = 3
                BY <1>2, <1>3, <2>2
            <4>2. substr(2, n) = SubSeq(req, 3, n + 2)
                BY <3>2, <4>1, Zenon DEF substr
            <4> QED
                BY <3>2, <4>2, Zenon
        <3> QED
            BY <3>1, <3>2
    <2> QED
        BY <2>2, <2>3, <2>4
<1> HIDE DEF n
<1>6. pc \in {"thrown", "aborted"} => n + 3 \notin 1..Len(req)
    BY <1>1, <1>4 DEF TakenSoFar
<1>7. pc \in {"draw", "called", "GEN_ROOMCODE_FAILED"} =>
          /\ n + 3 \in 0..Len(req)
          /\ field["name"] = SubSeq(req, 3, IF n < 0 THEN Len(req) ELSE n + 2)
    BY <1>1, <1>5 DEF TakenSoFar
<1> QED
    BY <1>6, <1>7 DEF OutcomeInBytes, n

LEMMA Joined ==
    ASSUME NEW s \in Seq(Nat), NEW t \in Seq(Nat)
    PROVE  /\ s \o t \in Seq(Nat)
           /\ Len(s \o t) = Len(s) + Len(t)
           /\ \A k \in 1..Len(s) : (s \o t)[k] = s[k]
           /\ \A k \in 1..Len(t) : (s \o t)[Len(s) + k] = t[k]
BY ConcatProperties, LenProperties

Honest(name, passwd) == <<CREATEROOM>> \o Field(name) \o Field(passwd)

\* Where the lengths of an honest request stand.
LEMMA HonestRequest ==
    ASSUME NEW a \in Seq(Byte), NEW b \in Seq(Byte)
    PROVE  /\ Len(Honest(a, b)) = Len(a) + Len(b) + 3
           /\ Honest(a, b)[1] = CREATEROOM
           /\ Honest(a, b)[2] = Len(a)
           /\ Honest(a, b)[Len(a) + 3] = Len(b)
<1>1. a \in Seq(Nat) /\ b \in Seq(Nat) /\ Len(a) \in Nat /\ Len(b) \in Nat
    <2>1. Byte \subseteq Nat
        BY RoomRequestAssumption DEF Byte
    <2> QED
        BY <2>1, SeqMonotonic, LenProperties
<1>2. <<Len(a)>> \in Seq(Nat) /\ <<Len(b)>> \in Seq(Nat) /\ <<CREATEROOM>> \in Seq(Nat)
    BY <1>1 DEF CREATEROOM
<1>3. /\ Field(a) \in Seq(Nat) /\ Len(Field(a)) = Len(a) + 1 /\ Field(a)[1] = Len(a)
      /\ Field(b) \in Seq(Nat) /\ Len(Field(b)) = Len(b) + 1 /\ Field(b)[1] = Len(b)
    BY <1>1, <1>2, ConcatProperties DEF Field
<1> DEFINE front == <<CREATEROOM>> \o Field(a)
<1>4. /\ front \in Seq(Nat) /\ Len(front) = Len(a) + 2
      /\ front[1] = CREATEROOM /\ front[2] = Len(a)
    BY <1>1, <1>2, <1>3, ConcatProperties
<1> HIDE DEF front
<1>5. /\ Len(front \o Field(b)) = Len(front) + Len(Field(b))
      /\ (front \o Field(b))[1] = front[1]
      /\ (front \o Field(b))[2] = front[2]
      /\ (front \o Field(b))[Len(a) + 3] = Field(b)[1]
    <2>1. 1 \in 1..Len(front) /\ 2 \in 1..Len(front) /\ 1 \in 1..Len(Field(b))
        BY <1>1, <1>3, <1>4
    <2>2. /\ Len(front \o Field(b)) = Len(front) + Len(Field(b))
          /\ (front \o Field(b))[1] = front[1]
          /\ (front \o Field(b))[2] = front[2]
          /\ (front \o Field(b))[Len(front) + 1] = Field(b)[1]
        BY <1>3, <1>4, <2>1, Joined
    <2>3. Len(front) + 1 = Len(a) + 3
        BY <1>1, <1>4
    <2> QED
        BY <2>2, <2>3, Zenon
<1>6. Honest(a, b) = front \o Field(b)
    BY DEF front, Honest
<1>7. Len(front) + Len(Field(b)) = Len(a) + Len(b) + 3
    BY <1>1, <1>3, <1>4
<1> QED
    BY <1>3, <1>4, <1>5, <1>6, <1>7, Zenon

LEMMA CutOf ==
    ASSUME TypeOK, NEW i \in Nat, NEW j \in Nat, i >= 1, j <= Len(req)
    PROVE  /\ SubSeq(req, i, j) \in Seq(Byte)
           /\ Len(SubSeq(req, i, j)) = IF i <= j THEN j - i + 1 ELSE 0
<1>1. req \in Seq(Byte) /\ Len(req) \in Nat
    BY LenProperties DEF TypeOK
<1>2. \A k \in i..j : req[k] \in Byte
    BY <1>1, ElementOfSeq
<1> QED
    BY <1>2, SubSeqProperties

\* A request with the lengths where they belong is taken apart again.
LEMMA HonestUnderstood ==
    ASSUME IInv, NEW i \in 2..Len(req),
           req = <<CREATEROOM>> \o Field(SubSeq(req, 3, i))
                     \o Field(SubSeq(req, i + 2, Len(req))),
           Short(SubSeq(req, 3, i)), Short(SubSeq(req, i + 2, Len(req)))
    PROVE  /\ pc \notin {"thrown", "aborted"}
           /\ pc \in {"draw"} \cup Ends =>
                  /\ field["name"] = SubSeq(req, 3, i)
                  /\ field["passwd"] = SubSeq(req, i + 2, Len(req))
<1> DEFINE a == SubSeq(req, 3, i)
           b == SubSeq(req, i + 2, Len(req))
<1>1. TypeOK /\ TakenSoFar
    BY DEF IInv
<1>2. PICK l \in Nat : l = Len(req)
    BY <1>1, LenProperties DEF TypeOK
<1>3. i \in Nat /\ i >= 2 /\ i <= l
    BY <1>2
<1> HIDE DEF a, b
<1>4. a \in Seq(Byte) /\ Len(a) = i - 2
    <2>1. i <= Len(req)
        BY <1>2, <1>3
    <2>2. a \in Seq(Byte) /\ Len(a) = IF 3 <= i THEN i - 3 + 1 ELSE 0
        <3>1. 3 \in Nat /\ 3 >= 1
            OBVIOUS
        <3>2. /\ SubSeq(req, 3, i) \in Seq(Byte)
              /\ Len(SubSeq(req, 3, i)) = IF 3 <= i THEN i - 3 + 1 ELSE 0
            BY <1>1, <1>3, <2>1, <3>1, CutOf
        <3> QED
            BY <3>2 DEF a
    <2> QED
        BY <1>3, <2>2
<1>5. b \in Seq(Byte) /\ Len(b) = IF i + 2 <= l THEN l - (i + 2) + 1 ELSE 0
    <2>1. i + 2 \in Nat /\ i + 2 >= 1 /\ l <= Len(req)
        BY <1>2, <1>3
    <2> QED
        BY <1>1, <1>2, <2>1, CutOf DEF b
<1>6. /\ l = Len(a) + Len(b) + 3
      /\ req[1] = CREATEROOM /\ req[2] = Len(a)
      /\ req[Len(a) + 3] = Len(b)
    <2>1. req = Honest(a, b)
        BY DEF a, b, Honest
    <2>2. /\ Len(Honest(a, b)) = Len(a) + Len(b) + 3
          /\ Honest(a, b)[1] = CREATEROOM /\ Honest(a, b)[2] = Len(a)
          /\ Honest(a, b)[Len(a) + 3] = Len(b)
        BY <1>4, <1>5, HonestRequest
    <2> QED
        BY <1>2, <2>1, <2>2, Zenon
<1>7. i + 1 <= l /\ Len(b) = l - i - 1 /\ Len(a) + 3 = i + 1
    BY <1>3, <1>4, <1>5, <1>6
<1>8. Signed(req[2]) = i - 2 /\ Signed(req[i + 1]) = l - i - 1
    BY <1>4, <1>6, <1>7 DEF Signed, Short, a, b
<1>9. Creates /\ ~RunsOut
    <2>1. req # <<>> /\ Len(req) # 1
        BY <1>2, <1>3, <1>7
    <2>2. Signed(req[2]) + 3 \in 1..Len(req)
        BY <1>2, <1>3, <1>7, <1>8
    <2> QED
        BY <1>6, <2>1, <2>2 DEF Creates, RunsOut
<1>10. pc \notin {"thrown", "aborted", "ignored"}
    BY <1>1, <1>9 DEF TakenSoFar, Creates
<1>11. ASSUME NameTaken, PasswdTaken
       PROVE  field["name"] = a /\ field["passwd"] = b
    <2>1. field["name"] = substr(2, i - 2)
        BY <1>8, <1>11 DEF NameTaken
    <2>2. substr(2, i - 2) = a
        BY <1>2, <1>3 DEF substr, a
    <2>3. Signed(req[2]) + 3 = i + 1 /\ Signed(req[2]) + 2 = i
        BY <1>3, <1>8
    <2>4. i \in 0..(Len(req) - 1)
        BY <1>2, <1>3, <1>7
    <2>5. field["passwd"] = substr(i + 1, l - i - 1)
        BY <1>8, <1>11, <2>3, <2>4 DEF PasswdTaken
    <2>6. substr(i + 1, l - i - 1) = b
        BY <1>2, <1>3, <1>7 DEF substr, b
    <2> QED
        BY <2>1, <2>2, <2>5, <2>6
<1> QED
    BY <1>1, <1>9, <1>10, <1>11 DEF TakenSoFar, Ends, a, b

LEMMA HonestFollows == IInv => HonestServed
<1> SUFFICES ASSUME IInv
             PROVE  HonestServed
    OBVIOUS
<1>1. ASSUME pc \in Ends, Len(req) > CodeLen, req[1] # CREATEROOM
      PROVE  field["room_code"] = SubSeq(req, 2, CodeLen + 1)
    <2>1. PICK l \in Nat : l = Len(req) /\ l > CodeLen
        BY <1>1, LenProperties DEF IInv, TypeOK
    <2>2. CodeLen \in Nat /\ req # <<>>
        BY <2>1, RoomRequestAssumption
    <2>3. pc = "called" /\ field["room_code"] = substr(1, CodeLen)
        BY <1>1, <2>2 DEF IInv, TakenSoFar, Creates, Ends
    <2>4. substr(1, CodeLen) = SubSeq(req, 2, CodeLen + 1)
        BY <2>1, <2>2 DEF substr
    <2> QED
        BY <2>3, <2>4
<1> QED
    BY <1>1, HonestUnderstood DEF HonestServed

-----------------------------------------------------------------------------

\* The invariant holds of every behaviour of the parser and the draw.
THEOREM RequestInvariance == Spec => []IInv
BY InitIInv, NextIInv, PTL DEF Spec

\* The locals of ParseRoomReq and createRoom keep their types; offset stays
\* within half a char of the request.
THEOREM RequestTypeCorrect == Spec => []TypeOK
<1>1. IInv => TypeOK
    BY DEF IInv
<1> QED
    BY <1>1, RequestInvariance, PTL

\* ParseRoomReq gives back the name, the password and the code of every request
\* that was put together as a client should.
THEOREM HonestAlwaysServed == Spec => []HonestServed
BY HonestFollows, RequestInvariance, PTL

\* Which room requests ParseRoomReq carries out, and the name of the room, never
\* depend on memory beside the string (with one length excepted).
THEOREM OutcomeAlwaysInBytes == Spec => []OutcomeInBytes
BY OutcomeFollows, RequestInvariance, PTL

=============================================================================
