----------------------------- MODULE RoomRequest -----------------------------
(***************************************************************************)
(* The bytes of a room request: how ParseRoomReq (MessageDispatcher.cpp)   *)
(* takes the fields of CREATEROOM, JOINROOM and LEAVEROOM out of them, and *)
(* how createRoom draws the code of the new room (RoomUtils.hpp).  Lobby   *)
(* starts where this ends: with the fields, or with the exception.         *)
(*                                                                         *)
(* Lengths travel as one char, which is signed, and are compared with      *)
(* nothing.  A subscript outside the string is undefined: the read yields  *)
(* any byte.                                                               *)
(***************************************************************************)
EXTENDS Integers, SequencesExt

CONSTANTS
    Half,       \* half the values of a char, 128: those from 0 up if it is signed
    CodeLen,    \* characters of a room code
    Attempts,   \* how many codes createRoom draws at most
    Digits,     \* the codes' characters that are digits,
    Letters,    \* and those that are letters
    Taken,      \* the codes in code_to_id_
    MaxLen      \* bound: bytes of a request

Byte == 0..(2 * Half - 1)
Code == [1..CodeLen -> Digits \cup Letters]

ASSUME RoomRequestAssumption ==
    /\ Half \in Nat \ {0, 1} /\ CodeLen \in Nat \ {0} /\ Attempts \in Nat \ {0}
    /\ Digits \subseteq Byte /\ Letters \subseteq Byte
    /\ Taken \subseteq Code
    /\ MaxLen \in Nat \ {0}

CREATEROOM == 1
JOINROOM == 2
LEAVEROOM == 3

VARIABLES
    req,        \* the body of the packet
    pc,         \* what is taken next, or how it ended
    offset,
    field,      \* name, passwd, and room_code (of JOINROOM, LEAVEROOM)
    draws,      \* how many codes were drawn
    code        \* the code drawn last

vars == <<req, pc, offset, field, draws, code>>

Ends == {"ignored", "thrown", "aborted", "called",
         "GEN_ROOMCODE_FAILED"}

TypeOK ==
    /\ req \in Seq(Byte)
    /\ pc \in {"type", "name", "passwd", "code", "draw"} \cup Ends
    /\ offset \in -Half..(MaxLen + CodeLen + Half)
    /\ field \in [{"name", "passwd", "room_code"} -> Seq(Byte)]
    /\ draws \in 0..Attempts
    /\ code \in Code \cup {<<>>}

Init ==
    /\ req = <<>> \/ \E n \in 1..MaxLen :
           \E type \in {CREATEROOM, JOINROOM, LEAVEROOM}, body \in [1..(n - 1) -> Byte] :
               req = <<type>> \o body
    /\ pc = "type"
    /\ offset = 0
    /\ field = [f \in {"name", "passwd", "room_code"} |-> <<>>]
    /\ draws = 0
    /\ code = <<>>

-----------------------------------------------------------------------------
(* std::string.                                                            *)

SignedAsByte(b) == b

\* int n = req[i].
Signed(b) == IF b < Half THEN b ELSE b - 2 * Half

\* What req[i] may yield: a NUL follows the last byte, anything lies beyond.
At(i) ==
    CASE i \in 0..(Len(req) - 1) -> {req[i + 1]}
      [] i = Len(req) -> {0}
      [] OTHER -> Byte

ValidPastEnd(pos) == pos >= 0

\* substr throws when it would start outside; a negative pos is a large size_t.
Valid(pos) == pos \in 0..Len(req)

\* And it stops at the end; a negative n is a large size_t too.
substr(pos, n) ==
    SubSeq(req, pos + 1, IF n < 0 \/ pos + n > Len(req) THEN Len(req) ELSE pos + n)

-----------------------------------------------------------------------------

ReadType ==
    /\ pc = "type"
    /\ IF req = <<>>
       THEN pc' = "ignored" /\ UNCHANGED offset
       ELSE /\ pc' = IF req[1] = CREATEROOM THEN "name" ELSE "code"
            /\ offset' = 1
    /\ UNCHANGED <<req, field, draws, code>>

\* offset++; f = req.substr(offset, n); offset += n.  When substr throws, the
\* exception leaves the dispatcher.
Take(f, pos, n, next) ==
    /\ IF Valid(pos)
       THEN /\ field' = [field EXCEPT ![f] = substr(pos, n)]
            /\ offset' = pos + n
            /\ pc' = next
       ELSE /\ offset' = pos
            /\ pc' = "thrown"
            /\ UNCHANGED field
    /\ UNCHANGED <<req, draws, code>>

\* A standard library built with assertions aborts where it sees that a
\* subscript is outside.
Abort ==
    /\ offset \notin 0..Len(req)
    /\ pc' = "aborted"
    /\ UNCHANGED <<req, offset, field, draws, code>>

TakeWholeRest(f, next) ==
    \/ \E b \in At(offset) : Take(f, offset + 1, -1, next)
    \/ Abort

\* A length, and as many bytes behind it.
TakeLengthAnd(f, next) ==
    \/ \E b \in At(offset) : Take(f, offset + 1, Signed(b), next)
    \/ Abort

TakeName == pc = "name" /\ TakeLengthAnd("name", "passwd")

TakePasswd == pc = "passwd" /\ TakeLengthAnd("passwd", "draw")

\* JOINROOM and LEAVEROOM.
TakeCode ==
    /\ pc = "code"
    /\ Take("room_code", offset, CodeLen, "called")

genRoomCode == Code

\* One turn of the loop in createRoom.
DrawCode ==
    /\ pc = "draw"
    /\ draws' = draws + 1
    /\ code' \in genRoomCode
    /\ pc' = CASE code' \notin Taken -> "called"
               [] code' \in Taken /\ draws' < Attempts -> "draw"
               [] OTHER -> "GEN_ROOMCODE_FAILED"
    /\ UNCHANGED <<req, offset, field>>

Next == ReadType \/ TakeName \/ TakePasswd \/ TakeCode \/ DrawCode

Spec == Init /\ [][Next]_vars

-----------------------------------------------------------------------------
(* Properties.                                                             *)

Field(s) == <<Len(s)>> \o s

Short(s) == Len(s) < Half

\* A client that puts each length before its field is understood, as long as
\* the lengths fit in the positive half of a char: the name and the password
\* arrive as they were sent, and a code behind JOINROOM or LEAVEROOM too.
HonestServed ==
    LET cut(i, j) == SubSeq(req, i, j)
    IN /\ \A i \in 2..Len(req) :
              /\ req = <<CREATEROOM>> \o Field(cut(3, i)) \o Field(cut(i + 2, Len(req)))
              /\ Short(cut(3, i)) /\ Short(cut(i + 2, Len(req)))
              => /\ pc \notin {"thrown", "aborted"}
                 /\ pc \in {"draw"} \cup Ends =>
                        /\ field["name"] = cut(3, i)
                        /\ field["passwd"] = cut(i + 2, Len(req))
       /\ pc \in Ends /\ Len(req) > CodeLen /\ req[1] # CREATEROOM =>
              field["room_code"] = cut(2, CodeLen + 1)

\* What lies beside the string decides nothing that matters, however the
\* lengths lie.  Whether CREATEROOM is carried out follows from the length of the
\* name alone, but for the length -3, whose password length is read before the
\* string; and the name is made of bytes of the request only.  (The password may
\* not be; nothing in the server looks at it.)
OutcomeInBytes ==
    req # <<>> /\ req[1] = CREATEROOM =>
        LET n == IF Len(req) = 1 THEN 0 ELSE Signed(req[2])
        IN /\ pc \in {"thrown", "aborted"} => n + 3 \notin 1..Len(req)
           /\ pc \in {"draw", "called", "GEN_ROOMCODE_FAILED"} =>
                  /\ n + 3 \in 0..Len(req)
                  /\ field["name"] = SubSeq(req, 3, IF n < 0 THEN Len(req) ELSE n + 2)

=============================================================================
