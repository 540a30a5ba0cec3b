----------------------------- MODULE FrameStream -----------------------------
(***************************************************************************)
(* What a connection promises to those who send on it: the peer receives   *)
(* the frames in the order in which they were handed over, each of them    *)
(* once, whole and in one piece; if the connection fails it receives a     *)
(* prefix of that, and nothing more.                                       *)
(***************************************************************************)
EXTENDS Integers, SequencesExt

CONSTANTS Frame,      \* what may be handed over
          Pieces      \* in how many pieces a frame may travel

VARIABLES
    posted,     \* the frames handed over so far
    wire,       \* the pieces the peer has received so far
    up          \* whether the connection works

vars == <<posted, wire, up>>

\* The frames one after the other, in pieces.
Stream(frames) ==
    [i \in 1..(Pieces * Len(frames)) |->
        [frame |-> frames[((i - 1) \div Pieces) + 1], piece |-> ((i - 1) % Pieces) + 1]]

Init == posted = <<>> /\ wire = <<>> /\ up = TRUE

\* The frames of one message are handed over in one go.
Post ==
    /\ posted' \in Seq(Frame)
    /\ IsPrefix(posted, posted')
    /\ UNCHANGED <<wire, up>>

Deliver ==
    /\ up
    /\ Len(wire') > Len(wire)
    /\ IsPrefix(wire, wire') /\ IsPrefix(wire', Stream(posted))
    /\ UNCHANGED <<posted, up>>

\* A connection that is down stays down, and its peer hears nothing more.
Fail ==
    /\ up' = FALSE
    /\ UNCHANGED <<posted, wire>>

Next == Post \/ Deliver \/ Fail

Spec == Init /\ [][Next]_vars

=============================================================================
