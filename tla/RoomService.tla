----------------------------- MODULE RoomService -----------------------------
(***************************************************************************)
(* What the lobby promises to the players, without sessions, packets,      *)
(* codes, ids of rooms to come or current rooms: rooms that are opened     *)
(* once, entered, left and gone when empty; and who hears whom.  It makes  *)
(* no promise to stay up.                                                  *)
(***************************************************************************)
EXTENDS Integers, FiniteSets

CONSTANTS Players, Rooms, Seats

VARIABLES
    members,    \* who is in which room
    opened,     \* the rooms that were opened so far
    heard,      \* how often each player heard what was just said
    up

vars == <<members, opened, heard, up>>

Init ==
    /\ members = [r \in Rooms |-> {}]
    /\ opened = {}
    /\ heard = [p \in Players |-> 0]
    /\ up = TRUE

\* Everybody in the audience hears it, once.
Say(audience) == heard' = [p \in Players |-> IF p \in audience THEN 1 ELSE 0]

Silence == Say({})

Open(p, r) ==
    /\ r \notin opened
    /\ opened' = opened \cup {r}
    /\ members' = [members EXCEPT ![r] = {p}]
    /\ Silence

\* The room hears that somebody joined, who hears it too.
Enter(p, r) ==
    /\ members[r] # {} /\ p \notin members[r]
    /\ Cardinality(members[r]) < Seats
    /\ members' = [members EXCEPT ![r] = @ \cup {p}]
    /\ Say(members'[r])
    /\ UNCHANGED opened

Leave(p, r) ==
    /\ p \in members[r]
    /\ members' = [members EXCEPT ![r] = @ \ {p}]
    /\ Silence
    /\ UNCHANGED opened

Talk(p, r) ==
    /\ p \in members[r]
    /\ Say(members[r])
    /\ UNCHANGED <<members, opened>>

\* A request that is refused, talk in the lobby, a room given up before it opened.
Nothing ==
    /\ Silence
    /\ opened \subseteq opened' /\ opened' \subseteq Rooms
    /\ UNCHANGED members

Next ==
    /\ up
    /\ up' \in BOOLEAN
    /\ \/ \E p \in Players, r \in Rooms :
              Open(p, r) \/ Enter(p, r) \/ Leave(p, r) \/ Talk(p, r)
       \/ Nothing

Spec == Init /\ [][Next]_vars

=============================================================================
