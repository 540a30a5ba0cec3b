---------------------------- MODULE MCRoomManager ----------------------------
(***************************************************************************)
(* RoomManager for TLC: players, codes and names are model values.  Only   *)
(* the players and the codes are interchangeable.                          *)
(***************************************************************************)
EXTENDS RoomManager

Symmetry == Permutations(Players) \cup Permutations(Codes)

=============================================================================
