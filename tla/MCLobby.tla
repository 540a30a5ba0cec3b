------------------------------- MODULE MCLobby -------------------------------
(***************************************************************************)
(* Lobby for TLC: players and codes are interchangeable model values.      *)
(***************************************************************************)
EXTENDS Lobby

Symmetry == Permutations(Players) \cup Permutations(Codes)

=============================================================================
