---------------------------- MODULE MCRoomRequest ----------------------------
(***************************************************************************)
(* RoomRequest for TLC: chars of three bits, codes of two characters.      *)
(***************************************************************************)
EXTENDS RoomRequest

TakenCodes == {<<7, 7>>, <<6, 6>>}

=============================================================================
