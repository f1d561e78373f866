------------------------------- MODULE MCRooms ------------------------------
(***************************************************************************)
(* Small instances of Rooms.                                               *)
(***************************************************************************)
EXTENDS Rooms
=============================================================================
