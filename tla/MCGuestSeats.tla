---------------------------- MODULE MCGuestSeats ----------------------------
(***************************************************************************)
(* Small instances of GuestSeats.                                          *)
(***************************************************************************)
EXTENDS GuestSeats
=============================================================================
