---------------------------- MODULE MCGuestData ----------------------------
(***************************************************************************)
(* GuestData for TLC.                                                      *)
(***************************************************************************)
EXTENDS GuestData

CONSTANTS g1, g2, n1, n2

(* The sign-in page with a flag log, and neither.                          *)
MCConfigs == {[signin |-> TRUE, flagLog |-> TRUE],
              [signin |-> FALSE, flagLog |-> FALSE]}
=============================================================================
