------------------------------ MODULE MCMembers ------------------------------
(***************************************************************************)
(* Small instances of Members.                                             *)
(***************************************************************************)
EXTENDS Members
=============================================================================
