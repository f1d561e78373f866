------------------------------ MODULE MCThreat ------------------------------
(***************************************************************************)
(* Small instances of Threat.                                              *)
(***************************************************************************)
EXTENDS Threat
=============================================================================
