------------------------------- MODULE MCAgents -------------------------------
(***************************************************************************)
(* Small instances of Agents.                                              *)
(***************************************************************************)
EXTENDS Agents

CONSTANTS ann, gus, c1, c2
=============================================================================
