---------------------------- MODULE MCAccessStore ----------------------------
(***************************************************************************)
(* Small instances of AccessStore.                                         *)
(***************************************************************************)
EXTENDS AccessStore, TLC

CONSTANTS e1, e2, bob, BOB, eve, kbob, keve

(* Three spellings of two nicknames.                                       *)
MCFold == (bob :> kbob) @@ (BOB :> kbob) @@ (eve :> keve)
(* An empty list, or standby, and a full one.                              *)
MCLists == {{}, {e1, e2}}
MCSymmetry == Permutations(Tokens) \union Permutations(Emails)
=============================================================================
