------------------------------- MODULE MCMail -------------------------------
(***************************************************************************)
(* Small instances of Mail.                                                *)
(***************************************************************************)
EXTENDS Mail, TLC

Symmetry == Permutations(Senders) \cup Permutations(Sources)
=============================================================================
