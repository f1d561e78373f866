------------------------------ MODULE MCSignIn ------------------------------
(***************************************************************************)
(* Small instances of SignIn.                                              *)
(***************************************************************************)
EXTENDS SignIn, TLC

Symmetry ==
    Permutations(Emails) \cup Permutations(Browsers) \cup Permutations(Codes)
=============================================================================
