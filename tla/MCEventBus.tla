----------------------------- MODULE MCEventBus -----------------------------
(***************************************************************************)
(* Small instances of EventBus.                                            *)
(***************************************************************************)
EXTENDS EventBus
=============================================================================
