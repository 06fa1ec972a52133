---------------------------- MODULE MCEventFlash ----------------------------
(* Small instances of EventFlash for TLC. *)
EXTENDS EventFlash, TLC
=============================================================================
