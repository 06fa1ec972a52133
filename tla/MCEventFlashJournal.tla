------------------------ MODULE MCEventFlashJournal ------------------------
(* Small instances of EventFlashJournal for TLC. *)
EXTENDS EventFlashJournal, TLC
=============================================================================
