------------------------- MODULE EventFlashJournal -------------------------
(***************************************************************************)
(* EventFlash, whose log is a ring of slots with a position, an index and  *)
(* two saved copies, implements EventJournal, which has a set of events.   *)
(***************************************************************************)
EXTENDS EventFlash

\* The slot at the write position is not in the log: it is being written, or
\* holds what a power loss gave up.
KeptSlots == {s \in Slots \ {wrptr} : flash[s].st = "ok"}
Kept == {[ev |-> flash[s].ev, ack |-> flash[s].ack] : s \in KeptSlots}

\* An event leaves the queue for the log when the position moves past its
\* record (AdvancePointers), before LogT_Task takes it out (Deliver).
Waiting == IF logT.pc \in {"index", "deliver"} THEN Tail(queue) ELSE queue

Journal == INSTANCE EventJournal WITH
  Stations <- Monitors,
  Capacity <- DF_MAXEVENTS - 1,
  pending  <- Waiting,
  kept     <- Kept,
  lost     <- spent["badWrite"]

(***************************************************************************)
(* Whatever the interleaving of LogT_Task and RabbitTask, the failed       *)
(* writes and the power losses (but for FormatEventFlash), the flash is    *)
(* the journal: no event out of order, twice or missing between two that   *)
(* are there, no mark taken back, and what waits is stored in the end.     *)
(***************************************************************************)
ImplementsJournal == Journal!Spec
=============================================================================
