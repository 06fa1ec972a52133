---------------------------- MODULE EventJournal ----------------------------
(***************************************************************************)
(* What the event log of the panel promises (WriteEventToFlash,            *)
(* LogT_Task and ReadOutEvent, log_event.c): events are kept one by one in *)
(* the order of their logging, the last Capacity of them are there, marks  *)
(* are added and never taken back.  A power loss costs the events that     *)
(* still wait; a flash write that fails costs at most one kept event.      *)
(***************************************************************************)
EXTENDS Integers, Sequences, FiniteSets

CONSTANTS
  Stations, \* monitoring stations that mark what they have received
  Capacity  \* events kept at most

VARIABLES
  pending, \* events logged and not yet kept, oldest first
  kept,    \* records [ev, ack]: ack is the set of stations that marked it
  logged,  \* events logged so far
  lost     \* flash writes that failed so far

vars == <<pending, kept, logged, lost>>

Init == pending = <<>> /\ kept = {} /\ logged = 0 /\ lost = 0

Log ==
  /\ logged' = logged + 1 /\ pending' = Append(pending, logged + 1)
  /\ UNCHANGED <<kept, lost>>

Oldest == {r \in kept : \A s \in kept : r.ev <= s.ev}

\* The first pending event is kept; the oldest one makes room for it when the
\* journal, less what failed writes may have taken, is full.
Keep ==
  /\ pending # <<>> /\ \A r \in kept : r.ev < Head(pending)
  /\ pending' = Tail(pending)
  /\ \E gone \in {{}, Oldest} :
       /\ gone # {} => Cardinality(kept) + lost >= Capacity
       /\ kept' = (kept \ gone) \cup {[ev |-> Head(pending), ack |-> {}]}
       /\ Cardinality(kept') <= Capacity
  /\ UNCHANGED <<logged, lost>>

Mark ==
  /\ \E r \in kept, m \in Stations :
       kept' = (kept \ {r}) \cup {[r EXCEPT !.ack = @ \cup {m}]}
  /\ UNCHANGED <<pending, logged, lost>>

WriteFails ==
  /\ lost' = lost + 1
  /\ \E r \in SUBSET kept : Cardinality(r) <= 1 /\ kept' = kept \ r
  /\ UNCHANGED <<pending, logged>>

PowerLoss == pending' = <<>> /\ UNCHANGED <<kept, logged, lost>>

Next == Log \/ Keep \/ Mark \/ WriteFails \/ PowerLoss

\* What waits is kept in the end.
Spec == Init /\ [][Next]_vars /\ WF_vars(Keep)
=============================================================================
