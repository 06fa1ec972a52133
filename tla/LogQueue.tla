------------------------------ MODULE LogQueue ------------------------------
(***************************************************************************)
(* The queue LogT_eventRecord[] between the tasks that log events and      *)
(* LogT_Task, at the grain at which they preempt each other.               *)
(*                                                                         *)
(* App_Task_1 (priority 4) outranks LogT_Task (5), which outranks every    *)
(* other producer (AlarmDetectTask 7, LAN485_Task 10, RabbitTask 14 ...).   *)
(* logCidEvent holds the semaphore LogEventRdyPtr.  LogT_Task does not     *)
(* take it, and neither do GenerateCIDEventPTm and ParsePtmCID_Event,      *)
(* which LAN485_Task, AlarmDetectTask and App_Task_1 call.  So a push by   *)
(* App_Task_1 is one step for the others, at any moment; a push by another *)
(* producer can be interrupted by LogT_Task, by App_Task_1 and by a        *)
(* producer that outranks it, if only one of the two needs the semaphore;  *)
(* and a producer moves only while LogT_Task is in one of its delays.      *)
(* LogT_eventRec_count is a plain int: ++ and -- load and store it.        *)
(***************************************************************************)
EXTENDS Integers, Sequences, FiniteSets

CONSTANTS
  Producers,    \* priorities of the producers LogT_Task outranks; less is more
  Unlocked,     \* those that also log with GenerateCIDEventPTm
  LogT_BUFFLEN, \* elements of the queue (40)
  MaxEvents     \* bound: events logged

ASSUME ConstantsAssumption ==
  /\ LogT_BUFFLEN \in Nat \ {0} /\ MaxEvents \in Nat
  /\ Producers \subseteq Nat /\ IsFiniteSet(Producers)
  /\ Unlocked \subseteq Producers

VARIABLES
  buf,      \* LogT_eventRecord[]
  writeptr, readptr, count, \* LogT_eventRec_writeptr, _readptr, _count
  low,      \* each producer inside WriteEventToFlash
  logT,     \* LogT_Task
  begun,    \* pushes begun; event e is the e-th
  pushed,   \* pushes whose increment of count is done
  out,      \* what LogT_Task has stored and taken off the queue
  raced     \* history: the races that have happened

vars == <<buf, writeptr, readptr, count, low, logT, begun, pushed, out, raced>>

Elements == 0..(LogT_BUFFLEN - 1)
Events   == 1..MaxEvents
Junk     == 0 \* what an element holds before it is first written
Popped   == Len(out)

(***************************************************************************)
(* What can go wrong: a push counts itself between the load and the store  *)
(* of another count++ or of LogT_Task's count--; LogT_Task pops between    *)
(* those of a count++; it copies an element not yet written; a push finds  *)
(* the queue full, which WriteEventToFlash does not test; a push begins    *)
(* while the position stands past the last element, because the push it    *)
(* interrupts has not wrapped it yet.                                      *)
(***************************************************************************)
Races == {"lostPush", "lostPop", "early", "overrun", "runoff"}
Race(kind, cond) == IF cond THEN {kind} ELSE {}

\* Mutant: one element too far.
Wrap_Late(p) == IF p > LogT_BUFFLEN THEN 0 ELSE p

Wrap(p) == IF p = LogT_BUFFLEN THEN 0 ELSE p

\* A record written past the array goes to memory that is not the queue's.
Put(slot, e) == IF slot \in Elements THEN [buf EXCEPT ![slot] = e] ELSE buf

\* How far a push has come, its element, its register, its event.
Push == [pc : {"idle", "slot", "loaded", "counted", "written"}, slot : Nat, reg : Int,
         ev : Events \cup {Junk}, locked : BOOLEAN]
NotPushing == [pc |-> "idle", slot |-> 0, reg |-> 0, ev |-> Junk, locked |-> FALSE]
Delayed    == [pc |-> "poll", rec |-> Junk, reg |-> 0]

Init ==
  /\ buf = [i \in Elements |-> Junk]
  /\ writeptr = 0 /\ readptr = 0 /\ count = 0
  /\ low = [p \in Producers |-> NotPushing] /\ logT = Delayed
  /\ begun = 0 /\ pushed = 0 /\ out = <<>> /\ raced = {}

Full == begun - Popped >= LogT_BUFFLEN
SemaphoreFree == \A p \in Producers : ~low[p].locked

\* Some producer is between the load and the store of count++.
Counting(S) == \E p \in S : low[p].pc = "loaded"

\* Producer p has a place in the queue and has not written its record there.
Unwritten(p) == low[p].pc \in {"slot", "loaded", "counted"}

BeginRaces == Race("overrun", Full) \cup Race("runoff", writeptr \notin Elements)

-----------------------------------------------------------------------------
(* WriteEventToFlash.                                                      *)

\* By App_Task_1, in one step; in logCidEvent it may have waited before.
AppPush ==
  /\ begun < MaxEvents
  /\ begun' = begun + 1 /\ pushed' = pushed + 1
  /\ buf' = Put(writeptr, begun + 1)
  /\ count' = count + 1
  /\ writeptr' = Wrap(writeptr + 1)
  /\ raced' = raced \cup BeginRaces
                 \cup Race("lostPush", logT.pc = "loaded" \/ Counting(Producers))
  /\ UNCHANGED <<readptr, low, logT, out>>

\* By another producer, while LogT_Task waits for its period or for the
\* flash and no producer that outranks it is about.
LowRuns(p, pc) ==
  /\ low[p].pc = pc /\ logT.pc \in {"poll", "copied"}
  /\ \A q \in Producers : q < p => low[q].pc = "idle"

LowTakeSlot(p) ==
  /\ LowRuns(p, "idle") /\ begun < MaxEvents
  /\ \E locked \in BOOLEAN :
       /\ IF locked THEN SemaphoreFree ELSE p \in Unlocked
       /\ low' = [low EXCEPT ![p] = [pc |-> "slot", slot |-> writeptr, reg |-> 0,
                                     ev |-> begun + 1, locked |-> locked]]
  /\ begun' = begun + 1
  /\ writeptr' = writeptr + 1
  /\ raced' = raced \cup BeginRaces
  /\ UNCHANGED <<buf, readptr, count, logT, pushed, out>>

LowLoadCount(p) ==
  /\ LowRuns(p, "slot")
  /\ low' = [low EXCEPT ![p].pc = "loaded", ![p].reg = count]
  /\ UNCHANGED <<buf, writeptr, readptr, count, logT, begun, pushed, out, raced>>

\* Mutant: the element is not counted.
LowStoreCount_Uncounted(p) ==
  /\ LowRuns(p, "loaded")
  /\ low' = [low EXCEPT ![p].pc = "counted"]
  /\ count' = low[p].reg
  /\ pushed' = pushed + 1
  /\ raced' = raced \cup Race("lostPush", Counting(Producers \ {p}))
  /\ UNCHANGED <<buf, writeptr, readptr, logT, begun, out>>

LowStoreCount(p) ==
  /\ LowRuns(p, "loaded")
  /\ low' = [low EXCEPT ![p].pc = "counted"]
  /\ count' = low[p].reg + 1
  /\ pushed' = pushed + 1
  /\ raced' = raced \cup Race("lostPush", Counting(Producers \ {p}))
  /\ UNCHANGED <<buf, writeptr, readptr, logT, begun, out>>

\* Mutant: the record goes where the position is by now.
LowWriteRecord_Late(p) ==
  /\ LowRuns(p, "counted")
  /\ low' = [low EXCEPT ![p].pc = "written"]
  /\ buf' = Put(Wrap(writeptr), low[p].ev)
  /\ UNCHANGED <<writeptr, readptr, count, logT, begun, pushed, out, raced>>

LowWriteRecord(p) ==
  /\ LowRuns(p, "counted")
  /\ low' = [low EXCEPT ![p].pc = "written"]
  /\ buf' = Put(low[p].slot, low[p].ev)
  /\ UNCHANGED <<writeptr, readptr, count, logT, begun, pushed, out, raced>>

LowWrap(p) ==
  /\ LowRuns(p, "written")
  /\ low' = [low EXCEPT ![p] = NotPushing]
  /\ writeptr' = Wrap(writeptr)
  /\ UNCHANGED <<buf, readptr, count, logT, begun, pushed, out, raced>>

-----------------------------------------------------------------------------
(* LogT_Task.                                                              *)

\* Mutant: the count is not tested.
CopyRecord_Untested ==
  /\ logT.pc = "poll"
  /\ logT' = [pc |-> "copied", rec |-> buf[readptr], reg |-> 0]
  /\ raced' = raced \cup
       Race("early", \E p \in Producers : Unwritten(p) /\ low[p].slot = readptr)
  /\ UNCHANGED <<buf, writeptr, readptr, count, low, begun, pushed, out>>

CopyRecord ==
  /\ logT.pc = "poll" /\ count # 0
  /\ logT' = [pc |-> "copied", rec |-> buf[readptr], reg |-> 0]
  /\ raced' = raced \cup
       Race("early", \E p \in Producers : Unwritten(p) /\ low[p].slot = readptr)
  /\ UNCHANGED <<buf, writeptr, readptr, count, low, begun, pushed, out>>

\* Neither write of the record verified: it stays queued.
NotStored ==
  /\ logT.pc = "copied"
  /\ logT' = Delayed
  /\ UNCHANGED <<buf, writeptr, readptr, count, low, begun, pushed, out, raced>>

\* Mutant: the repetition of the write moves the position too.
Stored_Twice ==
  /\ logT.pc = "copied"
  /\ logT' = [logT EXCEPT !.pc = "stored"]
  /\ readptr' = readptr + 2
  /\ UNCHANGED <<buf, writeptr, count, low, begun, pushed, out, raced>>

Stored ==
  /\ logT.pc = "copied"
  /\ logT' = [logT EXCEPT !.pc = "stored"]
  /\ readptr' = readptr + 1
  /\ UNCHANGED <<buf, writeptr, count, low, begun, pushed, out, raced>>

LoadCount ==
  /\ logT.pc = "stored"
  /\ logT' = [logT EXCEPT !.pc = "loaded", !.reg = count]
  /\ UNCHANGED <<buf, writeptr, readptr, count, low, begun, pushed, out, raced>>

\* Mutant: the element is not taken off the count.
StoreCount_Kept ==
  /\ logT.pc = "loaded"
  /\ logT' = [logT EXCEPT !.pc = "wrap"]
  /\ count' = logT.reg
  /\ out' = Append(out, logT.rec)
  /\ raced' = raced \cup Race("lostPop", Counting(Producers))
  /\ UNCHANGED <<buf, writeptr, readptr, low, begun, pushed>>

StoreCount ==
  /\ logT.pc = "loaded"
  /\ logT' = [logT EXCEPT !.pc = "wrap"]
  /\ count' = logT.reg - 1
  /\ out' = Append(out, logT.rec)
  /\ raced' = raced \cup Race("lostPop", Counting(Producers))
  /\ UNCHANGED <<buf, writeptr, readptr, low, begun, pushed>>

WrapReadptr ==
  /\ logT.pc = "wrap"
  /\ logT' = Delayed
  /\ readptr' = Wrap(readptr)
  /\ UNCHANGED <<buf, writeptr, count, low, begun, pushed, out, raced>>

-----------------------------------------------------------------------------
LowStep(p) ==
  \/ LowTakeSlot(p) \/ LowLoadCount(p) \/ LowStoreCount(p)
  \/ LowWriteRecord(p) \/ LowWrap(p)
LogTStep == CopyRecord \/ NotStored \/ Stored \/ LoadCount \/ StoreCount \/ WrapReadptr
Next == AppPush \/ (\E p \in Producers : LowStep(p)) \/ LogTStep

Spec == Init /\ [][Next]_vars

\* LogT_Task's delays end; a producer in the middle of a push gets the
\* processor in one of them; the flash does not refuse a record for ever.
Pushing(p) == LowStep(p) /\ low[p].pc # "idle"
Fairness == /\ WF_vars(LogTStep) /\ SF_vars(Stored)
            /\ \A p \in Producers : SF_vars(Pushing(p))
FairSpec == Spec /\ Fairness

-----------------------------------------------------------------------------
(* Properties.                                                             *)

\* The variables stay within their types.
TypeOK ==
  /\ buf \in [Elements -> Events \cup {Junk}]
  /\ writeptr \in Nat /\ readptr \in 0..LogT_BUFFLEN /\ count \in Int
  /\ low \in [Producers -> Push]
  /\ logT \in [pc : {"poll", "copied", "stored", "loaded", "wrap"},
               rec : Events \cup {Junk}, reg : Int]
  /\ begun \in 0..MaxEvents /\ pushed \in Nat
  /\ out \in Seq(Events \cup {Junk}) /\ raced \subseteq Races

(***************************************************************************)
(* The write position stays in the array, and stands past its end only     *)
(* inside the push that took the last element, unless another push began   *)
(* at that very moment.  From then on it never compares equal to           *)
(* LogT_BUFFLEN again and events are written beyond the array.             *)
(***************************************************************************)
PositionInside ==
  "runoff" \notin raced =>
    /\ writeptr <= LogT_BUFFLEN
    /\ writeptr = LogT_BUFFLEN =>
         \E p \in Producers : low[p].pc # "idle" /\ low[p].slot = LogT_BUFFLEN - 1

(***************************************************************************)
(* LogT_Task takes any count but zero for a record to read.  Lost updates  *)
(* of the counter may make it too small or too large, but never negative.  *)
(***************************************************************************)
CountNeverNegative == count >= 0

(***************************************************************************)
(* LogT_Task stores a record that is not waiting, an old alarm once more,  *)
(* only if it interrupted a producer's count++.                            *)
(***************************************************************************)
NeverOverstated == "lostPop" \notin raced => count <= pushed - Popped

(***************************************************************************)
(* A counted event stays unseen in the queue until others push it out only *)
(* if a push interrupted another count++ or LogT_Task's count--.           *)
(***************************************************************************)
NeverUnderstated == "lostPush" \notin raced => count >= pushed - Popped

\* The three together: what the unprotected ++ and -- can do to the counter.
CountSound == CountNeverNegative /\ NeverOverstated /\ NeverUnderstated

(***************************************************************************)
(* The races named are all there are: without them events are stored once  *)
(* each, whole and in the order of the calls, however the pushes, the      *)
(* wraps of the two positions and the pops interleave.                     *)
(***************************************************************************)
Fifo == raced = {} => \A i \in DOMAIN out : out[i] = i

\* ... and every event is stored in the end.
EveryEventStored == \A e \in Events : begun >= e ~> (Popped >= e \/ raced # {})
=============================================================================
