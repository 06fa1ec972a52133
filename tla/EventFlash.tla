----------------------------- MODULE EventFlash -----------------------------
(***************************************************************************)
(* The event log of the panel and its way to the monitoring stations:      *)
(*                                                                         *)
(*   logCidEvent -> queue -> LogT_Task -> flash ring -> transmit rings      *)
(*        RabbitTask: acknowledged event -> ReadOutEvent -> tag in flash    *)
(*        RabbitTask: idle heartbeat     -> ReloadUnAckEvents25             *)
(*                                                                         *)
(* An event is a number, its position in the order of logCidEvent calls.   *)
(* A step ends where the code delays (OSTimeDlyHMSM): LogT_Task outranks   *)
(* RabbitTask, so between two delays neither can be overtaken.             *)
(* A power loss may come between any two steps.                            *)
(***************************************************************************)
EXTENDS Integers, Sequences, FiniteSets

CONSTANTS
  Monitors,     \* the stations in use, Monitoreo[i].inuse == TRUE
  MacroMon,     \* Monitoreo[0] in MACROMODE, or a value outside Monitors
  Held,         \* events that wait for a guard time in MACROMODE
  Internal,     \* events of the zones that ReloadUnAckEvents25 filters out
  DF_MAXEVENTS, \* slots of the flash ring (128*33)
  IndexTop,     \* 0xFFFF, the value eventIndex skips
  TXEVENTBUFFERLEN, \* capacity of a transmit ring (25)
  Window,       \* slots ReloadUnAckEvents25 looks back (25)
  Pace,         \* timing: records LogT_Task can start during one tag or reload
  MaxLogged,    \* bound: events logged in a behaviour
  MaxBadWrites, \* bound: flash writes whose verification fails
  MaxCrashes,   \* bound: power losses
  MaxFormats    \* bound: calls of FormatEventFlash

ASSUME ConstantsAssumption ==
  /\ DF_MAXEVENTS \in Nat /\ IndexTop \in Nat /\ DF_MAXEVENTS < IndexTop
  /\ TXEVENTBUFFERLEN \in Nat \ {0}
  /\ Window \in Nat \ {0} /\ Pace \in Nat
  /\ TXEVENTBUFFERLEN + Window + 2 * Pace <= DF_MAXEVENTS \* 25 + 25 + 2 of 4224
  /\ {MaxLogged, MaxBadWrites, MaxCrashes, MaxFormats} \subseteq Nat
  /\ Held \subseteq 1..MaxLogged /\ Internal \subseteq 1..MaxLogged

VARIABLES
  flash,      \* the ring of records in the DataFlash
  savedWrptr, \* DF_EVENTWRPTR_OFFSET: the write position saved in flash
  savedIndex, \* DF_EVENTINDEX_OFFSET: the event index saved in flash
  wrptr,      \* evflash_wrptr
  eventIndex, \* eventIndex
  queue,      \* LogT_eventRecord[]: events logged and not yet stored
  tx,         \* Monitoreo[m].eventRecord[] and its positions
  logT,       \* LogT_Task: where it is and the record it is writing
  rabbit,     \* RabbitTask: inside ReadOutEvent or ReloadUnAckEvents25
  logged,     \* number of logCidEvent calls so far
  acked,      \* history: events read out of each ring on an acknowledgement
  format,     \* FormatEventFlash: where it is and how many slots it has erased
  spent,      \* how many of the bounded faults have been used
  faults      \* history: the kinds of fault that have struck

saved   == <<savedWrptr, savedIndex>>
pointers == <<wrptr, eventIndex>>
history == <<logged, acked>>
vars == <<flash, saved, pointers, queue, tx, logT, rabbit, format, history,
          spent, faults>>

Slots  == 0..(DF_MAXEVENTS - 1)
Events == 1..MaxLogged
Index  == 0..IndexTop

(***************************************************************************)
(* A slot of the ring.  Erased flash reads 0xFF everywhere; a bad slot has *)
(* a tag byte but no valid checksum.  ack is the set of ACKRCVDMONx bits.  *)
(***************************************************************************)
Record == [st : {"erased", "bad", "ok"}, index : Index,
           ev : 0..MaxLogged, ack : SUBSET Monitors]
Blank   == [st |-> "erased", index |-> IndexTop, ev |-> 0, ack |-> {}]
Garbage == [Blank EXCEPT !.st = "bad"]

TxEntry == [index : Index, ev : 0..MaxLogged]

(***************************************************************************)
(* What can go wrong: a write that does not verify; a power loss; one that *)
(* falls between the two writes of Set_evwrptr ("split"); a format that    *)
(* meets work in progress; a transmit ring that is overrun; eventIndex     *)
(* going back to zero.  The inputs among them, and formats that meet no    *)
(* work, are counted in spent against their bounds.                        *)
(***************************************************************************)
Inputs == {"badWrite", "crash", "format"}
FaultKinds == Inputs \cup {"split", "overrun", "wrap"}
NoneOf(kinds) == faults \cap kinds = {}
Spend(kind) == spent' = [spent EXCEPT ![kind] = @ + 1]

\* Mutant: compared before it is increased.
SlotInc_Late(s) == IF s = DF_MAXEVENTS THEN 0 ELSE s + 1

SlotInc(s) == IF s + 1 = DF_MAXEVENTS THEN 0 ELSE s + 1
IndexInc(i) == IF i + 1 = IndexTop THEN 0 ELSE i + 1

\* Mutant: the index after the counter has moved on.
QueuedIndex_Next == eventIndex

\* event.index = eventIndex-1, in sixteen bits (log_event.c:179).
QueuedIndex == (eventIndex - 1) % (IndexTop + 1)

(***************************************************************************)
(* find_event_by_index: newest record first, up to the first erased slot.  *)
(***************************************************************************)
Back(w, k) == (w - 1 - k) % DF_MAXEVENTS
Matches(i) ==
  {k \in Slots : /\ flash[Back(wrptr, k)].index = i
                 /\ \A j \in 0..k : flash[Back(wrptr, j)].st # "erased"}
find_event_by_index(i) ==
  {Back(wrptr, k) : k \in {n \in Matches(i) : \A j \in Matches(i) : n <= j}}

\* Mutants: the bits of all stations; the bit in place of the others.
TagFor_Everyone(m, i) ==
  [s \in Slots |-> IF s \in find_event_by_index(i)
                   THEN [flash[s] EXCEPT !.ack = Monitors] ELSE flash[s]]
TagFor_Alone(m, i) ==
  [s \in Slots |-> IF s \in find_event_by_index(i)
                   THEN [flash[s] EXCEPT !.ack = {m}] ELSE flash[s]]

TagFor(m, i) ==
  [s \in Slots |-> IF s \in find_event_by_index(i)
                   THEN [flash[s] EXCEPT !.ack = @ \cup {m}] ELSE flash[s]]

(***************************************************************************)
(* A transmit ring is the sequence of its future reads, eventRec_count of  *)
(* them.  WriteEventToTxBuffer does not look whether the ring is full: the *)
(* new entry also replaces every unread one that shares its array element, *)
(* those a multiple of TXEVENTBUFFERLEN before it.                         *)
(***************************************************************************)
TxPut(t, i, e) ==
  [k \in 1..(Len(t) + 1) |->
     IF (Len(t) + 1 - k) % TXEVENTBUFFERLEN = 0 THEN [index |-> i, ev |-> e] ELSE t[k]]

IsHeld(m, e) == m = MacroMon /\ e \in Held

(***************************************************************************)
(* WriteEventToTxBuffer for one station: a held event is only tagged (the  *)
(* guard machines of MACROMODE own it from here), any other is queued.     *)
(***************************************************************************)
TxAfter(S, i, e) ==
  [m \in Monitors |-> IF m \in S /\ ~IsHeld(m, e) THEN TxPut(tx[m], i, e) ELSE tx[m]]

Overruns(S, e) ==
  \E m \in S : ~IsHeld(m, e) /\ Len(tx[m]) >= TXEVENTBUFFERLEN

Idle == [pc |-> "idle", mon |-> MacroMon, slot |-> 0, left |-> 0, pace |-> 0,
         rec |-> Blank]
NoFormat == [pc |-> "idle", done |-> 0]
Polling == [pc |-> "poll", slot |-> 0, index |-> 0, ev |-> 0]

Init ==
  /\ flash = [s \in Slots |-> Blank]
  /\ savedWrptr = 0 /\ savedIndex = 0
  /\ wrptr = 0 /\ eventIndex = 0
  /\ queue = <<>>
  /\ tx = [m \in Monitors |-> <<>>]
  /\ logT = Polling /\ rabbit = Idle
  /\ logged = 0
  /\ acked = [m \in Monitors |-> {}]
  /\ format = NoFormat
  /\ spent = [k \in Inputs |-> 0] /\ faults = {}

-----------------------------------------------------------------------------
(* logCidEvent: queued under the LogEventRdyPtr semaphore, which           *)
(* ReadOutEvent holds until its tag is written and FormatEventFlash until  *)
(* the whole ring is erased.                                               *)
SemaphoreFree == rabbit.pc # "tag" /\ format.pc # "erase"

\* Mutant: queued at the read position instead of the write position.
logCidEvent_AtRead ==
  /\ SemaphoreFree
  /\ logged < MaxLogged
  /\ logged' = logged + 1
  /\ queue' = <<logged + 1>> \o queue
  /\ UNCHANGED <<flash, saved, pointers, tx, logT, rabbit, format, acked, faults, spent>>

logCidEvent ==
  /\ SemaphoreFree
  /\ logged < MaxLogged
  /\ logged' = logged + 1
  /\ queue' = Append(queue, logged + 1)
  /\ UNCHANGED <<flash, saved, pointers, tx, logT, rabbit, format, acked, faults, spent>>

-----------------------------------------------------------------------------
(* LogT_Task.  A flash write either takes or, a bounded number of times,   *)
(* leaves the slot as it was or unreadable.  Storing one record takes      *)
(* LogT_Task well over a second; RabbitTask reads a slot every ten          *)
(* milliseconds in a reload, and needs ten between the read and the write  *)
(* of a tag: only Pace records can be started meanwhile.                   *)
Written == [st |-> "ok", index |-> logT.index, ev |-> logT.ev, ack |-> {}]

WriteSlot(s, rec) ==
  \/ /\ flash' = [flash EXCEPT ![s] = rec]
     /\ UNCHANGED <<spent, faults>>
  \/ /\ spent["badWrite"] < MaxBadWrites
     /\ \E r \in {flash[s], Garbage} : flash' = [flash EXCEPT ![s] = r]
     /\ Spend("badWrite") /\ faults' = faults \cup {"badWrite"}

StoreRecord ==
  /\ logT.pc = "poll" /\ queue # <<>>
  /\ rabbit.pc # "idle" => rabbit.pace < Pace
  /\ rabbit' = IF rabbit.pc = "idle" THEN rabbit ELSE [rabbit EXCEPT !.pace = @ + 1]
  /\ logT' = [pc |-> "verify", slot |-> wrptr, index |-> eventIndex, ev |-> Head(queue)]
  /\ WriteSlot(wrptr, [st |-> "ok", index |-> eventIndex, ev |-> Head(queue), ack |-> {}])
  /\ UNCHANGED <<saved, pointers, queue, tx, format, history>>

RewriteRecord ==
  /\ logT.pc = "verify" /\ flash[logT.slot] # Written
  /\ logT' = [logT EXCEPT !.pc = "reverify"]
  /\ WriteSlot(logT.slot, Written)
  /\ UNCHANGED <<saved, pointers, queue, tx, rabbit, format, history>>

\* Mutant: whether the record verifies or not.
AdvancePointers_Unverified ==
  /\ logT.pc \in {"verify", "reverify"}
  /\ logT' = [logT EXCEPT !.pc = "index"]
  /\ eventIndex' = IndexInc(eventIndex)
  /\ wrptr' = SlotInc(wrptr)
  /\ savedWrptr' = SlotInc(wrptr)
  /\ faults' = faults \cup IF eventIndex + 1 = IndexTop THEN {"wrap"} ELSE {}
  /\ UNCHANGED <<flash, savedIndex, queue, tx, rabbit, format, history, spent>>

\* The record verifies: both counters move on and the position is saved.
AdvancePointers ==
  /\ logT.pc \in {"verify", "reverify"} /\ flash[logT.slot] = Written
  /\ logT' = [logT EXCEPT !.pc = "index"]
  /\ eventIndex' = IndexInc(eventIndex)
  /\ wrptr' = SlotInc(wrptr)
  /\ savedWrptr' = SlotInc(wrptr)
  /\ faults' = faults \cup IF eventIndex + 1 = IndexTop THEN {"wrap"} ELSE {}
  /\ UNCHANGED <<flash, savedIndex, queue, tx, rabbit, format, history, spent>>

\* Mutant: the index of the record instead of the next one.
SaveIndex_Stale ==
  /\ logT.pc = "index"
  /\ logT' = [logT EXCEPT !.pc = "deliver"]
  /\ savedIndex' = logT.index
  /\ UNCHANGED <<flash, savedWrptr, pointers, queue, tx, rabbit, format, history, faults, spent>>

SaveIndex ==
  /\ logT.pc = "index"
  /\ logT' = [logT EXCEPT !.pc = "deliver"]
  /\ savedIndex' = eventIndex
  /\ UNCHANGED <<flash, savedWrptr, pointers, queue, tx, rabbit, format, history, faults, spent>>

(***************************************************************************)
(* The loop over the stations, log_event.c:181-200.  Station 0 comes first *)
(* and a held event makes it wait for the tag to be written.               *)
(***************************************************************************)
FanOut(S, i, e) ==
  /\ tx' = TxAfter(S, i, e)
  /\ logT' = Polling
  /\ faults' = faults \cup IF Overruns(S, e) THEN {"overrun"} ELSE {}

ToStations(i, e) ==
  IF MacroMon \in Monitors /\ e \in Held
  THEN /\ logT' = [logT EXCEPT !.pc = "hold", !.index = i]
       /\ UNCHANGED <<tx, faults>>
  ELSE FanOut(Monitors, i, e)

Deliver ==
  /\ logT.pc = "deliver"
  /\ queue' = Tail(queue)
  /\ ToStations(QueuedIndex, logT.ev)
  /\ UNCHANGED <<flash, saved, pointers, rabbit, format, history, spent>>

\* Neither write verified: the event stays queued and is sent all the same.
DeliverUnstored ==
  /\ logT.pc = "reverify" /\ flash[logT.slot] # Written
  /\ ToStations(QueuedIndex, logT.ev)
  /\ UNCHANGED <<flash, saved, pointers, queue, rabbit, format, history, spent>>

HoldEvent ==
  /\ logT.pc = "hold"
  /\ flash' = TagFor(MacroMon, logT.index)
  /\ logT' = [logT EXCEPT !.pc = "fanout"]
  /\ UNCHANGED <<saved, pointers, queue, tx, rabbit, format, history, faults, spent>>

DeliverRest ==
  /\ logT.pc = "fanout"
  /\ FanOut(Monitors \ {MacroMon}, logT.index, logT.ev)
  /\ UNCHANGED <<flash, saved, pointers, queue, rabbit, format, history, spent>>

-----------------------------------------------------------------------------
(* RabbitTask.                                                             *)

\* ReadOutEvent up to the read of the record: the ring advances.  Timing: an
\* event that LogT_Task is still holding can be in the ring only by a reload
\* (25 delays of 10 ms); it is sent and acknowledged in two more rounds of
\* 250 ms, when the hold (720 ms) is over.
ReadOutEvent(m) ==
  LET entry == Head(tx[m])
      found == find_event_by_index(entry.index)
  IN /\ rabbit.pc = "idle" /\ SemaphoreFree /\ tx[m] # <<>>
     /\ logT.pc \in {"hold", "fanout"} => logT.slot \notin found
     /\ tx' = [tx EXCEPT ![m] = Tail(tx[m])]
     /\ acked' = [acked EXCEPT ![m] = @ \cup {entry.ev}]
     /\ \/ /\ found = {}
           /\ UNCHANGED rabbit
        \/ \E s \in found :
             rabbit' = [pc |-> "tag", mon |-> m, slot |-> s, left |-> 0,
                        pace |-> 0, rec |-> flash[s]]
     /\ UNCHANGED <<flash, saved, pointers, queue, logT, format, logged, faults, spent>>

\* ... and from the write of the record with its ACKRCVDMONx bit.
TagEvent ==
  /\ rabbit.pc = "tag"
  /\ WriteSlot(rabbit.slot, [rabbit.rec EXCEPT !.ack = @ \cup {rabbit.mon}])
  /\ rabbit' = Idle
  /\ UNCHANGED <<saved, pointers, queue, tx, logT, format, history>>

\* Mutant: one slot too late.
ReloadFrom_Late == (wrptr - Window + 1) % DF_MAXEVENTS

ReloadFrom == (wrptr - Window) % DF_MAXEVENTS

\* A heartbeat was acknowledged and the ring is empty (rabbit.c:738-743).
ReloadUnAckEvents25(m) ==
  /\ rabbit.pc = "idle" /\ tx[m] = <<>>
  /\ queue = <<>>
  /\ rabbit' = [pc |-> "reload", mon |-> m, slot |-> ReloadFrom, left |-> Window,
                pace |-> 0, rec |-> Blank]
  /\ UNCHANGED <<flash, saved, pointers, queue, tx, logT, format, history, faults, spent>>

\* Mutant: whoever may have acknowledged it.
Reloadable_Again(m, rec) == rec.st = "ok" /\ rec.ev \notin Internal

Reloadable(m, rec) == rec.st = "ok" /\ m \notin rec.ack /\ rec.ev \notin Internal

ReloadSlot ==
  LET m   == rabbit.mon
      rec == flash[rabbit.slot]
  IN /\ rabbit.pc = "reload"
     /\ rabbit' = IF rabbit.left = 1 THEN Idle
                  ELSE [rabbit EXCEPT !.slot = SlotInc(@), !.left = @ - 1]
     /\ IF Reloadable(m, rec)
        THEN /\ tx' = TxAfter({m}, rec.index, rec.ev)
             /\ flash' = IF IsHeld(m, rec.ev) THEN TagFor(m, rec.index) ELSE flash
             /\ faults' = faults \cup IF Overruns({m}, rec.ev) THEN {"overrun"} ELSE {}
        ELSE UNCHANGED <<tx, flash, faults>>
     /\ UNCHANGED <<saved, pointers, queue, logT, format, history, spent>>

-----------------------------------------------------------------------------
(* FormatEventFlash, from a keypad or the console, under the semaphore.    *)
(* Erasing 4224 slots takes over a minute: LogT_Task and a reload run on,  *)
(* so it comes in steps of any number of slots.                            *)
Quiet == queue = <<>> /\ logT.pc = "poll" /\ rabbit.pc = "idle"
         /\ \A m \in Monitors : tx[m] = <<>>
MetWork == IF Quiet THEN {} ELSE {"format"}

\* Mutant: the last slot is left out.
EraseTo_Short(k) ==
  flash' = [s \in Slots |-> IF s \in format.done..(k - 2) THEN Blank ELSE flash[s]]

EraseTo(k) == flash' = [s \in Slots |-> IF s \in format.done..(k - 1) THEN Blank ELSE flash[s]]

FormatEventFlash ==
  /\ format.pc = "idle" /\ SemaphoreFree
  /\ spent["format"] < MaxFormats
  /\ format' = [pc |-> "erase", done |-> 0]
  /\ Spend("format") /\ faults' = faults \cup MetWork
  /\ UNCHANGED <<flash, saved, pointers, queue, tx, logT, rabbit, history>>

EraseSlots ==
  /\ format.pc = "erase"
  /\ \E k \in (format.done + 1)..(DF_MAXEVENTS - 1) :
       EraseTo(k) /\ format' = [format EXCEPT !.done = k]
  /\ UNCHANGED <<saved, pointers, queue, tx, logT, rabbit, history, spent, faults>>

EraseRest ==
  /\ format.pc = "erase"
  /\ EraseTo(DF_MAXEVENTS)
  /\ wrptr' = 0 /\ eventIndex' = 0 /\ savedWrptr' = 0
  /\ format' = [pc |-> "save", done |-> 0]
  /\ faults' = faults \cup MetWork
  /\ UNCHANGED <<savedIndex, queue, tx, logT, rabbit, history, spent>>

FormatSaveIndex ==
  /\ format.pc = "save"
  /\ savedIndex' = eventIndex
  /\ format' = NoFormat
  /\ UNCHANGED <<flash, savedWrptr, pointers, queue, tx, logT, rabbit, history, faults, spent>>

-----------------------------------------------------------------------------
(***************************************************************************)
(* Power loss and start-up.  InitMonitoreoStruct empties the rings and     *)
(* calls ReloadUnAckEvents before AlarmDetectTask has called Get_evwrptr,  *)
(* so that evflash_wrptr is still the zero of the data segment; the slots  *)
(* it would queue again are RequeuedAtBoot(m, 0).                          *)
(***************************************************************************)
LastAcked(m, w) ==
  {k \in Slots : /\ \A j \in 0..k : flash[Back(w, j)].st = "ok"
                 /\ m \in flash[Back(w, k)].ack
                 /\ \A j \in 0..(k - 1) : m \notin flash[Back(w, j)].ack}
RequeuedAtBoot(m, w) ==
  {s \in Slots : \E k \in LastAcked(m, w) \ {0} :
     /\ Back(w, k) <= s /\ s < w - 1
     /\ \A r \in Back(w, k)..s : flash[r].st = "ok"}

\* Mutant: only the position is restored.
Get_evwrptr_NoIndex == wrptr' = savedWrptr /\ eventIndex' = 0

Get_evwrptr == wrptr' = savedWrptr /\ eventIndex' = savedIndex

Crash ==
  /\ spent["crash"] < MaxCrashes
  /\ Get_evwrptr
  /\ queue' = <<>>
  /\ tx' = [m \in Monitors |-> <<>>]
  /\ logT' = Polling /\ rabbit' = Idle /\ format' = NoFormat
  /\ Spend("crash")
  /\ faults' = faults \cup {"crash"} \cup (IF logT.pc = "index" THEN {"split"} ELSE {})
  /\ UNCHANGED <<flash, saved, history>>

-----------------------------------------------------------------------------
LogTStep ==
  \/ StoreRecord \/ RewriteRecord \/ AdvancePointers \/ SaveIndex
  \/ Deliver \/ DeliverUnstored \/ HoldEvent \/ DeliverRest

FormatStep == EraseSlots \/ EraseRest \/ FormatSaveIndex

Next ==
  \/ logCidEvent
  \/ LogTStep
  \/ \E m \in Monitors : ReadOutEvent(m) \/ ReloadUnAckEvents25(m)
  \/ TagEvent \/ ReloadSlot
  \/ FormatEventFlash \/ FormatStep
  \/ Crash

Spec == Init /\ [][Next]_vars

(***************************************************************************)
(* The tasks run for ever, an event at the head of a ring is acknowledged  *)
(* in the end (RabbitLink says when), and so is a heartbeat.               *)
(***************************************************************************)
Fairness ==
  /\ WF_vars(LogTStep)
  /\ WF_vars(TagEvent \/ ReloadSlot)
  /\ WF_vars(FormatStep)
  /\ \A m \in Monitors : SF_vars(ReadOutEvent(m)) /\ SF_vars(ReloadUnAckEvents25(m))
FairSpec == Spec /\ Fairness

-----------------------------------------------------------------------------
(* Properties.                                                             *)

\* A tag or record lost in a failed write, an index used twice after a restart
\* between the two writes of Set_evwrptr, and the mess of a format that meets
\* work in progress excuse what follows; a plain restart does not.
Corrupted == ~NoneOf({"badWrite", "split", "format"})

\* Every variable stays within what the code's types and tables allow.
TypeOK ==
  /\ flash \in [Slots -> Record]
  /\ savedWrptr \in Slots /\ savedIndex \in 0..(IndexTop - 1)
  /\ wrptr \in Slots /\ eventIndex \in 0..(IndexTop - 1)
  /\ queue \in Seq(Events)
  /\ tx \in [Monitors -> Seq(TxEntry)]
  /\ logT \in [pc : {"poll", "verify", "reverify", "index", "deliver", "hold", "fanout"},
               slot : Slots, index : Index, ev : 0..MaxLogged]
  /\ rabbit \in [pc : {"idle", "tag", "reload"}, mon : Monitors \cup {MacroMon},
                 slot : Slots, left : 0..Window, pace : 0..Pace, rec : Record]
  /\ logged \in 0..MaxLogged
  /\ acked \in [Monitors -> SUBSET (0..MaxLogged)]
  /\ format \in [pc : {"idle", "erase", "save"}, done : 0..(DF_MAXEVENTS - 1)]
  /\ spent \in [Inputs -> Nat] /\ faults \subseteq FaultKinds

(***************************************************************************)
(* A record is marked as acknowledged by a station only if that very event *)
(* was read out on that station's acknowledgement, or is held for it:      *)
(* find_event_by_index must hit the record of the event at the ring's      *)
(* head, not another.  A wrong mark silences an alarm for good.            *)
(***************************************************************************)
TagSound ==
  ~Corrupted =>
    \A s \in Slots, m \in Monitors :
      m \in flash[s].ack => flash[s].ev \in acked[m] \/ IsHeld(m, flash[s].ev)

\* Two readable records never carry the same index, on which
\* find_event_by_index relies.
IndexUnique ==
  ~Corrupted =>
    \A s, t \in Slots :
      flash[s].st = "ok" /\ flash[t].st = "ok" /\ s # t => flash[s].index # flash[t].index

(***************************************************************************)
(* The saved position and index always lead back to the newest record: the *)
(* slot before the saved position holds the index before the saved one,    *)
(* so that a restart continues the log where it stopped.                   *)
(***************************************************************************)
RestartContinues ==
  ~Corrupted /\ logT.pc # "index" =>
    LET last == flash[Back(savedWrptr, 0)]
    IN last.st = "ok" => IndexInc(last.index) = savedIndex

(***************************************************************************)
(* An event that a station has acknowledged is not waiting for it again,   *)
(* and none waits twice: the reload after an idle heartbeat and LogT_Task  *)
(* never queue the same event, whatever their interleaving.  Held events   *)
(* are left out: LogT_Task has taken them off its queue when it waits for  *)
(* the mark of the station that holds them, and a reload in that time      *)
(* queues them for the others before LogT_Task does.                       *)
(***************************************************************************)
NoResend ==
  NoneOf(FaultKinds) =>
    \A m \in Monitors :
      \A i, j \in DOMAIN tx[m] :
        tx[m][i].ev \notin Held =>
          tx[m][i].ev \notin acked[m] /\ (i # j => tx[m][i].ev # tx[m][j].ev)

(***************************************************************************)
(* Walking back from the write position the readable records get older:    *)
(* restarts and sixteen-bit wraps never put a record out of the order in   *)
(* which logCidEvent was called, nor does a mark written back over a slot  *)
(* that LogT_Task has used meanwhile.  The slot at the write position      *)
(* itself may already hold a record that a restart gave up.                *)
(***************************************************************************)
LogInOrder ==
  NoneOf({"format", "badWrite"}) =>
    \A j, k \in 0..(DF_MAXEVENTS - 2) :
      LET newer == flash[Back(wrptr, j)]
          older == flash[Back(wrptr, k)]
      IN j < k /\ newer.st = "ok" /\ older.st = "ok" => older.ev < newer.ev

(***************************************************************************)
(* No step takes an acknowledgement mark from a record: LogT_Task marks    *)
(* held events while RabbitTask is between the read and the write of       *)
(* another mark, and one must not undo the other.                          *)
(***************************************************************************)
KeepsTags ==
  ~Corrupted' =>
    \A s \in Slots :
      flash[s].st = "ok" /\ flash'[s].ev = flash[s].ev => flash[s].ack \subseteq flash'[s].ack
TagsKept == [][KeepsTags]_vars

(***************************************************************************)
(* As long as a record stays among the last Window slots, each station     *)
(* gets it in the end, whatever a restart, an overrun ring or a wrong      *)
(* index took out of the transmit ring.                                    *)
(***************************************************************************)
InWindow(e) ==
  \E k \in 0..(Window - 1) :
    flash[Back(wrptr, k)].st = "ok" /\ flash[Back(wrptr, k)].ev = e

WindowDrains ==
  \A m \in Monitors, e \in Events \ Internal :
    InWindow(e) ~> (e \in acked[m] \/ IsHeld(m, e) \/ ~InWindow(e) \/ Corrupted)
=============================================================================
