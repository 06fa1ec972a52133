----------------------------- MODULE MacroHold -----------------------------
(***************************************************************************)
(* The de-duplication of MACROMODE (src/LogEventos/log_event.c): an alarm  *)
(* that the panel's own inputs report may also arrive as data from the     *)
(* partition modules, so WriteEventToTxBuffer holds the local one for 30   *)
(* seconds, and a guard machine decides whether it goes to station 0.      *)
(*                                                                         *)
(* fsm_MEV110, fsm_MEV120 and fsm_MEV130 are one machine with two local    *)
(* partitions (Second = TRUE), fsm_MEV400P5 .. P9 one with one partition   *)
(* (Second = FALSE).  The machines run in AlarmDetectTask, which LogT_Task *)
(* preempts; both write ring 0 and the bits of SystemFlag11 with no lock.  *)
(* A third actor, Other, is any code of lower priority that changes        *)
(* another bit of SystemFlag11 (AutoprotectTask, the consoles).            *)
(*                                                                         *)
(* An event is told apart by the partition that holds it; the records in   *)
(* ring 0 are not (LogQueue and RabbitLink are about what a ring holds).   *)
(* Left out: the tag of the held record in flash (EventFlash), the ring    *)
(* being full (RabbitLink), and which bytes a record caught in the middle  *)
(* of Mem_Copy is made of.                                                 *)
(***************************************************************************)
EXTENDS Naturals, Sequences

CONSTANTS
    Second,      \* the machine has a second partition (fsm_MEV110/120/130)
    RingLen,     \* TXEVENTBUFFERLEN
    MaxEvents,   \* bound: events logged
    MaxOther     \* bound: changes of SystemFlag11 by other code

MacroAssumption ==
    Second \in BOOLEAN /\ RingLen \in Nat \ {0} /\ MaxEvents \in Nat /\ MaxOther \in Nat

Slots == IF Second THEN {"first", "second"} ELSE {"first"}
Bits == Slots \cup {"gev"}

VARIABLES
    word,     \* the bits of SystemFlag11 that are set: EV..P0, EV..P3 and GEV
    wptr,     \* eventRec_writeptr
    rptr,     \* eventRec_readptr
    cnt,      \* eventRec_count
    n,        \* events logged so far
    lpc,      \* LogT_Task: "idle", or "station1": about to serve station 1
    lmacro,   \* its record carries the converted event code
    st,       \* fsm_MEV110_state: "idle", "first", "second", "guard"
    due,      \* SEC_TIMER > timeout
    apc,      \* where AlarmDetectTask is in the machine
    areg,     \* what it has loaded from eventRec_writeptr or eventRec_count
    awp,      \* its wrptr, while it has one
    todo,     \* the bits it still has to clear
    wreg,     \* the value of SystemFlag11 it has loaded
    oreg,     \* the value Other has loaded, or {"none"}
    nother,   \* changes by Other so far
    owed,     \* history: station 0 has not been told of an alarm that was held
    closed,   \* history: partitions whose EV.._temp holds an event already closed
    unseen,   \* history: the machine has not run since a data event
    mishaps   \* history: the races that have bitten

rng   == <<wptr, rptr, cnt>>
logt  == <<n, lpc, lmacro>>
mach  == <<st, due, apc, areg, awp, todo, wreg>>
oth   == <<oreg, nother>>
notes  == <<owed, closed, unseen, mishaps>>
holdVars  == <<word, rng, logt, mach, oth, notes>>

None == {"none"}
Waiting == Slots \cap word      \* the partitions with an event held now

HoldInit ==
    /\ word = {} /\ wptr = 0 /\ rptr = 0 /\ cnt = 0
    /\ n = 0 /\ lpc = "idle" /\ lmacro = FALSE
    /\ st = "idle" /\ due = FALSE /\ apc = "loop" /\ areg = 0 /\ awp = 0
    /\ todo = <<>> /\ wreg = {}
    /\ oreg = None /\ nother = 0
    /\ owed = FALSE /\ closed = {} /\ unseen = FALSE /\ mishaps = {}

-----------------------------------------------------------------------------
(* The ring of station 0. *)

\* Mutant: the position is compared after it has passed the end.
Wrapped_Late(p) == IF p = RingLen + 1 THEN 0 ELSE p
Wrapped(p) == IF p = RingLen THEN 0 ELSE p

\* What a write of the ring by LogT_Task spoils of one AlarmDetectTask is in:
\* both take one slot, a count is lost, or the position is past the array.
RingRaces ==
    (IF apc = "take" THEN {"ptr"} ELSE {}) \cup (IF apc = "counted" THEN {"count"} ELSE {})
      \cup (IF apc \in {"count", "counted", "copy", "wrap"} /\ wptr >= RingLen THEN {"runoff"} ELSE {})

\* The four statements that put an event in the ring, in LogT_Task.
PutLogT(races) ==
    /\ wptr' = Wrapped(wptr + 1)
    /\ cnt' = cnt + 1
    /\ mishaps' = mishaps \cup RingRaces \cup races
    /\ UNCHANGED rptr

-----------------------------------------------------------------------------
(* WriteEventToTxBuffer(0, event), run by LogT_Task. *)

Room == lpc = "idle" /\ n < MaxEvents /\ cnt + 1 < RingLen    \* bound: the ring is never full
Served == n' = n + 1 /\ lpc' = "station1"

\* The station is told of the alarm anyhow: the guard is on, or the event of a
\* release is in the ring and its flags are being cleared.
Covered == st = "guard" \/ apc = "wrap" \/ todo # <<>>

\* An alarm of the panel's own inputs is held.  conv: its code is one of
\* those converted to 401.  The early return leaves the record converted.
HoldEvent(s, conv) ==
    /\ Room /\ Served
    /\ conv => ~Second
    /\ word' = word \cup {s}
    /\ closed' = closed \ {s}
    /\ lmacro' = conv
    /\ owed' = (owed \/ ~Covered)
    /\ mishaps' = mishaps \cup (IF unseen THEN {"blur"} ELSE {})
    /\ UNCHANGED <<rng, mach, oth, unseen>>

\* Mutant: a held event of the second partition survives the data event.
ClosedBits_FirstOnly == (word \ {"first"}) \cup {"gev"}
ClosedBits == (word \ Slots) \cup {"gev"}

\* The machine has taken the decision to send what the data event closes.
DataRaces == IF apc \in {"load", "take", "count", "counted", "copy"} THEN {"late"} ELSE {}

\* The same alarm arrives as data: what is held is dropped, the guard is asked
\* for, and the event goes out if EveMACRO_TBL has its code (fwd); the codes of
\* Eve400_TBL that are not in that table close the held event and are not sent.
DataEvent(fwd) ==
    /\ Room /\ Served
    /\ fwd \/ ~Second
    /\ word' = ClosedBits
    /\ closed' = closed \cup Waiting
    /\ unseen' = TRUE
    /\ lmacro' = FALSE
    /\ IF fwd
         THEN PutLogT(DataRaces) /\ owed' = FALSE
         ELSE /\ mishaps' = mishaps \cup DataRaces \cup (IF owed THEN {"mute"} ELSE {})
              /\ UNCHANGED <<rng, owed>>
    /\ UNCHANGED <<mach, oth>>

\* An event the machines have nothing to do with.
PlainEvent ==
    /\ Room /\ Served
    /\ PutLogT({})
    /\ lmacro' = FALSE
    /\ UNCHANGED <<word, mach, oth, owed, closed, unseen>>

\* WriteEventToTxBuffer(1, &event): the same record goes to the other station.
ServeStation1 ==
    /\ lpc = "station1"
    /\ lpc' = "idle"
    /\ UNCHANGED <<n, lmacro, word, rng, mach, oth, notes>>

LogT ==
    \/ \E s \in Slots, conv \in BOOLEAN : HoldEvent(s, conv)
    \/ \E fwd \in BOOLEAN : DataEvent(fwd)
    \/ PlainEvent
    \/ ServeStation1

-----------------------------------------------------------------------------
(* fsm_MEV110, run by AlarmDetectTask on each pass of its loop. *)

Await(s) == st' = s /\ due' = FALSE

\* The guard: 90 seconds (30 for fsm_MEV400P5) in which local events are dropped.
Guard == Await("guard") /\ apc' = "clear" /\ todo' = <<"gev">>

\* Mutant: the pair's bits in the machine of one partition.
BothBits_Pair == <<"first", "second">>
BothBits == IF Second THEN <<"first", "second">> ELSE <<"first">>

\* From here on the machine writes the ring: wrptr = eventRec_writeptr++.
Release == apc' = "load" /\ UNCHANGED <<st, due, todo>>

\* Mutant: the guard is looked at before the held events.
FromIdle_GuardFirst ==
    /\ st = "idle"
    /\ CASE "gev" \in word -> Guard
         [] word = {"first"} -> Await("first") /\ UNCHANGED <<apc, todo>>
         [] "gev" \notin word /\ "second" \in word -> Await("second") /\ UNCHANGED <<apc, todo>>
         [] word = {} -> UNCHANGED <<st, due, apc, todo>>
FromIdle ==
    /\ st = "idle"
    /\ CASE "first" \in word -> Await("first") /\ UNCHANGED <<apc, todo>>
         [] "second" \in word /\ "first" \notin word -> Await("second") /\ UNCHANGED <<apc, todo>>
         [] word = {"gev"} -> Guard
         [] word = {} -> UNCHANGED <<st, due, apc, todo>>

\* Mutant: the pair's event restarts the wait on every pass.
FromHold_Rearmed ==
    /\ st \in Slots
    /\ IF word \cap Slots = {}
         THEN IF "gev" \in word THEN Guard ELSE st' = "idle" /\ UNCHANGED <<due, apc, todo>>
         ELSE IF "second" \in word THEN Await("second") /\ UNCHANGED <<apc, todo>>
         ELSE IF due THEN Release ELSE UNCHANGED <<st, due, apc, todo>>

\* An event is held: nothing is left of it, the pair's event came, or the wait
\* is over.  In state "second" the bit that is up may be the first one.
FromHold ==
    /\ st \in Slots
    /\ CASE word \cap Slots = {} /\ "gev" \in word -> Guard
         [] word \cap Slots = {} /\ "gev" \notin word -> st' = "idle" /\ UNCHANGED <<due, apc, todo>>
         [] st = "first" /\ "second" \in word -> Await("second") /\ UNCHANGED <<apc, todo>>
         [] OTHER -> IF due THEN Release ELSE UNCHANGED <<st, due, apc, todo>>

FromGuard ==
    /\ st = "guard"
    /\ IF due THEN /\ st' = "idle" /\ apc' = "clear" /\ todo' = BothBits
                   /\ UNCHANGED due
              ELSE UNCHANGED <<st, due, apc, todo>>

Pass ==
    /\ apc = "loop"
    /\ FromIdle \/ FromHold \/ FromGuard
    /\ unseen' = FALSE
    /\ UNCHANGED <<areg, awp, wreg, word, rng, logt, oth, owed, closed, mishaps>>

\* wrptr = eventRec_writeptr++, a load and a store.
LoadPosition ==
    /\ apc = "load"
    /\ areg' = wptr /\ apc' = "take"
    /\ UNCHANGED <<st, due, awp, todo, wreg, word, rng, logt, oth, notes>>

StorePosition ==
    /\ apc = "take"
    /\ awp' = areg /\ wptr' = areg + 1 /\ areg' = 0 /\ apc' = "count"
    /\ UNCHANGED <<st, due, todo, wreg, word, rptr, cnt, logt, oth, notes>>

\* eventRec_count++, a load and a store.
LoadCount ==
    /\ apc = "count"
    /\ areg' = cnt /\ apc' = "counted"
    /\ UNCHANGED <<st, due, awp, todo, wreg, word, rng, logt, oth, notes>>

StoreCount ==
    /\ apc = "counted"
    /\ cnt' = areg + 1 /\ areg' = 0 /\ apc' = "copy"
    /\ UNCHANGED <<st, due, awp, todo, wreg, word, wptr, rptr, logt, oth, notes>>

Released == st

\* The held event is copied in the ring; with it all that waits is told.
CopyHeld ==
    /\ apc = "copy"
    /\ apc' = "wrap" /\ awp' = 0
    /\ owed' = FALSE
    /\ closed' = closed \cup Waiting \cup {Released}
    /\ UNCHANGED <<st, due, areg, todo, wreg, word, rng, logt, oth, unseen, mishaps>>

WrapPosition ==
    /\ apc = "wrap"
    /\ wptr' = Wrapped(wptr)
    /\ st' = "idle" /\ apc' = "clear" /\ todo' = BothBits
    /\ UNCHANGED <<due, areg, awp, wreg, word, rptr, cnt, logt, oth, notes>>

\* SystemFlag11 &= ~bit, a load and a store of the whole word.
LoadFlags ==
    /\ apc = "clear"
    /\ wreg' = word /\ apc' = "store"
    /\ UNCHANGED <<st, due, areg, awp, todo, word, rng, logt, oth, notes>>

StoreFlags ==
    /\ apc = "store"
    /\ word' = wreg \ {Head(todo)} /\ wreg' = {}
    /\ todo' = Tail(todo)
    /\ apc' = (IF Len(todo) = 1 THEN "loop" ELSE "clear")
    /\ mishaps' = mishaps \cup (IF word # wreg THEN {"own"} ELSE {})
    /\ UNCHANGED <<st, due, areg, awp, rng, logt, oth, owed, closed, unseen>>

AlarmDetect ==
    \/ Pass \/ LoadPosition \/ StorePosition \/ LoadCount \/ StoreCount
    \/ CopyHeld \/ WrapPosition \/ LoadFlags \/ StoreFlags

\* SEC_TIMER passes the machine's timeout.
Timeout ==
    /\ st # "idle" /\ ~due
    /\ due' = TRUE
    /\ UNCHANGED <<st, apc, areg, awp, todo, wreg, word, rng, logt, oth, notes>>

-----------------------------------------------------------------------------
(* Code of lower priority than AlarmDetectTask. *)

\* Another bit of SystemFlag11 changes: the whole word is loaded and stored.
OtherLoad ==
    /\ apc = "loop" /\ oreg = None /\ nother < MaxOther
    /\ oreg' = word /\ nother' = nother + 1
    /\ UNCHANGED <<word, rng, logt, mach, notes>>

OtherStore ==
    /\ apc = "loop" /\ oreg # None
    /\ word' = oreg /\ oreg' = None
    /\ mishaps' = mishaps \cup (IF word # oreg THEN {"slip"} ELSE {})
    /\ UNCHANGED <<rng, logt, mach, nother, owed, closed, unseen>>

\* The event at the read position has been acknowledged (ReadOutEvent).
ReadOut ==
    /\ apc = "loop" /\ cnt > 0
    /\ rptr' = (rptr + 1) % RingLen /\ cnt' = cnt - 1
    /\ UNCHANGED <<word, wptr, logt, mach, oth, notes>>

HoldNext == LogT \/ AlarmDetect \/ Timeout \/ OtherLoad \/ OtherStore \/ ReadOut

HoldSpec == HoldInit /\ [][HoldNext]_holdVars

\* AlarmDetectTask is never starved, and time passes.
HoldFairness == WF_holdVars(AlarmDetect) /\ WF_holdVars(Timeout)
HoldFairSpec == HoldSpec /\ HoldFairness

-----------------------------------------------------------------------------
(* Properties. *)

\* The variables keep their types.
HoldTypeOK ==
    /\ word \subseteq Bits
    /\ wptr \in Nat /\ rptr \in 0 .. RingLen - 1 /\ cnt \in Nat
    /\ n \in 0 .. MaxEvents /\ lpc \in {"idle", "station1"} /\ lmacro \in BOOLEAN
    /\ st \in {"idle", "guard"} \cup Slots /\ due \in BOOLEAN
    /\ apc \in {"loop", "load", "take", "count", "counted", "copy", "wrap", "clear", "store"}
    /\ areg \in Nat /\ awp \in Nat /\ wreg \subseteq Bits
    /\ todo \in {<<>>, <<"gev">>, BothBits, <<"second">>}
    /\ oreg = None \/ oreg \subseteq Bits
    /\ nother \in 0 .. MaxOther /\ owed \in BOOLEAN /\ closed \subseteq Slots
    /\ unseen \in BOOLEAN /\ mishaps \subseteq {"ptr", "count", "runoff", "blur", "late", "mute", "own", "slip"}

\* While station 0 has not been told of an alarm that was held, an event of it
\* is waiting: no interleaving of LogT_Task with the machine drops the last
\* one.  Two things do: a data event whose code EveMACRO_TBL lacks, and the
\* change of another bit of SystemFlag11 that LogT_Task interrupts.
NotForgotten ==
    owed => word \cap Slots # {} \/ mishaps \cap {"mute", "slip"} # {}

\* The write position of ring 0 is inside the array whenever no write is under
\* way; only LogT_Task writing at the end of the array in the middle of a
\* release takes it outside, from where it never wraps.
PositionInside ==
    apc \notin {"count", "counted", "copy", "wrap"} =>
        wptr < RingLen \/ "runoff" \in mishaps

\* Ring 0 holds as many events as eventRec_count says: that many elements after
\* the read position, the rounds of a ring written over included, is the write
\* position, unless LogT_Task came between a load and its store.
CountSound ==
    apc \in {"loop", "load", "clear", "store"} /\ mishaps \cap {"ptr", "count", "runoff"} = {} =>
        \E rounds \in 0 .. cnt : rptr + cnt = wptr + rounds * RingLen

\* A machine never sends an event that a data event or an earlier release has
\* closed.  Excepted: a data event that comes while the machine copies ("late"),
\* a local one right behind a data event, before the machine has run ("blur"),
\* and a change of SystemFlag11 that the machine's own store ("own") or other
\* code's ("slip") undoes.
SendsOpen ==
    apc = "copy" /\ apc' = "wrap" =>
        Released \notin closed \/ mishaps \cap {"blur", "late", "own", "slip"} # {}
SentOnce == [][SendsOpen]_holdVars

\* The record that goes to the second station has the code it was logged with:
\* "aca aplico conversion de codigo de eventos para el Macro" (log_event.c:429)
\* speaks of station 0, the Macro, alone.
OtherAsLogged == lpc = "station1" => ~lmacro

\* A held event is sent or dropped in the end.
Decided == \A s \in Slots : s \in word ~> s \notin word
=============================================================================
