----------------------------- MODULE R3kSerial -----------------------------
(***************************************************************************)
(* The serial link to the R3K communicator: the ring R3KeventRecord[] of   *)
(* what every task logs, and fsm_R3kSendCid, which App_Task_1 runs to send *)
(* the head of the ring until a byte 0x06 comes back.                      *)
(*                                                                         *)
(* App_Task_1 (priority 4) outranks every producer, so that what it does   *)
(* with the ring is one step for them; they are interrupted anywhere       *)
(* inside WriteEventToR3KBuffer, by App_Task_1 and by one another, unless   *)
(* both log with logCidEvent, which holds a semaphore.  The byte 0x06 is   *)
(* noted in a bit of SystemFlag, a word in which AutoprotectTask clears    *)
(* bits of its own.  The R3K answers whatever it receives with one 0x06.   *)
(***************************************************************************)
EXTENDS Integers, Sequences, FiniteSets

CONSTANTS
  Producers,        \* priorities of the tasks that log, App_Task_1 apart
  Unlocked,         \* those that log without the semaphore
  R3KSERIALBUFFLEN, \* elements of the ring (25)
  MaxEvents,        \* bound: events logged
  MaxLate,          \* bound: answers under way at once that come late
  MaxClears         \* writes of SystemFlag by AutoprotectTask (4)

ConstantsAssumption ==
  /\ R3KSERIALBUFFLEN \in Nat \ {0}
  /\ MaxEvents \in Nat /\ MaxLate \in Nat /\ MaxClears \in Nat
  /\ Producers \subseteq Nat /\ IsFiniteSet(Producers)
  /\ Unlocked \subseteq Producers

VARIABLES
  ring, writeptr, readptr, count, \* R3KeventRecord[], R3KeventRec_...
  low,      \* each producer inside WriteEventToR3KBuffer
  st,       \* fsmr3kcid_state
  on,       \* r3kmode is 2, 3 or 4
  console,  \* INSERCON_flag or INCONFBOARD_flag
  ack,      \* R3KSERACK in SystemFlag
  clear,    \* AutoprotectTask between the load and the store of SystemFlag
  sent,     \* the record last transmitted
  owed,     \* the R3K has received the last transmission, its 0x06 is to come
  late,     \* how many 0x06 to earlier transmissions are to come
  received, \* what the R3K has received
  begun, pushed, \* pushes begun, pushes counted; event e is the e-th begun
  done,     \* the records read out, with what had been transmitted
  strayed   \* history: the mishaps so far

ringVars == <<ring, writeptr, readptr, count, low, begun, pushed>>
linkVars == <<st, on, console, ack, clear, sent, owed, late, received>>
vars     == <<ringVars, linkVars, done, strayed>>

Elements == 0..(R3KSERIALBUFFLEN - 1)
Events   == 1..MaxEvents
Junk     == 0
Records  == Events \cup {Junk}
Popped   == Len(done)
States   == {"IDLE", "WAITACK", "WAITACK06", "WAITCONSOLE"}

(***************************************************************************)
(* In the ring: a push counts itself inside another's count++; a read-out  *)
(* does; a record is transmitted or read out unwritten; a push finds the   *)
(* ring full; a push begins where another has not wrapped.  On the line: a *)
(* 0x06 comes when its transmission was given up; AutoprotectTask puts     *)
(* back a bit R3KSERACK that has changed since it loaded the word.         *)
(***************************************************************************)
Mishaps == {"lostPush", "lostPop", "early", "overrun", "runoff", "late", "putback"}
Mishap(kind, cond) == IF cond THEN {kind} ELSE {}

\* Mutant: one element too far.
Wrap_Late(p) == IF p > R3KSERIALBUFFLEN THEN 0 ELSE p

Wrap(p) == IF p = R3KSERIALBUFFLEN THEN 0 ELSE p
Put(slot, e) == IF slot \in Elements THEN [ring EXCEPT ![slot] = e] ELSE ring

Push == [pc : {"idle", "slot", "loaded", "counted", "written"}, slot : Nat, reg : Int,
         ev : Records, locked : BOOLEAN]
NotPushing == [pc |-> "idle", slot |-> 0, reg |-> 0, ev |-> Junk, locked |-> FALSE]

Init ==
  /\ ring = [i \in Elements |-> Junk]
  /\ writeptr = 0 /\ readptr = 0 /\ count = 0
  /\ low = [p \in Producers |-> NotPushing]
  /\ st = "IDLE" /\ on \in BOOLEAN /\ console = FALSE /\ ack = FALSE
  /\ clear = [pc |-> "idle", bit |-> FALSE, left |-> MaxClears]
  /\ sent = Junk /\ owed = FALSE /\ late = 0 /\ received = {}
  /\ begun = 0 /\ pushed = 0 /\ done = <<>> /\ strayed = {}

Counting(S) == \E p \in S : low[p].pc = "loaded"
Unwritten   == \E p \in Producers :
                 low[p].pc \in {"slot", "loaded", "counted"} /\ low[p].slot = readptr
BeginMishaps == Mishap("overrun", begun - Popped >= R3KSERIALBUFFLEN)
                  \cup Mishap("runoff", writeptr \notin Elements)

-----------------------------------------------------------------------------
(* WriteEventToR3KBuffer.                                                  *)

AppPush ==
  /\ begun < MaxEvents
  /\ begun' = begun + 1 /\ pushed' = pushed + 1
  /\ ring' = Put(writeptr, begun + 1)
  /\ count' = count + 1
  /\ writeptr' = Wrap(writeptr + 1)
  /\ strayed' = strayed \cup BeginMishaps \cup Mishap("lostPush", Counting(Producers))
  /\ UNCHANGED <<readptr, low, linkVars, done>>

Moves(p, pc) == low[p].pc = pc /\ \A q \in Producers : q < p => low[q].pc = "idle"

TakeSlot(p) ==
  /\ Moves(p, "idle") /\ begun < MaxEvents
  /\ \E locked \in BOOLEAN :
       /\ IF locked THEN \A q \in Producers : ~low[q].locked ELSE p \in Unlocked
       /\ low' = [low EXCEPT ![p] = [pc |-> "slot", slot |-> writeptr, reg |-> 0,
                                     ev |-> begun + 1, locked |-> locked]]
  /\ begun' = begun + 1 /\ writeptr' = writeptr + 1
  /\ strayed' = strayed \cup BeginMishaps
  /\ UNCHANGED <<ring, readptr, count, pushed, linkVars, done>>

PushLoads(p) ==
  /\ Moves(p, "slot")
  /\ low' = [low EXCEPT ![p].pc = "loaded", ![p].reg = count]
  /\ UNCHANGED <<ring, writeptr, readptr, count, begun, pushed, linkVars, done, strayed>>

\* Mutant: the element is not counted.
PushStores_Uncounted(p) ==
  /\ Moves(p, "loaded")
  /\ low' = [low EXCEPT ![p].pc = "counted"]
  /\ count' = low[p].reg /\ pushed' = pushed + 1
  /\ strayed' = strayed \cup Mishap("lostPush", Counting(Producers \ {p}))
  /\ UNCHANGED <<ring, writeptr, readptr, begun, linkVars, done>>

PushStores(p) ==
  /\ Moves(p, "loaded")
  /\ low' = [low EXCEPT ![p].pc = "counted"]
  /\ count' = low[p].reg + 1 /\ pushed' = pushed + 1
  /\ strayed' = strayed \cup Mishap("lostPush", Counting(Producers \ {p}))
  /\ UNCHANGED <<ring, writeptr, readptr, begun, linkVars, done>>

PushWrites(p) ==
  /\ Moves(p, "counted")
  /\ low' = [low EXCEPT ![p].pc = "written"]
  /\ ring' = Put(low[p].slot, low[p].ev)
  /\ UNCHANGED <<writeptr, readptr, count, begun, pushed, linkVars, done, strayed>>

PushWraps(p) ==
  /\ Moves(p, "written")
  /\ low' = [low EXCEPT ![p] = NotPushing]
  /\ writeptr' = Wrap(writeptr)
  /\ UNCHANGED <<ring, readptr, count, begun, pushed, linkVars, done, strayed>>

-----------------------------------------------------------------------------
(* fsm_R3kSendCid, in one pass of App_Task_1; its timers are abstract.     *)

\* An answer that is still to come comes late now, or is lost.
GiveUp ==
  /\ owed' = FALSE
  /\ late' \in {late, IF owed /\ late < MaxLate THEN late + 1 ELSE late}

\* A transmission; the R3K receives it if got.
Transmit(rec, got) ==
  /\ sent' = rec
  /\ owed' = got /\ received' = IF got THEN received \cup {rec} ELSE received
  /\ late' = late

\* R3KpreReadEvent and the frame; R3KSERACK is left as it is.
SendEvent(got) ==
  /\ on /\ st = "IDLE" /\ ~console /\ count # 0
  /\ Transmit(ring[readptr], got)
  /\ st' = "WAITACK"
  /\ strayed' = strayed \cup Mishap("early", Unwritten)
  /\ UNCHANGED <<ringVars, on, console, ack, clear, done>>

\* After 11 seconds a 0x06, after 60 a "@@HB" frame.
SendPoke(got) ==
  /\ on /\ st = "IDLE" /\ ~console /\ count = 0
  /\ Transmit(Junk, got)
  /\ st' = "WAITACK06" /\ ack' = FALSE
  /\ UNCHANGED <<ringVars, on, console, clear, done, strayed>>

\* Mutant: the next record is read out, not the one transmitted.
TakeAck_Next ==
  /\ on /\ st = "WAITACK" /\ ~console /\ ack
  /\ ack' = FALSE /\ st' = "IDLE"
  /\ IF count = 0 THEN UNCHANGED <<readptr, count, done, strayed>>
     ELSE /\ readptr' = Wrap(readptr + 1) /\ count' = count - 1
          /\ done' = Append(done, [ev |-> ring[Wrap(readptr + 1)], sent |-> sent])
          /\ strayed' = strayed \cup Mishap("lostPop", Counting(Producers))
                           \cup Mishap("early", Unwritten)
  /\ GiveUp
  /\ UNCHANGED <<ring, writeptr, low, begun, pushed, on, console, clear, sent, received>>

\* R3KReadOutEvent.
TakeAck ==
  /\ on /\ st = "WAITACK" /\ ~console /\ ack
  /\ ack' = FALSE /\ st' = "IDLE"
  /\ IF count = 0 THEN UNCHANGED <<readptr, count, done, strayed>>
     ELSE /\ readptr' = Wrap(readptr + 1) /\ count' = count - 1
          /\ done' = Append(done, [ev |-> ring[readptr], sent |-> sent])
          /\ strayed' = strayed \cup Mishap("lostPop", Counting(Producers))
                           \cup Mishap("early", Unwritten)
  /\ GiveUp
  /\ UNCHANGED <<ring, writeptr, low, begun, pushed, on, console, clear, sent, received>>

\* A timeout of 10 seconds; for a poke also its answer.
WaitEnds ==
  /\ on /\ ~console
  /\ st = "WAITACK06" \/ (st = "WAITACK" /\ ~ack)
  /\ ack' = FALSE /\ st' = "IDLE"
  /\ GiveUp
  /\ UNCHANGED <<ringVars, on, console, clear, sent, received, done, strayed>>

ToConsole ==
  /\ on /\ console /\ st # "WAITCONSOLE"
  /\ st' = "WAITCONSOLE"
  /\ GiveUp
  /\ UNCHANGED <<ringVars, on, console, ack, clear, sent, received, done, strayed>>

\* Mutant: the flags are not cleared.
FromConsole_FlagKept ==
  /\ on /\ ~console /\ st = "WAITCONSOLE"
  /\ st' = "IDLE"
  /\ UNCHANGED <<ringVars, on, console, ack, clear, sent, owed, late, received, done, strayed>>

FromConsole ==
  /\ on /\ ~console /\ st = "WAITCONSOLE"
  /\ st' = "IDLE" /\ ack' = FALSE
  /\ UNCHANGED <<ringVars, on, console, clear, sent, owed, late, received, done, strayed>>

-----------------------------------------------------------------------------
(* The rest of App_Task_1's pass, AutoprotectTask and the R3K.             *)

\* The interpreter of serial commands; in a console the byte is lost on it.
Answer ==
  /\ owed
  /\ owed' = FALSE /\ ack' = (ack \/ ~console)
  /\ UNCHANGED <<ringVars, st, on, console, clear, sent, late, received, done, strayed>>

LateAnswer ==
  /\ late > 0
  /\ late' = late - 1 /\ ack' = (ack \/ ~console)
  /\ strayed' = strayed \cup Mishap("late", ~console)
  /\ UNCHANGED <<ringVars, st, on, console, clear, sent, owed, received, done>>

Console ==
  /\ console' = ~console
  /\ UNCHANGED <<ringVars, st, on, ack, clear, sent, owed, late, received, done, strayed>>

\* The console's "set r3kmode".
SetMode ==
  /\ on' = ~on
  /\ UNCHANGED <<ringVars, st, console, ack, clear, sent, owed, late, received, done, strayed>>

\* SystemFlag &= ~PORRESET_FLAG and its like.
ClearLoads ==
  /\ clear.pc = "idle" /\ clear.left > 0
  /\ clear' = [pc |-> "loaded", bit |-> ack, left |-> clear.left - 1]
  /\ UNCHANGED <<ringVars, st, on, console, ack, sent, owed, late, received, done, strayed>>

ClearStores ==
  /\ clear.pc = "loaded"
  /\ clear' = [clear EXCEPT !.pc = "idle", !.bit = FALSE]
  /\ ack' = clear.bit
  /\ strayed' = strayed \cup Mishap("putback", ack # clear.bit)
  /\ UNCHANGED <<ringVars, st, on, console, sent, owed, late, received, done>>

-----------------------------------------------------------------------------
PushStep(p) == \/ TakeSlot(p) \/ PushLoads(p) \/ PushStores(p)
               \/ PushWrites(p) \/ PushWraps(p)
fsm_R3kSendCid == \/ \E got \in BOOLEAN : SendEvent(got) \/ SendPoke(got)
                  \/ TakeAck \/ WaitEnds \/ ToConsole \/ FromConsole
Next == \/ AppPush \/ (\E p \in Producers : PushStep(p))
        \/ fsm_R3kSendCid \/ Answer \/ LateAnswer \/ Console \/ SetMode
        \/ ClearLoads \/ ClearStores

Spec == Init /\ [][Next]_vars

(***************************************************************************)
(* Every task runs on, whoever is at the console leaves it, and the line   *)
(* does not fail for ever: a record sent again and again is received, the  *)
(* answer arrives before the timeout, and no console is opened each time.  *)
(***************************************************************************)
Fairness ==
  /\ WF_vars(fsm_R3kSendCid) /\ WF_vars(Console /\ ~console') /\ WF_vars(ClearStores)
  /\ \A p \in Producers : WF_vars(PushStep(p) /\ low[p].pc # "idle")
  /\ SF_vars(FromConsole) /\ SF_vars(SendEvent(TRUE))
  /\ SF_vars(Answer /\ ~console) /\ SF_vars(TakeAck)
FairSpec == Spec /\ Fairness

-----------------------------------------------------------------------------
(* Properties.                                                             *)

\* The variables stay within their types.
TypeOK ==
  /\ ring \in [Elements -> Records]
  /\ writeptr \in Nat /\ readptr \in Elements /\ count \in Int
  /\ low \in [Producers -> Push]
  /\ st \in States /\ on \in BOOLEAN /\ console \in BOOLEAN /\ ack \in BOOLEAN
  /\ clear \in [pc : {"idle", "loaded"}, bit : BOOLEAN, left : 0..MaxClears]
  /\ sent \in Records /\ owed \in BOOLEAN /\ late \in 0..MaxLate
  /\ received \subseteq Records
  /\ begun \in 0..MaxEvents /\ pushed \in Nat
  /\ done \in Seq([ev : Records, sent : Records]) /\ strayed \subseteq Mishaps

(***************************************************************************)
(* The count is the number of records pushed and not read out, whatever    *)
(* App_Task_1 does in the middle of a push, unless its push or its read-   *)
(* out fell between the load and the store of a producer's count++.        *)
(***************************************************************************)
CountSound == strayed \cap {"lostPush", "lostPop"} = {} => count = pushed - Popped

(***************************************************************************)
(* The record read out is the one that was transmitted and waited for, up  *)
(* to ten seconds before, and records are read out in the order of the     *)
(* pushes, unless a mishap of the ring came in between.                    *)
(***************************************************************************)
ReadOutWasSent ==
  strayed \cap {"lostPush", "lostPop", "early", "overrun", "runoff"} = {} =>
    \A i \in DOMAIN done : done[i] = [ev |-> i, sent |-> i]

(***************************************************************************)
(* A record leaves the ring only after the R3K received it, through every  *)
(* timeout, console session and change of mode, although a transmission    *)
(* does not clear the flag of the acknowledgement: only a 0x06 that comes  *)
(* after its transmission was given up, or AutoprotectTask's putting back  *)
(* the flag, makes the panel drop what nobody received.                    *)
(***************************************************************************)
ReadOutWasReceived ==
  strayed \cap {"late", "putback"} = {} => \A i \in DOMAIN done : done[i].sent \in received

(***************************************************************************)
(* With the mode on for good, every event logged leaves the ring in the    *)
(* end, or a mishap has befallen it.                                       *)
(***************************************************************************)
EveryEventSent ==
  <>[]on => \A e \in Events : begun >= e ~> (Popped >= e \/ strayed # {})
=============================================================================
