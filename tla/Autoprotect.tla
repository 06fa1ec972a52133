----------------------------- MODULE Autoprotect -----------------------------
(***************************************************************************)
(* The door of the cabinet and the user who may open it: AlarmDetectTask's *)
(* fsm_deteccion_aperturaAP debounces the door into APRLINE, and           *)
(* AutoprotectTask asks for an iButton, lets the user work, waits for the  *)
(* door to close, and otherwise asks for a treasure alarm                  *)
(* (fsm_AP_apertura); it also reports a restart (fsm_AP_reset).            *)
(*                                                                         *)
(* AlarmDetectTask preempts AutoprotectTask anywhere, App_Task_1 preempts  *)
(* both.  The second door, the lamps, the buzzer and the flags that choose *)
(* how long the treasure alarm lasts are left out; WAIT_PREVE is a state   *)
(* nothing enters.                                                         *)
(***************************************************************************)
EXTENDS Integers

CONSTANTS
  PowerOn,     \* it starts with a power-on reset, not one of the watchdog
  MaxButtons,  \* bound: iButtons presented
  MaxReboots   \* bound: restarts

DoorAssumption == PowerOn \in BOOLEAN /\ MaxButtons \in Nat /\ MaxReboots \in Nat

VARIABLES
  door,     \* the door is open
  dap,      \* daper_stateAP, and whether timerdbncaperAP ran out
  line,     \* AP_APR_APRLINE
  button,   \* AP_APR_IBUTTON_OK
  valid,    \* AP_APR_VALID
  arstok,   \* ARSTOK_FLAG: the watchdog of the connection may reset
  arst,     \* arst_timer against SEC_TIMER
  ap,       \* AutoprotectTask: see Ap
  reset,    \* AP_reset_state, AP_RST_SYSRESET, tout_AP_reset
  tesoro,   \* the treasure bit of SysFlag_AP_GenAlarm
  flags,    \* FSM_FLAG_1
  kept,     \* the copies in flash of AP_apertura_state and FSM_FLAG_1
  tries,    \* inputs used of those bounded
  given,    \* history: the last alarm asked for was given
  early,    \* history: the last button was pressed before the machine was idle
  admitted, \* history: a user was accepted in this visit
  open388,  \* history: the last report of a restart was not closed
  missed    \* history: the races that have happened

doors == <<door, dap>>
user == <<valid, arstok, arst>>
doorPast == <<given, early, admitted, open388, missed>>
doorVars == <<doors, line, button, user, ap, reset, tesoro, flags, kept, tries, doorPast>>

States == {"IDLE", "WAIT_IBUTT", "OP_NORMAL", "OP_PREVE", "WAIT_15MIN", "WAIT_1MIN"}

(***************************************************************************)
(* The state, whether tout_AP_apertura ran out, where the task is, what is *)
(* left to do with APERNG_ALRM and the buffer being written to flash.      *)
(* "user" and "reset" wait in logCidEvent, "flag" is about to change       *)
(* FSM_FLAG_1, "save" has filled its buffer.                               *)
(***************************************************************************)
Ap == [st : States, tout : BOOLEAN, pc : {"pass", "user", "reset", "flag", "save"},
       ng : {"keep", "set", "clear"}, buf : SUBSET {"APER13", "NG"}]

(***************************************************************************)
(* "word": a change of the line, the button or FSM_FLAG_1 fell into a      *)
(* read-modify-write of AutoprotectTask and is undone.  "save": it wrote   *)
(* an old buffer over a newer one of AlarmDetectTask.  "gen": LAN485_Task  *)
(* undid the request.  "lost": a restart forgot one.  "restored": a        *)
(* watchdog reset takes a door that was only closed for a valid user.      *)
(* "forgotten": one forgets that the end of a reset is to be reported.     *)
(***************************************************************************)
Misses == {"word", "save", "gen", "lost", "restored", "forgotten"}
Miss(kind, cond) == IF cond THEN {kind} ELSE {}

DoorInit ==
  /\ door = FALSE /\ dap = [st |-> "IDLE", ripe |-> FALSE]
  /\ line = FALSE /\ button = FALSE
  /\ valid = FALSE /\ arstok = TRUE /\ arst = "off"
  /\ ap = [st |-> "IDLE", tout |-> FALSE, pc |-> "pass", ng |-> "keep", buf |-> {}]
  /\ reset = [st |-> "IDLE", asked |-> PowerOn, tout |-> FALSE]
  /\ tesoro = FALSE /\ flags = {} /\ kept = [st |-> "IDLE", flags |-> {}]
  /\ tries = [buttons |-> 0, boots |-> 0]
  /\ given = FALSE /\ early = FALSE /\ admitted = FALSE /\ open388 = FALSE
  /\ missed = {}

-----------------------------------------------------------------------------
(* The door, in AlarmDetectTask.                                           *)

DoorMoves ==
  /\ door' = ~door
  /\ UNCHANGED <<dap, line, button, user, ap, reset, tesoro, flags, kept, tries, doorPast>>

DoorRipe ==
  /\ dap.st \in {"WAIT", "WAIT2"} /\ ~dap.ripe /\ dap' = [dap EXCEPT !.ripe = TRUE]
  /\ UNCHANGED <<door, line, button, user, ap, reset, tesoro, flags, kept, tries, doorPast>>

Goes(st) == dap' = [st |-> st, ripe |-> FALSE]

WatchDoor ==
  /\ \/ dap.st = "IDLE" /\ "APER13" \notin flags /\ door /\ Goes("WAIT")
     \/ dap.st = "WAIT" /\ ~door /\ Goes("IDLE")
     \/ dap.st = "ALRM" /\ ~door /\ Goes("WAIT2")
     \/ dap.st = "WAIT2" /\ door /\ Goes("ALRM")
  /\ UNCHANGED <<door, line, button, user, ap, reset, tesoro, flags, kept, tries, doorPast>>

\* Mutant: the line is never cleared.
SetLine_Only(value) == line' = (line \/ value) /\ UNCHANGED missed

\* AutoprotectTask clears AP_APR_SYSRESET in each pass, by a read-modify-write
\* that undoes a change that falls into it.
SetLine(value) ==
  \/ line' = value /\ UNCHANGED missed
  \/ /\ ap.pc = "pass" /\ UNCHANGED line
     /\ missed' = missed \cup Miss("word", line # value)

\* A restart with the door open goes straight to the alarm.
Reopened ==
  /\ dap.st = "IDLE" /\ "APER13" \in flags
  /\ Goes("ALRM") /\ SetLine(TRUE)
  /\ UNCHANGED <<door, button, user, ap, reset, tesoro, flags, kept, tries, given, early, admitted, open388>>

\* The flag is changed and saved; AutoprotectTask may undo the change.
SetFlag(f) ==
  /\ kept' = [kept EXCEPT !.flags = f]
  /\ \/ flags' = f /\ SetLine("APER13" \in f)
     \/ /\ ap.pc = "flag" /\ f # flags /\ UNCHANGED flags
        /\ line' = ("APER13" \in f) /\ missed' = missed \cup {"word"}

Opened ==
  /\ dap.st = "WAIT" /\ dap.ripe /\ door
  /\ Goes("ALRM") /\ SetFlag(flags \cup {"APER13"})
  /\ UNCHANGED <<door, button, user, ap, reset, tesoro, tries, given, early, admitted, open388>>

Closed ==
  /\ dap.st = "WAIT2" /\ dap.ripe /\ ~door
  /\ Goes("IDLE") /\ SetFlag(flags \ {"APER13"})
  /\ UNCHANGED <<door, button, user, ap, reset, tesoro, tries, given, early, admitted, open388>>

\* fsm_deteccion_tesoro takes the request.
TakeTreasure ==
  /\ tesoro /\ tesoro' = FALSE /\ given' = TRUE
  /\ UNCHANGED <<doors, line, button, user, ap, reset, flags, kept, tries, early, admitted, open388, missed>>

-----------------------------------------------------------------------------
(* A user, in App_Task_1.                                                  *)

\* The button of a user in the table; AutoprotectTask may undo it.
Button ==
  /\ tries.buttons < MaxButtons /\ tries' = [tries EXCEPT !.buttons = @ + 1]
  /\ \/ button' = TRUE /\ UNCHANGED missed
     \/ ap.pc = "pass" /\ UNCHANGED button /\ missed' = missed \cup {"word"}
  /\ early' = (early /\ ~button')
  /\ UNCHANGED <<doors, line, user, ap, reset, tesoro, flags, kept, given, admitted, open388>>

-----------------------------------------------------------------------------
(* A pass of AutoprotectTask: fsm_AP_apertura and fsm_AP_reset.            *)

Passing(st) == ap.pc = "pass" /\ ap.st = st

\* fsmAperWriteHistory saves the state at once, then the flags.
Enters(st, ng) ==
  /\ ap' = [st |-> st, tout |-> FALSE, pc |-> "save", ng |-> ng, buf |-> flags]
  /\ kept' = [kept EXCEPT !.st = st]

Stays == ap' = ap /\ kept' = kept

\* Mutant: the watchdog remains as it was.
Allow_Not == arstok' = arstok

Allow == arstok' = TRUE

\* Mutant: the time only runs out with the door closed.
Expired_Closed == ap.tout /\ ~line

Expired == ap.tout

\* Mutant: a button is kept for the next opening.
DropButton_Not == button' = button

DropButton == button' = FALSE

\* An alarm by opening that a restart interrupted goes on.
IdleAlarmed ==
  /\ Passing("IDLE") /\ "NG" \in flags
  /\ Enters("OP_PREVE", "keep")
  /\ UNCHANGED <<doors, line, button, user, reset, tesoro, flags, tries, doorPast>>

Idle ==
  /\ Passing("IDLE") /\ "NG" \notin flags
  /\ Allow /\ DropButton
  /\ early' = (early \/ button)
  /\ IF line THEN Enters("WAIT_IBUTT", "keep") ELSE Stays
  /\ UNCHANGED <<doors, line, valid, arst, reset, tesoro, flags, tries, given, admitted, open388, missed>>

\* A user comes in, from the wait or from the alarm: the report blocks.
Accept ==
  /\ ap.pc = "pass" /\ ap.st \in {"WAIT_IBUTT", "OP_PREVE"} /\ button
  /\ button' = FALSE /\ valid' = TRUE /\ admitted' = TRUE
  /\ arstok' = (ap.st = "WAIT_IBUTT" \/ arstok)
  /\ ap' = [ap EXCEPT !.st = "OP_NORMAL", !.pc = "user",
                      !.ng = IF ap.st = "OP_PREVE" THEN "clear" ELSE "keep"]
  /\ UNCHANGED <<doors, line, arst, reset, tesoro, flags, kept, tries, given, early, open388, missed>>

\* The reset of the connection is suspended for two hours, unless the user
\* came late.
UserIn ==
  /\ ap.pc = "user"
  /\ ap' = [ap EXCEPT !.pc = "save", !.buf = flags, !.tout = FALSE]
  /\ kept' = [kept EXCEPT !.st = "OP_NORMAL"]
  /\ IF ap.ng = "keep" THEN arstok' = FALSE /\ arst' = "set" ELSE UNCHANGED <<arstok, arst>>
  /\ UNCHANGED <<doors, line, button, valid, reset, tesoro, flags, tries, doorPast>>

\* Mutant: the alarm is not asked for.
Ask_Not == tesoro' = tesoro /\ given' = FALSE /\ missed' = missed

\* A read-modify-write of LAN485_Task may undo the request.
Ask ==
  /\ given' = FALSE
  /\ \/ tesoro' = TRUE /\ UNCHANGED missed
     \/ UNCHANGED tesoro /\ missed' = missed \cup {"gen"}

WaitIbutton ==
  /\ Passing("WAIT_IBUTT") /\ ~button /\ Allow
  /\ IF Expired THEN Enters("OP_PREVE", "set") /\ Ask
     ELSE Stays /\ UNCHANGED <<tesoro, given, missed>>
  /\ UNCHANGED <<doors, line, button, valid, arst, reset, flags, tries, early, admitted, open388>>

\* arst_timer is compared for equality.
Suspended == arstok \/ arst = "now"

OpNormal ==
  /\ Passing("OP_NORMAL")
  /\ arstok' = Suspended
  /\ IF line THEN Stays ELSE Enters("WAIT_15MIN", "keep")
  /\ UNCHANGED <<doors, line, button, valid, arst, reset, tesoro, flags, tries, doorPast>>

\* Until the door closes.
OpPreve ==
  /\ Passing("OP_PREVE") /\ ~button
  /\ IF line THEN Stays ELSE Enters("OP_NORMAL", "clear")
  /\ UNCHANGED <<doors, line, button, user, reset, tesoro, flags, tries, doorPast>>

\* Mutant: the visit ends and its user remains valid.
Leave_Valid == arstok' = TRUE /\ valid' = valid

\* Mutant: the visit ends and the watchdog remains suspended.
Leave_Suspended == arstok' = arstok /\ valid' = FALSE

Leave == arstok' = TRUE /\ valid' = FALSE

VisitEnds ==
  /\ ap.pc = "pass" /\ ap.st \in {"WAIT_15MIN", "WAIT_1MIN"} /\ Expired
  /\ Leave /\ Enters("IDLE", "keep") /\ admitted' = FALSE
  /\ UNCHANGED <<doors, line, button, arst, reset, tesoro, flags, tries, given, early, open388, missed>>

\* The door again; or no other alarm, which makes it one minute.
VisitGoesOn ==
  /\ ap.pc = "pass" /\ ap.st \in {"WAIT_15MIN", "WAIT_1MIN"} /\ ~Expired
  /\ \/ line /\ Enters("WAIT_IBUTT", "keep")
     \/ ~line /\ ap.st = "WAIT_15MIN" /\ Enters("WAIT_1MIN", "keep")
     \/ ~line /\ Stays
  /\ UNCHANGED <<doors, line, button, user, reset, tesoro, flags, tries, doorPast>>

\* APERNG_ALRM changes and its buffer is filled.
Flag ==
  /\ ap.pc = "flag"
  /\ flags' = IF ap.ng = "set" THEN flags \cup {"NG"} ELSE flags \ {"NG"}
  /\ ap' = [ap EXCEPT !.pc = "save", !.ng = "keep", !.buf = flags']
  /\ UNCHANGED <<doors, line, button, user, reset, tesoro, kept, tries, doorPast>>

\* Mutant: the flags are not written.
Saved_Not == kept' = kept

Saved == kept' = [kept EXCEPT !.flags = ap.buf]

Save ==
  /\ ap.pc = "save" /\ Saved
  /\ missed' = missed \cup Miss("save", ap.buf # flags)
  /\ ap' = [ap EXCEPT !.pc = IF ap.ng = "keep" THEN "pass" ELSE "flag", !.buf = {}]
  /\ UNCHANGED <<doors, line, button, user, reset, tesoro, flags, tries, given, early, admitted, open388>>

\* fsm_AP_reset reports the restart, and three minutes later its end.
ReportReset ==
  /\ ap.pc = "pass" /\ reset.st = "IDLE" /\ reset.asked
  /\ reset' = [st |-> "WTOUT", asked |-> FALSE, tout |-> FALSE]
  /\ ap' = [ap EXCEPT !.pc = "reset"] /\ open388' = TRUE
  /\ UNCHANGED <<doors, line, button, user, tesoro, flags, kept, tries, given, early, admitted, missed>>

\* Mutant: the end is only reported while the cabinet is idle.
ResetOver_Idle == reset.st = "WTOUT" /\ reset.tout /\ ap.st = "IDLE"

ResetOver == reset.st = "WTOUT" /\ reset.tout

CloseReset ==
  /\ ap.pc = "pass" /\ ResetOver
  /\ reset' = [reset EXCEPT !.st = "IDLE", !.tout = FALSE]
  /\ ap' = [ap EXCEPT !.pc = "reset"] /\ open388' = FALSE
  /\ UNCHANGED <<doors, line, button, user, tesoro, flags, kept, tries, given, early, admitted, missed>>

ResetReported ==
  /\ ap.pc = "reset" /\ ap' = [ap EXCEPT !.pc = "save", !.buf = flags]
  /\ kept' = [kept EXCEPT !.st = ap.st]
  /\ UNCHANGED <<doors, line, button, user, reset, tesoro, flags, tries, doorPast>>

-----------------------------------------------------------------------------
(* Time and restarts.                                                      *)

ApTimeout ==
  /\ ap.st \in {"WAIT_IBUTT", "WAIT_15MIN", "WAIT_1MIN"} /\ ~ap.tout
  /\ ap' = [ap EXCEPT !.tout = TRUE]
  /\ UNCHANGED <<doors, line, button, user, reset, tesoro, flags, kept, tries, doorPast>>

ResetTimeout ==
  /\ reset.st = "WTOUT" /\ ~reset.tout /\ reset' = [reset EXCEPT !.tout = TRUE]
  /\ UNCHANGED <<doors, line, button, user, ap, tesoro, flags, kept, tries, doorPast>>

\* The second of arst_timer comes, and goes by; a correction of the clock may
\* jump over it.
Clock ==
  /\ \/ arst = "set" /\ arst' \in {"now", "past"}
     \/ arst = "now" /\ arst' = "past"
  /\ UNCHANGED <<doors, line, button, valid, arstok, ap, reset, tesoro, flags, kept, tries, doorPast>>

\* Mutant: a state of an earlier version comes back.
Restored_Old(wdt) ==
  IF ~wdt THEN "IDLE" ELSE IF kept.st = "OP_PREVE" THEN "WAIT_PREVE" ELSE kept.st

Restored(wdt) == IF wdt THEN kept.st ELSE "IDLE"

\* Power on starts idle; a watchdog reset goes on where the flash says.
ApBoot ==
  /\ tries.boots < MaxReboots /\ tries' = [tries EXCEPT !.boots = @ + 1]
  /\ dap' = [st |-> "IDLE", ripe |-> FALSE] /\ line' = FALSE /\ button' = FALSE
  /\ arstok' = TRUE /\ arst' = "off" /\ tesoro' = FALSE /\ flags' = kept.flags
  /\ \E wdt \in BOOLEAN :
       LET st == Restored(wdt) IN
       /\ ap' = [st |-> st, tout |-> FALSE, pc |-> "pass", ng |-> "keep", buf |-> {}]
       /\ valid' = (st = "OP_NORMAL")
       /\ reset' = [st |-> "IDLE", asked |-> ~wdt, tout |-> FALSE]
       /\ admitted' = (admitted /\ wdt)
       /\ missed' = missed \cup Miss("lost", tesoro) \cup Miss("restored", st = "OP_NORMAL" /\ ~valid)
                         \cup Miss("forgotten", wdt /\ open388)
  /\ UNCHANGED <<door, kept, given, early, open388>>

DoorMachine == WatchDoor \/ Reopened \/ Opened \/ Closed
ApStep ==
  \/ IdleAlarmed \/ Idle \/ Accept \/ UserIn \/ WaitIbutton \/ OpNormal \/ OpPreve
  \/ VisitEnds \/ VisitGoesOn \/ Flag \/ Save
ResetStep == ReportReset \/ CloseReset \/ ResetReported

DoorNext ==
  \/ DoorMoves \/ DoorRipe \/ DoorMachine \/ TakeTreasure \/ Button
  \/ ApStep \/ ResetStep \/ ApTimeout \/ ResetTimeout \/ Clock \/ ApBoot

DoorSpec == DoorInit /\ [][DoorNext]_doorVars

\* The tasks run and the timers run out; a pass comes every 50 ms, between two
\* changes of the door that take seconds to debounce.
DoorFairness ==
  /\ WF_doorVars(DoorRipe) /\ WF_doorVars(DoorMachine) /\ WF_doorVars(TakeTreasure)
  /\ SF_doorVars(ApStep) /\ SF_doorVars(ResetStep) /\ WF_doorVars(Clock)
  /\ WF_doorVars(ApTimeout) /\ WF_doorVars(ResetTimeout)
DoorFairSpec == DoorSpec /\ DoorFairness

-----------------------------------------------------------------------------
(* Properties.                                                             *)

\* Every variable has its type.
DoorTypeOK ==
  /\ door \in BOOLEAN /\ line \in BOOLEAN /\ button \in BOOLEAN
  /\ dap \in [st : {"IDLE", "WAIT", "ALRM", "WAIT2"}, ripe : BOOLEAN]
  /\ valid \in BOOLEAN /\ arstok \in BOOLEAN /\ arst \in {"off", "set", "now", "past"}
  /\ ap \in Ap /\ tesoro \in BOOLEAN /\ flags \subseteq {"APER13", "NG"}
  /\ reset \in [st : {"IDLE", "WTOUT"}, asked : BOOLEAN, tout : BOOLEAN]
  /\ kept \in [st : States, flags : SUBSET {"APER13", "NG"}]
  /\ tries \in [buttons : 0..MaxButtons, boots : 0..MaxReboots]
  /\ given \in BOOLEAN /\ early \in BOOLEAN /\ admitted \in BOOLEAN
  /\ open388 \in BOOLEAN /\ missed \subseteq Misses

\* AP_APR_VALID, which shortens alarms and unlocks the console, is set only in
\* a visit in which a user was accepted: only a watchdog reset can give it to
\* a visit whose door was just closed.
ValidAdmitted == valid => ap.st # "IDLE" /\ (admitted \/ "restored" \in missed)

\* The watchdog of the connection is suspended only for a valid user, and
\* never while the machine is idle or in alarm.
ArstHeld == ~arstok => valid /\ ap.st \notin {"IDLE", "OP_PREVE"}

\* An opening that is in alarm has had its treasure alarm asked for, through
\* restarts too: only a request a restart or another task lost is missing.
OpeningAlarmed ==
  ap.st = "OP_PREVE" \/ "NG" \in flags => tesoro \/ given \/ missed \cap {"gen", "lost"} # {}

\* A button presented before the last time the machine was idle opens nothing.
NoEarlyButton == ap.pc = "user" => ~early

\* An opening has its alarm or its user: one in alarm has had the alarm asked
\* for, a button from before lets nobody in, only who was let in is valid, and
\* the watchdog of the connection is suspended for such a user alone.
OpeningsRight == OpeningAlarmed /\ NoEarlyButton /\ ValidAdmitted /\ ArstHeld

\* The machine of the user sees the door the other machine has debounced,
\* unless its own read-modify-write undid the change.
LineFollows == line = (dap.st \in {"ALRM", "WAIT2"}) \/ "word" \in missed

\* FSM_FLAG_1 is in flash when AutoprotectTask is not about to write it,
\* unless it wrote an older buffer over AlarmDetectTask's.
FlagsSaved == ap.pc \in {"pass", "user", "reset"} => kept.flags = flags \/ "save" \in missed

\* Once the door stays closed everything comes to rest: idle, nobody valid,
\* no flag, the watchdog allowed.
DoorSettles ==
  <>[](~door) => \/ <>[](ap.st = "IDLE" /\ ~valid /\ arstok /\ flags = {} /\ kept.flags = {})
                 \/ <>("word" \in missed \/ "save" \in missed)

\* A door that stays open ends with a user or in alarm.
OpenDecided ==
  <>[]door => <>[](ap.st \in {"OP_NORMAL", "OP_PREVE"}) \/ <>("word" \in missed)

\* The watchdog is allowed again, unless the door stays open and the second of
\* arst_timer was missed.
ArstReturns == []<>arstok \/ <>[](line /\ arst = "past")

\* A reset that was reported is closed three minutes later; a watchdog reset
\* forgets it, for AP_reset_state is saved and never read.
ResetClosed == []<>(~open388) \/ <>("forgotten" \in missed)
=============================================================================
