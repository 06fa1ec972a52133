------------------------------ MODULE MCAlarm ------------------------------
(***************************************************************************)
(* The alarms for TLC.  Four parts are the modules themselves: ZoneAlarm   *)
(* with one kind of alarm, MacroHold with two partitions, ZoneBreak with   *)
(* two zones, Autoprotect with one button; the others are ZoneAlarm with   *)
(* both kinds, MacroHold with one partition, ZoneBreak with the panel's    *)
(* three zones and another, Autoprotect with a restart, and the marks of   *)
(* EventFlash with a station in MACROMODE, each in small instances.        *)
(* The parts have nothing in common here: a behaviour is one of a single   *)
(* part, and v1, v2, ... stand for the variables of that part, in the      *)
(* order of its module.                                                    *)
(***************************************************************************)
EXTENDS ZoneAlarm, MacroHold, ZoneBreak, Autoprotect, TLC

CONSTANTS m0, m1 \* the stations

VARIABLES
  part, \* which part the behaviour is of
  v1, v2, v3, v4, v5, v6, v7, v8, v9, v10, v11, v12, v13, v14, v15, v16, v17, v18, v19,
  v20 \* its variables

held == <<v1, v2, v3, v4, v5, v6, v7, v8, v9, v10, v11, v12, v13, v14, v15, v16, v17,
          v18, v19, v20>>

\* Bound: a behaviour of ZoneAlarm is followed until two mishaps have happened.
FewMishaps == Cardinality(raced) <= 1

\* A guard machine with one partition, other code changing the same word of flags.
One == INSTANCE MacroHold WITH
  Second <- FALSE, RingLen <- 3, MaxEvents <- 3, MaxOther <- 1, word <- v1, wptr <- v2,
  rptr <- v3, cnt <- v4, n <- v5, lpc <- v6, lmacro <- v7, st <- v8, due <- v9, apc <- v10,
  areg <- v11, awp <- v12, todo <- v13, wreg <- v14, oreg <- v15, nother <- v16,
  owed <- v17, closed <- v18, unseen <- v19, mishaps <- v20

\* Both kinds of alarm, which share the flags and the report.
Both == INSTANCE ZoneAlarm WITH
  Kinds <- {"ASAL", "INCE"}, nmax <- 0, NTop <- 2, Confirmed <- FALSE, MaxRequests <- 0,
  MaxMeddles <- 0, MaxBoots <- 0, zone <- v1, gen <- v2, alarm <- v3, alarm1 <- v4,
  det <- v5, auto <- v6, pass <- v7, hist <- v8, saved <- v9, lan <- v10, fresh <- v11,
  used <- v12, reported <- v13, asked <- v14, raced <- v15

\* The panel's three zones and another.
Zones4 == INSTANCE ZoneBreak WITH
  Zones <- {0, 1, 2, 7}, Volts <- {0, 2800}, Debounce <- 1, MaxChanges <- 4,
  MaxResets <- 0, volts <- v1, med0 <- v2, med1 <- v3, read <- v4, status <- v5,
  paused <- v6, drotu <- v7, timer <- v8, at <- v9, report <- v10, rotu <- v11, told <- v12,
  age <- v13, changes <- v14, resets <- v15

\* The door, the reset after power comes back, and a restart.
Return == INSTANCE Autoprotect WITH
  PowerOn <- TRUE, MaxButtons <- 0, MaxReboots <- 1, door <- v1, dap <- v2, line <- v3,
  button <- v4, valid <- v5, arstok <- v6, arst <- v7, ap <- v8, reset <- v9, tesoro <- v10,
  flags <- v11, kept <- v12, tries <- v13, given <- v14, early <- v15, admitted <- v16,
  open388 <- v17, missed <- v18

\* Two stations, one of them the Macro with two events held for it.
Marks == INSTANCE EventFlash WITH
  Monitors <- {m0, m1}, MacroMon <- m0, Held <- {2, 3}, Internal <- {}, DF_MAXEVENTS <- 5,
  IndexTop <- 6, TXEVENTBUFFERLEN <- 1, Window <- 2, MaxLogged <- 3, Pace <- 1,
  MaxBadWrites <- 0, MaxCrashes <- 1, MaxFormats <- 0, flash <- v1, savedWrptr <- v2,
  savedIndex <- v3, wrptr <- v4, eventIndex <- v5, queue <- v6, tx <- v7, logT <- v8,
  rabbit <- v9, logged <- v10, acked <- v11, format <- v12, spent <- v13, faults <- v14

ASSUME ConstantsFit ==
  /\ ConstantsAssumption
  /\ MacroAssumption
  /\ ZoneBreakAssumption
  /\ DoorAssumption
  /\ One!MacroAssumption
  /\ Both!ConstantsAssumption
  /\ Zones4!ZoneBreakAssumption
  /\ Return!DoorAssumption
  /\ Marks!ConstantsAssumption

\* The variables of the other parts.
Resting ==
  /\ v1 = 0 /\ v2 = 0 /\ v3 = 0 /\ v4 = 0 /\ v5 = 0 /\ v6 = 0 /\ v7 = 0 /\ v8 = 0
  /\ v9 = 0 /\ v10 = 0 /\ v11 = 0 /\ v12 = 0 /\ v13 = 0 /\ v14 = 0 /\ v15 = 0 /\ v16 = 0
  /\ v17 = 0 /\ v18 = 0 /\ v19 = 0 /\ v20 = 0

\* The parts that are the modules themselves, whose variables rest where they
\* begin in the other parts.
AsalInit == part = "asal" /\ Resting
AsalStep == part = "asal" /\ Next /\ UNCHANGED <<part, holdVars, breakVars, doorVars, held>>

TwoInit == part = "two" /\ Resting
TwoStep == part = "two" /\ HoldNext /\ UNCHANGED <<part, vars, breakVars, doorVars, held>>

BandsInit == part = "bands" /\ Resting
BandsStep == part = "bands" /\ BreakNext /\ UNCHANGED <<part, vars, holdVars, doorVars, held>>

CabinetInit == part = "door" /\ Resting
CabinetStep == part = "door" /\ DoorNext /\ UNCHANGED <<part, vars, holdVars, breakVars, held>>

\* The other parts.
modules == <<vars, holdVars, breakVars, doorVars>>

OneInit == part = "one" /\ One!HoldInit
OneStep == part = "one" /\ One!HoldNext /\ UNCHANGED <<part, modules>>

BothInit ==
  /\ part = "both" /\ Both!Init
  /\ v16 = 0 /\ v17 = 0 /\ v18 = 0 /\ v19 = 0 /\ v20 = 0
BothStep ==
  /\ part = "both" /\ Both!Next
  /\ UNCHANGED <<part, modules, v16, v17, v18, v19, v20>>

Zones4Init ==
  /\ part = "zones" /\ Zones4!BreakInit
  /\ v16 = 0 /\ v17 = 0 /\ v18 = 0 /\ v19 = 0 /\ v20 = 0
Zones4Step ==
  /\ part = "zones" /\ Zones4!BreakNext
  /\ UNCHANGED <<part, modules, v16, v17, v18, v19, v20>>

ReturnInit ==
  /\ part = "boot" /\ Return!DoorInit
  /\ v19 = 0 /\ v20 = 0
ReturnStep ==
  /\ part = "boot" /\ Return!DoorNext
  /\ UNCHANGED <<part, modules, v19, v20>>

MarksInit ==
  /\ part = "marks" /\ Marks!Init
  /\ v15 = 0 /\ v16 = 0 /\ v17 = 0 /\ v18 = 0 /\ v19 = 0 /\ v20 = 0
MarksStep ==
  /\ part = "marks" /\ Marks!Next
  /\ UNCHANGED <<part, modules, v15, v16, v17, v18, v19, v20>>

SuiteInit ==
  /\ Init /\ HoldInit /\ BreakInit /\ DoorInit
  /\ \/ AsalInit
     \/ TwoInit
     \/ BandsInit
     \/ CabinetInit
     \/ OneInit
     \/ BothInit
     \/ Zones4Init
     \/ ReturnInit
     \/ MarksInit
SuiteNext ==
  \/ AsalStep
  \/ TwoStep
  \/ BandsStep
  \/ CabinetStep
  \/ OneStep
  \/ BothStep
  \/ Zones4Step
  \/ ReturnStep
  \/ MarksStep
SuiteSpec == SuiteInit /\ [][SuiteNext]_<<part, modules, held>>

-----------------------------------------------------------------------------
(* The properties of the parts; StationKnows and AlarmSaved are in         *)
(* ZoneAlarm, NotForgotten and SentOnce in MacroHold, FullDebounce in      *)
(* ZoneBreak and OpeningsRight in Autoprotect.                             *)

\* The variables of each part keep their types.
TypesOK ==
  CASE part = "asal" -> TypeOK              [] part = "two" -> HoldTypeOK
    [] part = "bands" -> BreakTypeOK        [] part = "door" -> DoorTypeOK
    [] part = "one" -> One!HoldTypeOK       [] part = "both" -> Both!TypeOK
    [] part = "zones" -> Zones4!BreakTypeOK [] part = "boot" -> Return!DoorTypeOK
    [] part = "marks" -> Marks!TypeOK

\* With two kinds of alarm (ZoneAlarm), and for the broken zones (ZoneBreak), the
\* station's picture is the panel's between two reports, and the flash says which
\* alarms are on.  MacroHold: ring 0 holds as many events as it counts, inside the
\* array, and with one partition too what is held for the Macro is not forgotten.
\* Autoprotect: the user's machine sees the door the other has debounced, the flags
\* are in flash, and through a restart too an opening has its alarm or its user.
OthersKnow ==
  /\ part = "both" => Both!StationKnows /\ Both!AlarmSaved
  /\ part = "bands" => BreaksKnown
  /\ part = "zones" => Zones4!BreaksKnown
  /\ part = "two" => PositionInside /\ CountSound
  /\ part = "one" => One!NotForgotten /\ One!PositionInside /\ One!CountSound
  /\ part = "door" => LineFollows /\ FlagsSaved
  /\ part = "boot" => Return!OpeningsRight

\* No step goes too far.  ZoneBreak: with four zones too no break is reported
\* before its whole debounce, and no restore of a line that reads as broken but
\* for the fault of the converter.  MacroHold, with one partition: an event
\* that a data event or a release has closed is not sent.  EventFlash: no step
\* takes an acknowledgement mark from a record.
OthersKeep ==
  [][/\ part = "bands" => RestoreTrue
     /\ part = "zones" => Zones4!WholeDebounce /\ Zones4!RestoreTrue
     /\ part = "one" => One!SendsOpen
     /\ part = "marks" => Marks!KeepsTags]_<<part, breakVars, held>>
=============================================================================
