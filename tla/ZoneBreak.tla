----------------------------- MODULE ZoneBreak -----------------------------
(***************************************************************************)
(* Broken zone lines: ZoneScanTask (src/Application/zonescan.c) reads the  *)
(* voltage of each zone and classifies it, fsm_deteccion_rotura            *)
(* (src/Application/fsm_deteccion.c), run by AlarmDetectTask, debounces    *)
(* the breaks and reports them (E380, R380).  The two share Status_Zonas[] *)
(* with no lock, the eight machines share one debounce timer, and each     *)
(* report blocks AlarmDetectTask in the middle of its loop over the zones. *)
(*                                                                         *)
(* Left out: the sixteen contacts of zones 8 to 15 and the digital inputs, *)
(* the battery and the carrier, fsm_ppon_wdog, the alarm asked for by      *)
(* other parts (SysFlag_AP_GenAlarm), event 941, and the measure of the    *)
(* voltage that goes with a report.                                        *)
(***************************************************************************)
EXTENDS Naturals, FiniteSets

CONSTANTS
    Zones,        \* the zones of the model, 0 .. 7 in the code
    Volts,        \* the readings a line can give, 0 .. 4095 in the code
    Debounce,     \* ticks of dbnc_rotu_timer, 1000 in the code
    MaxChanges,   \* bound: changes of the lines
    MaxResets     \* bound: resets of the alarm, pauses of the scanner

ZoneBreakAssumption ==
    /\ Zones \subseteq 0 .. 7 /\ Zones # {} /\ Volts \subseteq 0 .. 4095
    /\ Debounce \in Nat \ {0} /\ MaxChanges \in Nat /\ MaxResets \in Nat

\* The three zones of the panel itself: fire, hold-up, treasure.
Main == {0, 1, 2}

VARIABLES
    volts,     \* the lines
    med0,      \* zvaluemed0[]: the reading before the last
    med1,      \* zvaluemed1[]
    read,      \* the readings of this round are in
    status,    \* Status_Zonas[]
    paused,    \* NOZSCAN_FLAG: the peripherals' supply is being cycled
    drotu,     \* drotu_state[]
    timer,     \* dbnc_rotu_timer
    at,        \* the zone AlarmDetectTask is at, 8 outside the loop
    report,    \* what it is about to log: "none", "event", "restore"
    rotu,      \* BaseAlarmPkt_alarm & ROTU_bit
    told,      \* history: the zones whose break the station knows of
    age,       \* history: ticks since the machine saw the zone broken
    changes, resets

lines     == <<volts, changes>>
scan      == <<med0, med1, read, status>>
machine   == <<drotu, at, report, rotu>>
breakVars == <<lines, scan, paused, machine, timer, told, age, resets>>

-----------------------------------------------------------------------------
(* The scanner. *)

\* The bands of include/zonescan.h.
Band(v) ==
    CASE v < 819 \/ v >= 3151 -> "broken"
      [] v \in 819 .. 1900 -> "event"
      [] v \in 1901 .. 2199 -> "indef"
      [] v \in 2200 .. 3150 -> "normal"

\* zvaluemed1 > 0.5*zvaluemed0 && zvaluemed1 < 1.1*zvaluemed0
Steady(old, new) == 2 * new > old /\ 10 * new < 11 * old

\* A reading far from the last one is only believed if the line is broken.
Classified(z) ==
    IF Steady(med0[z], med1[z]) \/ Band(med1[z]) = "broken" THEN Band(med1[z]) ELSE status[z]

\* Mutant: two broken zones are enough.
Emergency_Two(s) == Main \subseteq Zones /\ s[0] = "broken" /\ s[1] = "broken"

\* All of the panel's zones broken at once is taken for a fault of the
\* converter: alarm in the three, and zone 7 broken.
Emergency(s) == Main \subseteq Zones /\ \A z \in Main : s[z] = "broken"

Forced(s) ==
    IF Emergency(s)
      THEN [z \in Zones |-> IF z \in Main THEN "event" ELSE IF z = 7 THEN "broken" ELSE s[z]]
      ELSE s

BreakInit ==
    /\ volts \in [Zones -> {v \in Volts : Band(v) = "normal"}]
    /\ med0 = volts /\ med1 = volts /\ read = FALSE
    /\ status = [z \in Zones |-> "normal"]
    /\ paused = FALSE
    /\ drotu = [z \in Zones |-> "idle"] /\ timer = 0 /\ at = 8 /\ report = "none"
    /\ rotu = FALSE
    /\ told = {} /\ age = [z \in Zones |-> 0]
    /\ changes = 0 /\ resets = 0

LineChanges ==
    /\ changes < MaxChanges
    /\ changes' = changes + 1
    /\ \E z \in Zones : \E v \in Volts \ {volts[z]} : volts' = [volts EXCEPT ![z] = v]
    /\ UNCHANGED <<scan, paused, machine, timer, told, age, resets>>

\* One round of the multiplexer.  NOZSCAN_FLAG is looked at before it alone.
ReadZones ==
    /\ ~read /\ ~paused
    /\ med0' = med1 /\ med1' = volts
    /\ read' = TRUE
    /\ UNCHANGED <<lines, status, paused, machine, timer, told, age, resets>>

Classify ==
    /\ read
    /\ status' = Forced([z \in Zones |-> Classified(z)])
    /\ read' = FALSE
    /\ UNCHANGED <<lines, med0, med1, paused, machine, timer, told, age, resets>>

-----------------------------------------------------------------------------
(* fsm_deteccion_rotura. *)

\* Mutant: the loop runs one zone too far.
ZoneAfter_Plus(z) == z + 1
ZoneAfter(z) == IF \E y \in Zones : y > z
                 THEN CHOOSE y \in Zones : y > z /\ \A x \in Zones : x > z => y <= x
                 ELSE 8

\* The loop over the zones begins, unless the scanner is paused.
BeginPass ==
    /\ at = 8 /\ ~paused
    /\ at' = CHOOSE z \in Zones : \A y \in Zones : z <= y
    /\ UNCHANGED <<lines, scan, paused, drotu, timer, report, rotu, told, age, resets>>

\* Mutant: a timer that is running is left as it is.
Armed_Kept == IF timer = 0 THEN Debounce ELSE timer
Armed == Debounce

\* ROTU_IDLE.  age is Debounce when the whole debounce has passed.
SeeBreak ==
    /\ at \in Zones /\ report = "none" /\ drotu[at] = "idle"
    /\ IF status[at] = "broken"
         THEN /\ drotu' = [drotu EXCEPT ![at] = "wait"] /\ timer' = Armed
              /\ age' = [age EXCEPT ![at] = 0]
         ELSE UNCHANGED <<drotu, timer, age>>
    /\ at' = ZoneAfter(at)
    /\ UNCHANGED <<lines, scan, paused, report, rotu, told, resets>>

\* ROTU_WAIT: the timer is looked at first.  The report comes after a delay.
DebounceOver ==
    /\ at \in Zones /\ report = "none" /\ drotu[at] = "wait" /\ timer = 0
    /\ drotu' = [drotu EXCEPT ![at] = "alrm"]
    /\ rotu' = (rotu \/ at \in Main)
    /\ report' = "event"
    /\ UNCHANGED <<lines, scan, paused, at, timer, told, age, resets>>

StillWaiting ==
    /\ at \in Zones /\ report = "none" /\ drotu[at] = "wait" /\ timer > 0
    /\ drotu' = IF status[at] = "broken" THEN drotu ELSE [drotu EXCEPT ![at] = "idle"]
    /\ at' = ZoneAfter(at)
    /\ UNCHANGED <<lines, scan, paused, timer, report, rotu, told, age, resets>>

\* Mutant: the alarm that was reset does not come back.
Again_Never == FALSE

\* The line is still broken and the alarm has been reset.
Again == ~rotu /\ at \in Main

\* ROTU_ALRM.
InAlarm ==
    /\ at \in Zones /\ report = "none" /\ drotu[at] = "alrm"
    /\ CASE status[at] # "broken" ->
              /\ drotu' = [drotu EXCEPT ![at] = "idle"] /\ report' = "restore"
              /\ UNCHANGED <<rotu, at>>
         [] status[at] = "broken" /\ Again ->
              rotu' = TRUE /\ report' = "event" /\ UNCHANGED <<drotu, at>>
         [] OTHER -> at' = ZoneAfter(at) /\ UNCHANGED <<drotu, rotu, report>>
    /\ UNCHANGED <<lines, scan, paused, timer, told, age, resets>>

\* Mutant: a restore is not logged while another zone is in alarm.
Told_Shared == IF report = "event" THEN told \cup {at}
               ELSE IF rotu THEN told ELSE told \ {at}
Told == IF report = "event" THEN told \cup {at} ELSE told \ {at}

\* Mutant: only the breaks are logged.
Report_NoRestore ==
    /\ report # "none"
    /\ told' = IF report = "event" THEN told \cup {at} ELSE told
    /\ report' = "none"
    /\ at' = ZoneAfter(at)
    /\ UNCHANGED <<lines, scan, paused, drotu, timer, rotu, age, resets>>

\* logCidEvent, after a delay of 700 ms; then the next zone.
Report ==
    /\ report # "none"
    /\ told' = Told
    /\ report' = "none"
    /\ at' = ZoneAfter(at)
    /\ UNCHANGED <<lines, scan, paused, drotu, timer, rotu, age, resets>>

\* AlarmDetectTask: the machine, and the code that resets the alarm or cycles
\* the supply (autoreset_logo3d, fsm_rotura485), which runs outside of it.
Detect == BeginPass \/ SeeBreak \/ DebounceOver \/ StillWaiting \/ InAlarm \/ Report

ResetAlarm ==
    /\ at = 8 /\ rotu /\ resets < MaxResets
    /\ rotu' = FALSE /\ resets' = resets + 1
    /\ UNCHANGED <<lines, scan, paused, drotu, timer, at, report, told, age>>

Pause ==
    /\ at = 8 /\ ~paused /\ resets < MaxResets
    /\ paused' = TRUE /\ resets' = resets + 1
    /\ UNCHANGED <<lines, scan, machine, timer, told, age>>

Resume ==
    /\ at = 8 /\ paused
    /\ paused' = FALSE
    /\ UNCHANGED <<lines, scan, machine, timer, told, age, resets>>

\* The interrupt of the millisecond.
Tick ==
    /\ timer > 0
    /\ timer' = timer - 1
    /\ age' = [z \in Zones |-> IF age[z] < Debounce THEN age[z] + 1 ELSE age[z]]
    /\ UNCHANGED <<lines, scan, paused, machine, told, resets>>

BreakNext ==
    \/ LineChanges \/ ReadZones \/ Classify \/ Detect
    \/ ResetAlarm \/ Pause \/ Resume \/ Tick

BreakSpec == BreakInit /\ [][BreakNext]_breakVars

\* The scanner and the detection run, time passes, the supply comes back.
BreakFairness ==
    /\ SF_breakVars(ReadZones) /\ WF_breakVars(Classify) /\ SF_breakVars(Detect)
    /\ SF_breakVars(Resume) /\ WF_breakVars(Tick)
BreakFairSpec == BreakSpec /\ BreakFairness

-----------------------------------------------------------------------------
(* Properties. *)

\* The variables keep their types.
BreakTypeOK ==
    /\ volts \in [Zones -> Volts] /\ med0 \in [Zones -> Volts] /\ med1 \in [Zones -> Volts]
    /\ status \in [Zones -> {"normal", "event", "indef", "broken"}]
    /\ read \in BOOLEAN /\ paused \in BOOLEAN /\ rotu \in BOOLEAN
    /\ drotu \in [Zones -> {"idle", "wait", "alrm"}] /\ timer \in 0 .. Debounce
    /\ at \in Zones \cup {8} /\ report \in {"none", "event", "restore"}
    /\ told \subseteq Zones /\ age \in [Zones -> 0 .. Debounce]
    /\ changes \in 0 .. MaxChanges /\ resets \in 0 .. MaxResets

\* A break is reported only when the whole debounce has passed since the
\* machine saw it, though the eight machines share one timer.
WholeDebounce == \A z \in Zones : drotu[z] = "wait" /\ drotu'[z] = "alrm" => age[z] = Debounce
FullDebounce == [][WholeDebounce]_breakVars

\* The line reads as broken, or it jumps, so that its status is the one before.
Doubtful(z) == Band(med1[z]) = "broken" \/ ~Steady(med0[z], med1[z])

\* A restore is logged only for a line that reads as whole, or when the panel's
\* three zones have just been found broken at once, which is shown as alarms.
RestoreTrue ==
    report = "none" /\ report' = "restore" /\ ~read =>
        \/ Band(med1[at]) # "broken"
        \/ at \in Main /\ \A z \in Main : Doubtful(z)
RestoreIsTrue == [][RestoreTrue]_breakVars

\* Between reports the station knows of the breaks the machines hold.
BreaksKnown == report = "none" => told = {z \in Zones : drotu[z] = "alrm"}

\* In the end the station knows the broken zones and no other, whatever the
\* order of breaks, repairs, pauses of the scanner and resets of the alarm.
BreaksSettle == <>[](told = {z \in Zones : status[z] = "broken"})

\* The alarm stands in the end while a line of the panel's zones is broken.
AlarmStands == <>[]((\E z \in Main \cap Zones : status[z] = "broken") => rotu)
=============================================================================
