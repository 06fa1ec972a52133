------------------------------ MODULE ZoneAlarm ------------------------------
(***************************************************************************)
(* The alarms of a zone, fire (INCE) and hold-up (ASAL), from the zone to  *)
(* the report and the automatic reset: what AlarmDetectTask does in each   *)
(* pass (DeteccionEventos, fsm_deteccion_incendio and _asalto,             *)
(* autoreset_logo3d, recharge_alarm), the copies in flash a restart reads, *)
(* and the tasks that ask for an alarm or reset one meanwhile.             *)
(*                                                                         *)
(* logCidEvent blocks its caller for half a second at least: a step ends   *)
(* there.  Tasks of lower priority (AutoprotectTask, LAN485_Task,          *)
(* FsmLedsTask) may run then, the console in App_Task_1 at any point.      *)
(* What these machines do with the tamper bit is left out.                 *)
(***************************************************************************)
EXTENDS Integers, FiniteSets

CONSTANTS
  Kinds,       \* alarms, a subset of "ASAL", "INCE"
  nmax,        \* nmax_asal, nmax_ince: signals after which none is recharged (20)
  NTop,        \* the counts stop there (200)
  Confirmed,   \* the station confirms a reset: paptslot = 0
  MaxRequests, \* bound: alarms asked for by other tasks
  MaxMeddles,  \* bound: resets from the console and recharges by other tasks
  MaxBoots     \* bound: restarts

ConstantsAssumption ==
  /\ Kinds \subseteq {"ASAL", "INCE"} /\ Confirmed \in BOOLEAN
  /\ nmax \in Nat /\ NTop \in Nat /\ nmax + 1 < NTop
  /\ MaxRequests \in Nat /\ MaxMeddles \in Nat /\ MaxBoots \in Nat

VARIABLES
  zone,    \* Status_Zonas[] of each kind's zone
  gen,     \* SysFlag_AP_GenAlarm
  alarm,   \* BaseAlarmPkt_alarm
  alarm1,  \* BaseAlarm_alarm_1, the alarms of the previous report
  det,     \* dasa_state, dinc_state, and whether the debounce timer ran out
  auto,    \* the automatic reset of each kind: see AutoReset
  pass,    \* where AlarmDetectTask is in its pass, and its locals
  hist,    \* the alarms in flash (AlarmWriteHistory)
  saved,   \* the counts in flash (write_nsignals)
  lan,     \* LAN485_Task: the read-modify-write or the save it is in
  fresh,   \* a reset flag of SystemFlag is set: the system has just started
  used,    \* inputs used of those bounded
  reported,\* history: alarms whose last report was an activation
  asked,   \* history: alarms asked for and not yet raised
  raced    \* history: the races that have happened

store == <<hist, saved>>
history == <<reported, asked, raced>>
vars == <<zone, gen, alarm, alarm1, det, auto, pass, store, lan, fresh, used, history>>

(***************************************************************************)
(* xxxx_state, xxxx_autr_counter (confirmations wanted), n_xxxx, and       *)
(* whether the time of the reset has come.                                 *)
(***************************************************************************)
AutoReset == [st : {"NORMAL", "ALRMED", "MEMALR"}, counter : 0..1, n : 0..NTop, due : BOOLEAN]

(***************************************************************************)
(* "reread": an alarm was reset between the comparison in DeteccionEventos *)
(* and the copy at its end.  "boot": a restart with an alarm not reported, *)
(* or one that changed before AutoprotectTask cleared the reset flag.  "word": a write of      *)
(* the console fell into a read-modify-write of AlarmDetectTask, and is     *)
(* lost.  "gen": one of LAN485_Task was overtaken.  "save": LAN485_Task    *)
(* wrote an old copy of the alarms to flash.  "console": an alarm reset by *)
(* the console is not saved.  "limit": a restart with a count above nmax.  *)
(***************************************************************************)
Races == {"reread", "boot", "word", "gen", "save", "console", "limit"}
Race(kind, cond) == IF cond THEN {kind} ELSE {}

At(pc) == [pc |-> pc, kind |-> "none", falls |-> {}, rises |-> {}, left |-> {}]
LanIdle == [pc |-> "poll", word |-> {}, kind |-> "none"]

Init ==
  /\ zone = [k \in Kinds |-> "NORMAL"]
  /\ gen = {} /\ alarm = {} /\ alarm1 = {}
  /\ det = [k \in Kinds |-> [st |-> "IDLE", ripe |-> FALSE]]
  /\ auto = [k \in Kinds |-> [st |-> "NORMAL", counter |-> 0, n |-> 0, due |-> FALSE]]
  /\ pass = At("start")
  /\ hist = {} /\ saved = [k \in Kinds |-> 0]
  /\ lan = LanIdle /\ fresh = FALSE
  /\ used = [requests |-> 0, meddles |-> 0, boots |-> 0]
  /\ reported = {} /\ asked = {} /\ raced = {}

-----------------------------------------------------------------------------
(* recharge_alarm.                                                         *)

\* The time of the reset starts again; the door, unless it is open by a
\* valid user, makes a confirmation of the station necessary.
Recharged(a) == {[a EXCEPT !.st = "ALRMED", !.due = FALSE, !.counter = c] :
                   c \in IF Confirmed THEN {0, 1} ELSE {0}}

\* Mutant: one signal more is counted.
Counted_Past(a) == [a EXCEPT !.n = IF @ <= NTop THEN @ + 1 ELSE @]

Counted(a) == [a EXCEPT !.n = IF @ < NTop THEN @ + 1 ELSE @]

\* Above nmax nothing is recharged, only counted.  A hold-up within five
\* minutes of the closing of the volumetric partition counts as nmax + 1
\* signals, which is not saved.
Recharge(k) ==
  \/ \E a \in (IF auto[k].n <= nmax THEN Recharged(auto[k]) ELSE {auto[k]}) :
       /\ auto' = [auto EXCEPT ![k] = Counted(a)]
       /\ saved' = IF auto[k].n < NTop THEN [j \in Kinds |-> auto'[j].n] ELSE saved
  \/ /\ k = "ASAL" /\ used.meddles < MaxMeddles
     /\ \E a \in Recharged(auto[k]) : auto' = [auto EXCEPT ![k] = [a EXCEPT !.n = nmax + 1]]
     /\ UNCHANGED saved

-----------------------------------------------------------------------------
(* A pass of AlarmDetectTask.                                              *)

Turn(left, first) == IF first \in left THEN first ELSE CHOOSE k \in left : TRUE

\* DeteccionEventos compares; right after a start there is nothing to compare.
Compare ==
  /\ pass.pc \in {"start", "events"}
  /\ LET old == IF fresh THEN alarm ELSE alarm1 IN
     /\ alarm1' = old
     /\ pass' = [At("falls") EXCEPT !.falls = old \ alarm, !.rises = alarm \ old]
  /\ raced' = raced \cup Race("boot", fresh /\ alarm # alarm1)
  /\ UNCHANGED <<zone, gen, alarm, det, auto, store, lan, fresh, used, reported, asked>>

ReportFall ==
  /\ pass.pc = "falls" /\ pass.falls # {}
  /\ LET k == Turn(pass.falls, "ASAL") IN
     /\ pass' = [pass EXCEPT !.falls = @ \ {k}]
     /\ reported' = reported \ {k}
  /\ UNCHANGED <<zone, gen, alarm, alarm1, det, auto, store, lan, fresh, used, asked, raced>>

ReportRise ==
  /\ pass.pc = "falls" /\ pass.falls = {} /\ pass.rises # {}
  /\ LET k == Turn(pass.rises, "ASAL") IN
     /\ pass' = [pass EXCEPT !.pc = "risen", !.kind = k, !.rises = @ \ {k}]
     /\ reported' = reported \cup {k}
  /\ UNCHANGED <<zone, gen, alarm, alarm1, det, auto, store, lan, fresh, used, asked, raced>>

RiseRecharged ==
  /\ pass.pc = "risen" /\ Recharge(pass.kind)
  /\ pass' = [pass EXCEPT !.pc = "falls", !.kind = "none"]
  /\ UNCHANGED <<zone, gen, alarm, alarm1, det, hist, lan, fresh, used, history>>

\* Mutant: an alarm that ended stays in the copy.
Latch_Kept == alarm1' = alarm1 \cup alarm

\* The copy of the alarms is read again at the end.
Latch == alarm1' = alarm

EventsDone ==
  /\ pass.pc = "falls" /\ pass.falls = {} /\ pass.rises = {}
  /\ Latch
  /\ pass' = [At("zones") EXCEPT !.left = Kinds]
  /\ UNCHANGED <<zone, gen, alarm, det, auto, store, lan, fresh, used, history>>

NextZone(k) ==
  pass' = IF pass.left = {k} THEN [At("resets") EXCEPT !.left = Kinds]
          ELSE [pass EXCEPT !.left = @ \ {k}]

\* Mutant: the flash is not told.
Raise_Unsaved(k) == alarm' = alarm \cup {k} /\ hist' = hist

\* The alarm is set, and saved if it was not.
Raise(k) ==
  /\ alarm' = alarm \cup {k}
  /\ hist' = IF k \in alarm THEN hist ELSE alarm \cup {k}

\* Mutant: the reset is reported and not done.
Lower_Not(k) == UNCHANGED <<alarm, hist>>

Lower(k) ==
  /\ alarm' = alarm \ {k}
  /\ hist' = IF k \in alarm THEN alarm \ {k} ELSE hist

Turned(k) == pass.pc = "zones" /\ k \in pass.left /\ k = Turn(pass.left, "INCE")

\* Mutant: a request waits for its machine to be idle.
Asked_Idle(k) == k \in gen /\ det[k].st = "IDLE"

Asked(k) == k \in gen

\* What another task asked for.  The machine goes to ALRM, and leaves it in
\* the same pass if its zone is not in alarm.
TakeRequest(k) ==
  /\ Turned(k) /\ Asked(k)
  /\ gen' = gen \ {k}
  /\ det' = [det EXCEPT ![k].st = IF zone[k] = "EVENTO" THEN "ALRM" ELSE "IDLE"]
  /\ Raise(k)
  /\ IF k = "ASAL" /\ k \notin alarm THEN Recharge(k) ELSE UNCHANGED <<auto, saved>>
  /\ asked' = asked \ {k}
  /\ NextZone(k)
  /\ UNCHANGED <<zone, alarm1, lan, fresh, used, reported, raced>>

\* The zone is looked at: quiet, or not for half a second yet.
Watch(k) ==
  LET d == det[k]  z == zone[k]
      Goes(st) == det' = [det EXCEPT ![k] = [st |-> st, ripe |-> FALSE]]
  IN /\ Turned(k) /\ ~Asked(k)
     /\ \/ d.st = "IDLE" /\ z = "EVENTO" /\ Goes("WAIT")
        \/ d.st = "IDLE" /\ z = "INDEF" /\ Goes("INDEF")
        \/ d.st = "IDLE" /\ z = "NORMAL" /\ UNCHANGED det
        \/ d.st = "WAIT" /\ ~d.ripe /\ (IF z = "EVENTO" THEN UNCHANGED det ELSE Goes("IDLE"))
        \/ d.st = "INDEF" /\ d.ripe /\ Goes("INDEF1")
        \/ d.st \in {"INDEF", "INDEF1"} /\ ~d.ripe
             /\ (IF z = "INDEF" THEN UNCHANGED det ELSE Goes("IDLE"))
        \/ d.st = "ALRM" /\ z # "EVENTO" /\ Goes("IDLE")
     /\ NextZone(k)
     /\ UNCHANGED <<zone, gen, alarm, alarm1, auto, store, lan, fresh, used, history>>

\* Mutant: an alarm that was reset is not raised again.
HoldOn_Once(k) == UNCHANGED <<alarm, hist>>

\* A zone that is still in alarm sets it again after a reset.
HoldOn(k) == Raise(k)

StillInAlarm(k) ==
  /\ Turned(k) /\ ~Asked(k)
  /\ det[k].st = "ALRM" /\ zone[k] = "EVENTO" /\ HoldOn(k)
  /\ NextZone(k)
  /\ UNCHANGED <<zone, gen, alarm1, det, auto, saved, lan, fresh, used, history>>

\* Half a second of alarm: it is set and its zone reported, whatever the zone
\* has done since.
Trigger(k) ==
  /\ Turned(k) /\ ~Asked(k) /\ det[k].st = "WAIT" /\ det[k].ripe
  /\ det' = [det EXCEPT ![k] = [st |-> "ALRM", ripe |-> FALSE]]
  /\ Raise(k)
  /\ pass' = [pass EXCEPT !.pc = "triggered", !.kind = k]
  /\ UNCHANGED <<zone, gen, alarm1, auto, saved, lan, fresh, used, history>>

Triggered ==
  /\ pass.pc = "triggered" /\ Recharge(pass.kind)
  /\ pass' = IF pass.left = {pass.kind} THEN [At("resets") EXCEPT !.left = Kinds]
             ELSE [At("zones") EXCEPT !.left = pass.left \ {pass.kind}]
  /\ UNCHANGED <<zone, gen, alarm, alarm1, det, hist, lan, fresh, used, history>>

\* NOZSCAN_FLAG: the peripherals are without supply.
NotScanned(k) ==
  /\ Turned(k) /\ NextZone(k)
  /\ UNCHANGED <<zone, gen, alarm, alarm1, det, auto, store, lan, fresh, used, history>>

NextReset(k) ==
  pass' = IF pass.left = {k} THEN At("events") ELSE [At("resets") EXCEPT !.left = pass.left \ {k}]

Resets(k) == pass.pc = "resets" /\ k = Turn(pass.left, "ASAL")

\* An alarm that nobody has recharged.
Arm(k) ==
  /\ Resets(k) /\ auto[k].st # "ALRMED" /\ k \in alarm
  /\ Recharge(k) /\ NextReset(k)
  /\ UNCHANGED <<zone, gen, alarm, alarm1, det, hist, lan, fresh, used, history>>

Due(k) == auto[k].st = "ALRMED" /\ auto[k].due /\ auto[k].counter = 0

NoReset(k) ==
  /\ Resets(k) /\ ~Due(k) /\ (auto[k].st # "ALRMED" => k \notin alarm)
  /\ NextReset(k)
  /\ UNCHANGED <<zone, gen, alarm, alarm1, det, auto, store, lan, fresh, used, history>>

\* The reset is reported, which blocks, and then done.
Remember(k) ==
  /\ Resets(k) /\ Due(k)
  /\ auto' = [auto EXCEPT ![k].st = "MEMALR"]
  /\ pass' = [pass EXCEPT !.pc = "resetting", !.kind = k]
  /\ UNCHANGED <<zone, gen, alarm, alarm1, det, store, lan, fresh, used, history>>

\* Mutant: the count goes on.
Restart_Counting(k) == UNCHANGED <<auto, saved>>

Restart(k) ==
  /\ auto' = [auto EXCEPT ![k].n = 0] /\ saved' = [j \in Kinds |-> auto'[j].n]

Reset ==
  /\ pass.pc = "resetting"
  /\ LET k == pass.kind IN Restart(k) /\ Lower(k) /\ NextReset(k)
  /\ UNCHANGED <<zone, gen, alarm1, det, lan, fresh, used, history>>

-----------------------------------------------------------------------------
(* The other tasks.                                                        *)

\* ZoneScan_Task classifies what it measures.
ZoneChanges ==
  /\ \E k \in Kinds, z \in {"NORMAL", "EVENTO", "INDEF"} : zone' = [zone EXCEPT ![k] = z]
  /\ UNCHANGED <<gen, alarm, alarm1, det, auto, pass, store, lan, fresh, used, history>>

\* dbnc_xxxx_timer runs out.
Debounced(k) ==
  /\ det[k].st \in {"WAIT", "INDEF"} /\ det' = [det EXCEPT ![k].ripe = TRUE]
  /\ UNCHANGED <<zone, gen, alarm, alarm1, auto, pass, store, lan, fresh, used, history>>

\* The time of the automatic reset comes; the station confirms it (RF_Poll).
ResetTime(k) ==
  /\ auto[k].st = "ALRMED" /\ auto' = [auto EXCEPT ![k].due = TRUE]
  /\ UNCHANGED <<zone, gen, alarm, alarm1, det, pass, store, lan, fresh, used, history>>

RF_Poll(k) ==
  /\ auto[k].counter > 0 /\ auto' = [auto EXCEPT ![k].counter = @ - 1]
  /\ UNCHANGED <<zone, gen, alarm, alarm1, det, pass, store, lan, fresh, used, history>>

Blocked == pass.pc # "resets" \/ pass.left = Kinds

\* LAN485_Task asks for an alarm: load, store and recharge.  FsmLedsTask asks
\* without recharging it.
LanRequest ==
  /\ lan.pc = "poll" /\ Blocked /\ used.requests < MaxRequests
  /\ \E k \in Kinds : lan' = [pc |-> "gen", word |-> gen, kind |-> k]
  /\ used' = [used EXCEPT !.requests = @ + 1]
  /\ UNCHANGED <<zone, gen, alarm, alarm1, det, auto, pass, store, fresh, history>>

LanStore ==
  /\ lan.pc = "gen" /\ Blocked
  /\ gen' = lan.word \cup {lan.kind}
  /\ asked' = asked \cup {lan.kind}
  /\ raced' = raced \cup Race("gen", lan.word # gen)
  /\ lan' \in {[lan EXCEPT !.pc = "recharge", !.word = {}], LanIdle}
  /\ UNCHANGED <<zone, alarm, alarm1, det, auto, pass, store, fresh, used, reported>>

LanRecharge ==
  /\ lan.pc = "recharge" /\ Blocked /\ Recharge(lan.kind) /\ lan' = LanIdle
  /\ UNCHANGED <<zone, gen, alarm, alarm1, det, pass, hist, fresh, used, history>>

\* It saves the alarms for an alarm of its own: the buffer, and the write.
LanSave ==
  /\ lan.pc = "poll" /\ Blocked /\ used.meddles < MaxMeddles
  /\ lan' = [LanIdle EXCEPT !.pc = "save", !.word = alarm]
  /\ used' = [used EXCEPT !.meddles = @ + 1]
  /\ UNCHANGED <<zone, gen, alarm, alarm1, det, auto, pass, store, fresh, history>>

LanWrite ==
  /\ lan.pc = "save" /\ Blocked
  /\ hist' = lan.word /\ lan' = LanIdle
  /\ raced' = raced \cup Race("save", lan.word # alarm)
  /\ UNCHANGED <<zone, gen, alarm, alarm1, det, auto, pass, saved, fresh, used, reported, asked>>

\* The console asks for one; AlarmDetectTask, interrupted in a
\* read-modify-write, may undo it.
ConsoleRequest ==
  /\ used.requests < MaxRequests /\ used' = [used EXCEPT !.requests = @ + 1]
  /\ \E k \in Kinds :
       \/ gen' = gen \cup {k} /\ UNCHANGED raced /\ asked' = asked \cup {k}
       \/ /\ pass.pc = "zones" /\ gen # {} /\ UNCHANGED gen
          /\ asked' = asked \cup {k} /\ raced' = raced \cup {"word"}
  /\ UNCHANGED <<zone, alarm, alarm1, det, auto, pass, store, lan, fresh, reported>>

\* con_normalrm of the console: nothing is saved.
Normalise ==
  /\ used.meddles < MaxMeddles /\ used' = [used EXCEPT !.meddles = @ + 1]
  /\ \E k \in Kinds :
       /\ auto' = [auto EXCEPT ![k].counter = 0, ![k].due = TRUE]
       /\ alarm' \in {alarm \ {k}, alarm}
       /\ raced' = raced \cup Race("word", k \in alarm')
            \cup (IF k \notin alarm \ alarm' THEN {} ELSE
                   {"console"} \cup Race("reread", pass.pc \in {"falls", "risen"})
                               \cup Race("boot", pass.pc = "start"))
  /\ UNCHANGED <<zone, gen, alarm1, det, pass, store, lan, fresh, reported, asked>>

\* recharge5min_alarm, when the cabinet is opened by a valid user.
recharge5min_alarm ==
  /\ Blocked /\ used.meddles < MaxMeddles /\ used' = [used EXCEPT !.meddles = @ + 1]
  /\ auto' = [k \in Kinds |-> IF k \in alarm
                THEN [st |-> "ALRMED", counter |-> 0, n |-> nmax + 1, due |-> FALSE] ELSE auto[k]]
  /\ UNCHANGED <<zone, gen, alarm, alarm1, det, pass, store, lan, fresh, history>>

\* AutoprotectTask clears the reset flags.
Settled ==
  /\ fresh /\ fresh' = FALSE
  /\ UNCHANGED <<zone, gen, alarm, alarm1, det, auto, pass, store, lan, used, history>>

\* read_nsignals takes nothing from NTop on.
CountRead(k) == IF saved[k] < NTop THEN saved[k] ELSE 0

\* AlarmDetectTask puts the detector of an alarm found in the flash in ALRM.
DetectorRead(k) == [st |-> IF k \in hist THEN "ALRM" ELSE "IDLE", ripe |-> FALSE]

\* AlarmReadHistory, read_nsignals and the start of AlarmDetectTask.
Boot ==
  /\ used.boots < MaxBoots /\ used' = [used EXCEPT !.boots = @ + 1]
  /\ alarm' = hist /\ alarm1' = hist /\ gen' = {} /\ fresh' = TRUE
  /\ det' = [k \in Kinds |-> DetectorRead(k)]
  /\ auto' = [k \in Kinds |-> [st |-> "NORMAL", counter |-> 0, n |-> CountRead(k), due |-> FALSE]]
  /\ pass' = At("start") /\ lan' = LanIdle
  /\ asked' = {}
  /\ raced' = raced \cup Race("boot", hist # reported)
                    \cup Race("limit", \E k \in hist : CountRead(k) > nmax)
  /\ UNCHANGED <<zone, store, reported>>

ZoneStep(k) == TakeRequest(k) \/ Watch(k) \/ StillInAlarm(k) \/ Trigger(k)

DetectStep ==
  \/ Compare \/ ReportFall \/ ReportRise \/ RiseRecharged \/ EventsDone
  \/ \E k \in Kinds : ZoneStep(k) \/ NotScanned(k) \/ Arm(k) \/ NoReset(k) \/ Remember(k)
  \/ Triggered \/ Reset

LanStep == LanStore \/ LanRecharge \/ LanWrite

Next ==
  \/ DetectStep \/ LanRequest \/ LanStep \/ LanSave \/ ConsoleRequest \/ Normalise
  \/ recharge5min_alarm \/ Settled \/ ZoneChanges \/ Boot
  \/ \E k \in Kinds : Debounced(k) \/ ResetTime(k) \/ RF_Poll(k)

Spec == Init /\ [][Next]_vars

\* The tasks run, the timers run out, the station confirms, and the zones are
\* scanned again and again.
Fairness ==
  /\ WF_vars(DetectStep) /\ WF_vars(LanStep) /\ WF_vars(Settled)
  /\ \A k \in Kinds : /\ SF_vars(ZoneStep(k)) /\ WF_vars(Debounced(k))
                      /\ SF_vars(ResetTime(k)) /\ WF_vars(RF_Poll(k))
FairSpec == Spec /\ Fairness

-----------------------------------------------------------------------------
(* Properties.                                                             *)

\* Every variable has its type.
TypeOK ==
  /\ zone \in [Kinds -> {"NORMAL", "EVENTO", "INDEF"}]
  /\ gen \subseteq Kinds /\ alarm \subseteq Kinds /\ alarm1 \subseteq Kinds
  /\ det \in [Kinds -> [st : {"IDLE", "WAIT", "ALRM", "INDEF", "INDEF1"}, ripe : BOOLEAN]]
  /\ auto \in [Kinds -> AutoReset]
  /\ pass \in [pc : {"start", "events", "falls", "risen", "zones", "triggered", "resets", "resetting"},
               kind : Kinds \cup {"none"}, falls : SUBSET Kinds, rises : SUBSET Kinds,
               left : SUBSET Kinds]
  /\ hist \subseteq Kinds /\ saved \in [Kinds -> 0..NTop]
  /\ lan \in [pc : {"poll", "gen", "recharge", "save"}, word : SUBSET Kinds,
              kind : Kinds \cup {"none"}]
  /\ fresh \in BOOLEAN /\ reported \subseteq Kinds /\ asked \subseteq Kinds /\ raced \subseteq Races
  /\ used \in [requests : 0..MaxRequests, meddles : 0..MaxMeddles, boots : 0..MaxBoots]

(***************************************************************************)
(* Outside DeteccionEventos the station has been told of the alarms the    *)
(* panel compares with: nothing but an alarm that changed while the report *)
(* blocked, or around a restart, leaves it with another picture.           *)
(***************************************************************************)
StationKnows ==
  pass.pc \notin {"start", "falls", "risen"} /\ raced \cap {"reread", "boot"} = {} => reported = alarm1

\* The flash says which alarms are on, so that a restart restores them, but
\* for the resets of the console and an old copy LAN485_Task may write.
AlarmSaved == hist = alarm \/ raced \cap {"console", "save"} # {}

\* An alarm that is on has its automatic reset running once the reset machine
\* has been round, unless too many signals came before it was first seen.
ResetArmed ==
  pass.pc = "events" =>
    \A k \in alarm : auto[k].st = "ALRMED" \/ auto[k].n > nmax

\* Whoever asks for an alarm gets it, unless its flag was lost in a
\* read-modify-write or a restart.
AskedIsGiven == \A k \in Kinds : k \in asked ~> k \notin asked \/ raced \cap {"word", "gen"} # {}

\* A zone that stays in alarm keeps the alarm coming back.
ZoneHeard == \A k \in Kinds : <>[](zone[k] = "EVENTO") => []<>(k \in alarm)

\* Once its zone is quiet an alarm ends by itself: a restart with a count
\* above nmax is what leaves it on until somebody resets it.
AlarmEnds ==
  \A k \in Kinds : <>[](zone[k] = "NORMAL") => <>[](k \notin alarm) \/ <>("limit" \in raced)
=============================================================================
