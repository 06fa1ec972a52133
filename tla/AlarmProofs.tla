----------------------------- MODULE AlarmProofs -----------------------------
(***************************************************************************)
(* Theorems about ZoneAlarm, for any limits of the counts and any number   *)
(* of requests, meddlings and restarts; about MacroHold, for one partition *)
(* or two, rings of any length and any number of events and of other       *)
(* changes of the word of flags; about ZoneBreak, for any zones, readings  *)
(* and debounce; and about Autoprotect, for any number of buttons and      *)
(* restarts.                                                               *)
(***************************************************************************)
EXTENDS ZoneAlarm, MacroHold, ZoneBreak, Autoprotect, TLAPS

(***************************************************************************)
(* From the zone to the report.                                            *)
(***************************************************************************)

-----------------------------------------------------------------------------
(***************************************************************************)
(* Where AlarmDetectTask and LAN485_Task are working on an alarm, it is    *)
(* one of the alarms; the reset machines left in this pass are not none.   *)
(***************************************************************************)
Located ==
  /\ pass.pc \in {"risen", "triggered", "resetting"} => pass.kind \in Kinds
  /\ pass.pc \in {"triggered", "resetting"} => pass.kind \in pass.left
  /\ pass.pc = "resets" => pass.left # {}
  /\ lan.pc \in {"gen", "recharge"} => lan.kind \in Kinds

\* Its automatic reset runs, or will not for too many signals.
ResetRuns(k) == auto[k].st = "ALRMED" \/ auto[k].n > nmax

LEMMA ConstantTypes ==
  ASSUME ConstantsAssumption
  PROVE  /\ nmax \in Nat /\ NTop \in Nat /\ nmax + 1 < NTop
         /\ MaxRequests \in Nat /\ MaxMeddles \in Nat /\ MaxBoots \in Nat
         /\ "none" \notin Kinds
  BY DEF ConstantsAssumption

\* The turn is of an alarm that is left.
LEMMA TurnLeft ==
  ASSUME NEW left, left # {}, NEW first
  PROVE  Turn(left, first) \in left
  BY DEF Turn

LEMMA RaceTypes ==
  \A kind \in Races, c \in BOOLEAN : Race(kind, c) \subseteq Races /\ Race(kind, c) \subseteq {kind}
  BY DEF Race

-----------------------------------------------------------------------------
(* recharge_alarm.                                                         *)

\* An alarm recharged has its reset running again, or too many signals.
LEMMA RechargedType ==
  ASSUME ConstantsAssumption, NEW a \in AutoReset, NEW b \in Recharged(a)
  PROVE  b \in AutoReset /\ b.st = "ALRMED" /\ b.n = a.n
<1>1. PICK c \in {0, 1} : b = [a EXCEPT !.st = "ALRMED", !.due = FALSE, !.counter = c]
  BY DEF Recharged
<1>2. b = [st |-> "ALRMED", counter |-> c, n |-> a.n, due |-> FALSE] BY <1>1 DEF AutoReset
<1> QED BY <1>2 DEF AutoReset

LEMMA CountedType ==
  ASSUME ConstantsAssumption, NEW a \in AutoReset
  PROVE  Counted(a) \in AutoReset /\ Counted(a).st = a.st /\ Counted(a).n >= a.n
<1>1. a.n \in 0..NTop /\ NTop \in Nat BY ConstantTypes DEF AutoReset
<1> DEFINE m == IF a.n < NTop THEN a.n + 1 ELSE a.n
<1>2. m \in 0..NTop /\ m >= a.n BY <1>1
<1>3. Counted(a) = [st |-> a.st, counter |-> a.counter, n |-> m, due |-> a.due]
  BY DEF Counted, AutoReset
<1> QED BY <1>2, <1>3 DEF AutoReset

LEMMA RechargeEffect ==
  ASSUME ConstantsAssumption, auto \in [Kinds -> AutoReset], saved \in [Kinds -> 0..NTop],
         NEW k \in Kinds, Recharge(k)
  PROVE  /\ auto' \in [Kinds -> AutoReset] /\ saved' \in [Kinds -> 0..NTop]
         /\ \A j \in Kinds \ {k} : auto'[j] = auto[j]
         /\ ResetRuns(k)'
<1>1. auto[k] \in AutoReset OBVIOUS
<1>2. CASE \E a \in (IF auto[k].n <= nmax THEN Recharged(auto[k]) ELSE {auto[k]}) :
             /\ auto' = [auto EXCEPT ![k] = Counted(a)]
             /\ saved' = IF auto[k].n < NTop THEN [j \in Kinds |-> auto'[j].n] ELSE saved
  <2>1. PICK a \in (IF auto[k].n <= nmax THEN Recharged(auto[k]) ELSE {auto[k]}) :
             /\ auto' = [auto EXCEPT ![k] = Counted(a)]
             /\ saved' = IF auto[k].n < NTop THEN [j \in Kinds |-> auto'[j].n] ELSE saved
    BY <1>2
  <2>2. a \in AutoReset /\ a.n = auto[k].n /\ (auto[k].n <= nmax => a.st = "ALRMED")
    BY <1>1, <2>1, RechargedType
  <2>3. Counted(a) \in AutoReset /\ Counted(a).st = a.st /\ Counted(a).n >= a.n
    BY <2>2, CountedType
  <2>4. auto' \in [Kinds -> AutoReset] /\ auto'[k] = Counted(a) BY <2>1, <2>3
  <2>5. ResetRuns(k)'
    <3>1. auto[k].n \in Nat /\ Counted(a).n \in Nat /\ nmax \in Nat
      BY <1>1, <2>3, ConstantTypes DEF AutoReset
    <3> QED BY <2>2, <2>3, <2>4, <3>1 DEF ResetRuns
  <2>6. saved' \in [Kinds -> 0..NTop] BY <2>1, <2>4 DEF AutoReset
  <2> QED BY <2>1, <2>4, <2>5, <2>6
<1>3. CASE /\ \E a \in Recharged(auto[k]) : auto' = [auto EXCEPT ![k] = [a EXCEPT !.n = nmax + 1]]
           /\ UNCHANGED saved
  <2>1. PICK a \in Recharged(auto[k]) : auto' = [auto EXCEPT ![k] = [a EXCEPT !.n = nmax + 1]]
    BY <1>3
  <2>2. a \in AutoReset /\ a.st = "ALRMED" BY <1>1, RechargedType
  <2>3. [a EXCEPT !.n = nmax + 1] \in AutoReset /\ [a EXCEPT !.n = nmax + 1].st = "ALRMED"
    BY <2>2, ConstantTypes DEF AutoReset
  <2> QED BY <1>3, <2>1, <2>3 DEF ResetRuns
<1> QED BY <1>2, <1>3 DEF Recharge

-----------------------------------------------------------------------------
(* Types.                                                                  *)

PassType == [pc : {"start", "events", "falls", "risen", "zones", "triggered", "resets", "resetting"},
             kind : Kinds \cup {"none"}, falls : SUBSET Kinds, rises : SUBSET Kinds,
             left : SUBSET Kinds]
DetType  == [st : {"IDLE", "WAIT", "ALRM", "INDEF", "INDEF1"}, ripe : BOOLEAN]
LanType  == [pc : {"poll", "gen", "recharge", "save"}, word : SUBSET Kinds,
             kind : Kinds \cup {"none"}]
UsedType == [requests : 0..MaxRequests, meddles : 0..MaxMeddles, boots : 0..MaxBoots]

\* The type invariant, of these records.
Typed ==
  /\ zone \in [Kinds -> {"NORMAL", "EVENTO", "INDEF"}]
  /\ gen \subseteq Kinds /\ alarm \subseteq Kinds /\ alarm1 \subseteq Kinds
  /\ det \in [Kinds -> DetType] /\ auto \in [Kinds -> AutoReset]
  /\ pass \in PassType /\ lan \in LanType /\ used \in UsedType
  /\ hist \subseteq Kinds /\ saved \in [Kinds -> 0..NTop]
  /\ fresh \in BOOLEAN
  /\ reported \subseteq Kinds /\ asked \subseteq Kinds /\ raced \subseteq Races

LEMMA TypedTypeOK == Typed => TypeOK
  BY DEF Typed, TypeOK, PassType, DetType, LanType, UsedType

\* A pass begins a stage.
LEMMA AtType ==
  ASSUME NEW pc \in {"start", "events", "falls", "zones", "resets"}
  PROVE  /\ At(pc) \in PassType /\ At(pc).pc = pc
         /\ \A S \in SUBSET Kinds : LET q == [At(pc) EXCEPT !.left = S]
                                    IN  q \in PassType /\ q.pc = pc /\ q.left = S
  BY DEF At, PassType

\* The turn of an alarm among the zones, and among the resets, is over.
LEMMA NextZoneEffect ==
  ASSUME pass \in PassType, NEW k \in Kinds, Turned(k), NextZone(k)
  PROVE  /\ pass' \in PassType
         /\ pass'.pc = "zones" \/ (pass'.pc = "resets" /\ pass'.left = Kinds /\ Kinds # {})
  BY AtType DEF Turned, NextZone, PassType

LEMMA NextResetEffect ==
  ASSUME pass \in PassType, NEW k \in pass.left, NextReset(k)
  PROVE  /\ pass' \in PassType
         /\ \/ pass'.pc = "events" /\ pass.left = {k}
            \/ pass'.pc = "resets" /\ pass'.left = pass.left \ {k} /\ pass'.left # {}
  BY AtType DEF NextReset, PassType

LEMMA RaiseType ==
  ASSUME alarm \subseteq Kinds, hist \subseteq Kinds, NEW k \in Kinds, Raise(k)
  PROVE  alarm' \subseteq Kinds /\ hist' \subseteq Kinds
  BY DEF Raise

LEMMA InitTyped ==
  ASSUME ConstantsAssumption, Init
  PROVE  Typed /\ Located
<1> USE ConstantTypes DEF Init
<1>1. pass \in PassType /\ pass.pc = "start" BY AtType
<1>2. auto \in [Kinds -> AutoReset] BY DEF AutoReset
<1>3. det \in [Kinds -> DetType] BY DEF DetType
<1>4. lan \in LanType /\ lan.pc = "poll" BY DEF LanType, LanIdle
<1>5. used \in UsedType BY DEF UsedType
<1>6. zone \in [Kinds -> {"NORMAL", "EVENTO", "INDEF"}] /\ saved \in [Kinds -> 0..NTop] OBVIOUS
<1> QED BY <1>1, <1>2, <1>3, <1>4, <1>5, <1>6 DEF Typed, Located

\* AlarmDetectTask in DeteccionEventos.
LEMMA EventsTyped ==
  ASSUME ConstantsAssumption, Typed, Located,
         Compare \/ ReportFall \/ ReportRise \/ RiseRecharged \/ EventsDone
  PROVE  Typed' /\ Located'
<1> USE DEF Typed, Located
<1>1. CASE Compare
  <2>1. pass' \in PassType /\ pass'.pc = "falls"
    BY <1>1 DEF Compare, At, PassType
  <2>2. raced' \subseteq Races BY <1>1, RaceTypes DEF Compare, Races
  <2>3. alarm1' \subseteq Kinds BY <1>1 DEF Compare
  <2> QED BY <1>1, <2>1, <2>2, <2>3 DEF Compare, store
<1>2. CASE ReportFall
  <2>1. pass' \in PassType /\ pass'.pc = "falls" BY <1>2 DEF ReportFall, PassType
  <2>2. reported' \subseteq Kinds BY <1>2 DEF ReportFall
  <2> QED BY <1>2, <2>1, <2>2 DEF ReportFall, store
<1>3. CASE ReportRise
  <2>1. PICK k \in pass.rises : /\ pass' = [pass EXCEPT !.pc = "risen", !.kind = k, !.rises = @ \ {k}]
                                /\ reported' = reported \cup {k}
    BY <1>3, TurnLeft DEF ReportRise
  <2>2. pass' \in PassType /\ pass'.pc = "risen" /\ pass'.kind \in Kinds BY <2>1 DEF PassType
  <2>3. reported' \subseteq Kinds BY <2>1 DEF PassType
  <2> QED BY <1>3, <2>2, <2>3 DEF ReportRise, store
<1>4. CASE RiseRecharged
  <2>1. auto' \in [Kinds -> AutoReset] /\ saved' \in [Kinds -> 0..NTop]
    BY <1>4, RechargeEffect DEF RiseRecharged
  <2>2. pass' \in PassType /\ pass'.pc = "falls" BY <1>4 DEF RiseRecharged, PassType
  <2> QED BY <1>4, <2>1, <2>2 DEF RiseRecharged, history
<1>5. CASE EventsDone
  <2>1. pass' \in PassType /\ pass'.pc = "zones" BY <1>5, AtType DEF EventsDone
  <2> QED BY <1>5, <2>1 DEF EventsDone, Latch, store, history
<1> QED BY <1>1, <1>2, <1>3, <1>4, <1>5

\* Among the zones.
LEMMA ZonesTyped ==
  ASSUME ConstantsAssumption, Typed, Located,
         NEW k \in Kinds, ZoneStep(k) \/ NotScanned(k)
  PROVE  Typed' /\ Located'
<1> USE DEF Typed, Located
<1>1. CASE TakeRequest(k)
  <2>1. auto' \in [Kinds -> AutoReset] /\ saved' \in [Kinds -> 0..NTop]
    BY <1>1, RechargeEffect DEF TakeRequest
  <2>2. pass' \in PassType /\ (pass'.pc = "zones" \/ (pass'.pc = "resets" /\ pass'.left # {}))
    BY <1>1, NextZoneEffect DEF TakeRequest
  <2>3. det' \in [Kinds -> DetType] BY <1>1 DEF TakeRequest, DetType
  <2>4. alarm' \subseteq Kinds /\ hist' \subseteq Kinds BY <1>1, RaiseType DEF TakeRequest
  <2>5. gen' \subseteq Kinds /\ asked' \subseteq Kinds BY <1>1 DEF TakeRequest
  <2> QED BY <1>1, <2>1, <2>2, <2>3, <2>4, <2>5 DEF TakeRequest
<1>2. CASE Watch(k)
  <2>2. pass' \in PassType /\ (pass'.pc = "zones" \/ (pass'.pc = "resets" /\ pass'.left # {}))
    BY <1>2, NextZoneEffect DEF Watch
  <2>3. det' \in [Kinds -> DetType]
    <3>1. \/ UNCHANGED det
          \/ \E to \in {"IDLE", "WAIT", "INDEF", "INDEF1"} :
               det' = [det EXCEPT ![k] = [st |-> to, ripe |-> FALSE]]
      BY ONLY <1>2 DEF Watch
    <3>2. CASE UNCHANGED det BY <3>2
    <3>3. ASSUME NEW to \in {"IDLE", "WAIT", "INDEF", "INDEF1"},
                 det' = [det EXCEPT ![k] = [st |-> to, ripe |-> FALSE]]
          PROVE  det' \in [Kinds -> DetType]
      <4>1. [st |-> to, ripe |-> FALSE] \in DetType BY ONLY TRUE DEF DetType
      <4>2. det \in [Kinds -> DetType] OBVIOUS
      <4> QED BY ONLY <3>3, <4>1, <4>2
    <3> QED BY <3>1, <3>2, <3>3
  <2> QED BY <1>2, <2>2, <2>3 DEF Watch, store, history
<1>3. CASE StillInAlarm(k)
  <2>2. pass' \in PassType /\ (pass'.pc = "zones" \/ (pass'.pc = "resets" /\ pass'.left # {}))
    BY <1>3, NextZoneEffect DEF StillInAlarm
  <2>4. alarm' \subseteq Kinds /\ hist' \subseteq Kinds BY <1>3, RaiseType DEF StillInAlarm, HoldOn
  <2> QED BY <1>3, <2>2, <2>4 DEF StillInAlarm, history
<1>4. CASE Trigger(k)
  <2>2. pass' \in PassType /\ pass'.pc = "triggered" /\ pass'.kind = k /\ k \in pass'.left
    BY <1>4 DEF Trigger, Turned, PassType
  <2>3. det' \in [Kinds -> DetType] BY <1>4 DEF Trigger, DetType
  <2>4. alarm' \subseteq Kinds /\ hist' \subseteq Kinds BY <1>4, RaiseType DEF Trigger
  <2> QED BY <1>4, <2>2, <2>3, <2>4 DEF Trigger, history
<1>5. CASE NotScanned(k)
  <2>2. pass' \in PassType /\ (pass'.pc = "zones" \/ (pass'.pc = "resets" /\ pass'.left # {}))
    BY <1>5, NextZoneEffect DEF NotScanned
  <2> QED BY <1>5, <2>2 DEF NotScanned, store, history
<1> QED BY <1>1, <1>2, <1>3, <1>4, <1>5 DEF ZoneStep

LEMMA TriggeredTyped ==
  ASSUME ConstantsAssumption, Typed, Located, Triggered
  PROVE  Typed' /\ Located'
<1> USE DEF Typed, Located
<1>1. auto' \in [Kinds -> AutoReset] /\ saved' \in [Kinds -> 0..NTop]
  BY RechargeEffect DEF Triggered
<1>2. pass' \in PassType /\ (pass'.pc = "zones" \/ (pass'.pc = "resets" /\ pass'.left # {}))
  BY AtType DEF Triggered, PassType
<1> QED BY <1>1, <1>2 DEF Triggered, history

\* Among the resets.
LEMMA ResetsTyped ==
  ASSUME ConstantsAssumption, Typed, Located, NEW k \in Kinds,
         Arm(k) \/ NoReset(k) \/ Remember(k)
  PROVE  Typed' /\ Located'
<1> USE DEF Typed, Located
<1>0. k \in pass.left BY TurnLeft DEF Arm, NoReset, Remember, Resets
<1>1. CASE Arm(k) \/ NoReset(k)
  <2>1. auto' \in [Kinds -> AutoReset] /\ saved' \in [Kinds -> 0..NTop]
    BY <1>1, RechargeEffect DEF Arm, NoReset, store
  <2>2. pass' \in PassType /\ (pass'.pc = "events" \/ (pass'.pc = "resets" /\ pass'.left # {}))
    BY <1>0, <1>1, NextResetEffect DEF Arm, NoReset
  <2> QED BY <1>1, <2>1, <2>2 DEF Arm, NoReset, store, history
<1>2. CASE Remember(k)
  <2>1. auto' \in [Kinds -> AutoReset] BY <1>2 DEF Remember, AutoReset
  <2>2. pass' \in PassType /\ pass'.pc = "resetting" /\ pass'.kind = k /\ k \in pass'.left
    BY <1>0, <1>2 DEF Remember, PassType
  <2> QED BY <1>2, <2>1, <2>2 DEF Remember, store, history
<1> QED BY <1>1, <1>2

LEMMA ResetTyped ==
  ASSUME ConstantsAssumption, Typed, Located, Reset
  PROVE  Typed' /\ Located'
<1> USE ConstantTypes DEF Typed, Located
<1>1. PICK k \in pass.left : Restart(k) /\ Lower(k) /\ NextReset(k) BY DEF Reset
<1>2. auto' \in [Kinds -> AutoReset]
  <2>0. auto \in [Kinds -> AutoReset] /\ k \in Kinds /\ auto[k] \in AutoReset BY DEF PassType
  <2>1. auto' = [auto EXCEPT ![k] = [auto[k] EXCEPT !.n = 0]] BY <1>1 DEF Restart
  <2>2. [auto[k] EXCEPT !.n = 0] \in AutoReset BY <2>0 DEF AutoReset
  <2> QED BY ONLY <2>0, <2>1, <2>2
<1>3. saved' \in [Kinds -> 0..NTop] BY <1>1, <1>2 DEF Restart, AutoReset
<1>4. alarm' \subseteq Kinds /\ hist' \subseteq Kinds BY <1>1 DEF Lower
<1>5. pass' \in PassType /\ (pass'.pc = "events" \/ (pass'.pc = "resets" /\ pass'.left # {}))
  BY <1>1, NextResetEffect
<1> QED BY <1>2, <1>3, <1>4, <1>5 DEF Reset, history

\* LAN485_Task.
LEMMA LanTyped ==
  ASSUME ConstantsAssumption, Typed, Located, LanRequest \/ LanStep \/ LanSave
  PROVE  Typed' /\ Located'
<1> USE ConstantTypes DEF Typed, Located
<1>1. CASE LanRequest
  <2>1. lan' \in LanType /\ lan'.kind \in Kinds BY <1>1 DEF LanRequest, LanType
  <2>2. used' \in UsedType BY <1>1 DEF LanRequest, UsedType
  <2> QED BY <1>1, <2>1, <2>2 DEF LanRequest, store, history
<1>2. CASE LanStore
  <2>1. lan' \in LanType /\ (lan'.pc = "recharge" => lan'.kind \in Kinds) /\ lan'.pc # "gen"
    <3>1. CASE lan' = LanIdle BY <3>1 DEF LanType, LanIdle
    <3>2. CASE lan' = [lan EXCEPT !.pc = "recharge", !.word = {}]
      <4>1. lan.kind \in Kinds BY <1>2 DEF LanStore
      <4> QED BY <3>2, <4>1 DEF LanType
    <3> QED BY <1>2, <3>1, <3>2 DEF LanStore
  <2>2. raced' \subseteq Races BY <1>2, RaceTypes DEF LanStore, Races
  <2>3. gen' \subseteq Kinds /\ asked' \subseteq Kinds BY <1>2 DEF LanStore, LanType
  <2> QED BY <1>2, <2>1, <2>2, <2>3 DEF LanStore, store
<1>3. CASE LanRecharge
  <2>1. auto' \in [Kinds -> AutoReset] /\ saved' \in [Kinds -> 0..NTop]
    BY <1>3, RechargeEffect DEF LanRecharge
  <2>2. lan' \in LanType /\ lan'.pc = "poll" BY <1>3 DEF LanRecharge, LanType, LanIdle
  <2> QED BY <1>3, <2>1, <2>2 DEF LanRecharge, history
<1>4. CASE LanWrite
  <2>1. lan' \in LanType /\ lan'.pc = "poll" BY <1>4 DEF LanWrite, LanType, LanIdle
  <2>2. raced' \subseteq Races BY <1>4, RaceTypes DEF LanWrite, Races
  <2>3. hist' \subseteq Kinds BY <1>4 DEF LanWrite, LanType
  <2> QED BY <1>4, <2>1, <2>2, <2>3 DEF LanWrite
<1>5. CASE LanSave
  <2>1. lan' \in LanType /\ lan'.pc = "save" BY <1>5 DEF LanSave, LanType, LanIdle
  <2>2. used' \in UsedType BY <1>5 DEF LanSave, UsedType
  <2> QED BY <1>5, <2>1, <2>2 DEF LanSave, store, history
<1> QED BY <1>1, <1>2, <1>3, <1>4, <1>5 DEF LanStep

\* The console, the cabinet's door, the timers, the zones and a restart.
LEMMA OthersTyped ==
  ASSUME ConstantsAssumption, Typed, Located,
         \/ ConsoleRequest \/ Normalise \/ recharge5min_alarm \/ Settled \/ ZoneChanges \/ Boot
         \/ \E k \in Kinds : Debounced(k) \/ ResetTime(k) \/ RF_Poll(k)
  PROVE  Typed' /\ Located'
<1> USE ConstantTypes DEF Typed, Located
<1>1. CASE ConsoleRequest
  <2>1. used' \in UsedType BY <1>1 DEF ConsoleRequest, UsedType
  <2>2. raced' \subseteq Races BY <1>1 DEF ConsoleRequest, Races
  <2>3. gen' \subseteq Kinds /\ asked' \subseteq Kinds BY <1>1 DEF ConsoleRequest
  <2> QED BY <1>1, <2>1, <2>2, <2>3 DEF ConsoleRequest, store
<1>2. CASE Normalise
  <2>1. used' \in UsedType BY <1>2 DEF Normalise, UsedType
  <2>2. raced' \subseteq Races
    <3>1. {"word", "console", "reread", "boot"} \subseteq Races BY DEF Races
    <3>2. raced' \subseteq raced \cup {"word", "console", "reread", "boot"}
      BY ONLY <1>2 DEF Normalise, Race
    <3> QED BY <3>1, <3>2
  <2>3. alarm' \subseteq Kinds BY <1>2 DEF Normalise
  <2>4. auto' \in [Kinds -> AutoReset] BY <1>2 DEF Normalise, AutoReset
  <2> QED BY <1>2, <2>1, <2>2, <2>3, <2>4 DEF Normalise, store
<1>3. CASE recharge5min_alarm
  <2>1. used' \in UsedType BY <1>3 DEF recharge5min_alarm, UsedType
  <2>2. auto' \in [Kinds -> AutoReset] BY <1>3 DEF recharge5min_alarm, AutoReset
  <2> QED BY <1>3, <2>1, <2>2 DEF recharge5min_alarm, store, history
<1>4. CASE Settled BY <1>4 DEF Settled, store, history
<1>5. CASE ZoneChanges
  <2>1. zone' \in [Kinds -> {"NORMAL", "EVENTO", "INDEF"}] BY <1>5 DEF ZoneChanges
  <2> QED BY <1>5, <2>1 DEF ZoneChanges, store, history
<1>6. CASE Boot
  <2>1. used' \in UsedType BY <1>6 DEF Boot, UsedType
  <2>2. raced' \subseteq Races BY <1>6, RaceTypes DEF Boot, Races
  <2>3. pass' \in PassType /\ pass'.pc = "start" BY <1>6, AtType DEF Boot
  <2>4. lan' \in LanType /\ lan'.pc = "poll" BY <1>6 DEF Boot, LanType, LanIdle
  <2>5. det' \in [Kinds -> DetType] BY <1>6 DEF Boot, DetectorRead, DetType
  <2>6. auto' \in [Kinds -> AutoReset] BY <1>6 DEF Boot, AutoReset, CountRead
  <2> QED BY <1>6, <2>1, <2>2, <2>3, <2>4, <2>5, <2>6 DEF Boot, store
<1>7. ASSUME NEW k \in Kinds, Debounced(k) PROVE Typed' /\ Located'
  <2>1. det' \in [Kinds -> DetType] BY <1>7 DEF Debounced, DetType
  <2> QED BY <1>7, <2>1 DEF Debounced, store, history
<1>8. ASSUME NEW k \in Kinds, ResetTime(k) \/ RF_Poll(k) PROVE Typed' /\ Located'
  <2>0. auto \in [Kinds -> AutoReset] /\ auto[k] \in AutoReset OBVIOUS
  <2>1. PICK b : auto' = [auto EXCEPT ![k] = b]
                 /\ \/ b = [auto[k] EXCEPT !.due = TRUE]
                    \/ auto[k].counter > 0 /\ b = [auto[k] EXCEPT !.counter = @ - 1]
    BY ONLY <1>8 DEF ResetTime, RF_Poll
  <2>2. b \in AutoReset
    <3>1. CASE b = [auto[k] EXCEPT !.due = TRUE] BY ONLY <2>0, <3>1 DEF AutoReset
    <3>2. CASE auto[k].counter > 0 /\ b = [auto[k] EXCEPT !.counter = @ - 1]
      <4>1. auto[k].counter - 1 \in 0..1 BY ONLY <2>0, <3>2 DEF AutoReset
      <4> QED BY ONLY <2>0, <3>2, <4>1 DEF AutoReset
    <3> QED BY <2>1, <3>1, <3>2
  <2>3. auto' \in [Kinds -> AutoReset] BY ONLY <2>0, <2>1, <2>2
  <2> QED BY <1>8, <2>3 DEF ResetTime, RF_Poll, store, history
<1> QED BY <1>1, <1>2, <1>3, <1>4, <1>5, <1>6, <1>7, <1>8

LEMMA NextTyped ==
  ASSUME ConstantsAssumption, Typed, Located, [Next]_vars
  PROVE  Typed' /\ Located'
<1>1. CASE UNCHANGED vars
  <2>1. UNCHANGED <<zone, gen, alarm, alarm1, det, auto, pass, hist, saved, lan, fresh, used,
                    reported, asked, raced>>
    BY <1>1 DEF vars, store, history
  <2> QED BY <2>1 DEF Typed, Located
<1>2. CASE DetectStep
  BY <1>2, EventsTyped, ZonesTyped, TriggeredTyped, ResetsTyped, ResetTyped DEF DetectStep
<1> QED BY <1>1, <1>2, LanTyped, OthersTyped DEF Next

(***************************************************************************)
(* The variables keep to their types, whatever the tasks do to each other  *)
(* while a report blocks and whenever the panel restarts.                  *)
(***************************************************************************)
THEOREM TypeCorrect ==
  ASSUME ConstantsAssumption
  PROVE  Spec => []TypeOK
<1>1. Init => Typed /\ Located BY InitTyped
<1>2. Typed /\ Located /\ [Next]_vars => Typed' /\ Located' BY NextTyped
<1>3. Typed => TypeOK BY TypedTypeOK
<1> QED BY <1>1, <1>2, <1>3, PTL DEF Spec

-----------------------------------------------------------------------------
\* What is noted as a race stays noted.
LEMMA RacedGrows ==
  [Next]_vars => raced \subseteq raced'
<1>1. DetectStep => raced \subseteq raced'
  BY DEF DetectStep, Compare, ReportFall, ReportRise, RiseRecharged, EventsDone, ZoneStep, TakeRequest,
     Watch, StillInAlarm, Trigger, NotScanned, Arm, NoReset, Remember, Triggered, Reset, history
<1>2. LanRequest \/ LanStep \/ LanSave => raced \subseteq raced'
  BY DEF LanRequest, LanStep, LanStore, LanRecharge, LanWrite, LanSave, history
<1>3. ConsoleRequest \/ Normalise \/ recharge5min_alarm => raced \subseteq raced'
  BY DEF ConsoleRequest, Normalise, recharge5min_alarm, history
<1>4. \/ Settled \/ ZoneChanges \/ Boot
      \/ \E k \in Kinds : Debounced(k) \/ ResetTime(k) \/ RF_Poll(k)
      => raced \subseteq raced'
  BY DEF Settled, ZoneChanges, Boot, Debounced, ResetTime, RF_Poll, history
<1>5. UNCHANGED vars => raced \subseteq raced' BY DEF vars, history
<1> QED BY <1>1, <1>2, <1>3, <1>4, <1>5 DEF Next

\* The steps of the other tasks that leave AlarmDetectTask's alarms alone.
Aside ==
  \/ LanRequest \/ LanStep \/ LanSave \/ ConsoleRequest \/ recharge5min_alarm \/ Settled
  \/ ZoneChanges \/ \E k \in Kinds : Debounced(k) \/ ResetTime(k) \/ RF_Poll(k)

LEMMA AsideEffect ==
  ASSUME Aside
  PROVE  UNCHANGED <<alarm, alarm1, pass, reported>>
  BY DEF Aside, LanRequest, LanStep, LanStore, LanRecharge, LanWrite, LanSave, ConsoleRequest,
     recharge5min_alarm, Settled, ZoneChanges, Debounced, ResetTime, RF_Poll, store, history

\* The steps of a pass outside DeteccionEventos.
Machines ==
  \/ \E k \in Kinds : ZoneStep(k) \/ NotScanned(k) \/ Arm(k) \/ NoReset(k) \/ Remember(k)
  \/ Triggered \/ Reset

LEMMA MachinesEffect ==
  ASSUME Typed, Located, Machines
  PROVE  /\ pass.pc \in {"zones", "triggered", "resets", "resetting"}
         /\ pass'.pc \in {"zones", "triggered", "resets", "resetting", "events"}
         /\ UNCHANGED <<alarm1, reported, raced>>
<1>0. pass \in PassType BY DEF Typed
<1>1. ASSUME NEW k \in Kinds, ZoneStep(k) \/ NotScanned(k)
      PROVE  /\ pass.pc = "zones" /\ pass'.pc \in {"zones", "triggered", "resets"}
             /\ UNCHANGED <<alarm1, reported, raced>>
  <2>1. CASE Trigger(k) BY <1>0, <2>1 DEF Trigger, Turned, PassType, history
  <2>2. CASE TakeRequest(k) \/ Watch(k) \/ StillInAlarm(k) \/ NotScanned(k)
    <3>1. Turned(k) /\ NextZone(k) /\ UNCHANGED <<alarm1, reported, raced>>
      BY <2>2 DEF TakeRequest, Watch, StillInAlarm, NotScanned, history
    <3>2. pass'.pc \in {"zones", "resets"} BY <1>0, <3>1, NextZoneEffect
    <3> QED BY <3>1, <3>2 DEF Turned
  <2> QED BY <1>1, <2>1, <2>2 DEF ZoneStep
<1>2. ASSUME NEW k \in Kinds, Arm(k) \/ NoReset(k) \/ Remember(k)
      PROVE  /\ pass.pc = "resets" /\ pass'.pc \in {"resets", "resetting", "events"}
             /\ UNCHANGED <<alarm1, reported, raced>>
  <2>1. CASE Remember(k) BY <1>0, <2>1 DEF Remember, Resets, PassType, history
  <2>2. CASE Arm(k) \/ NoReset(k)
    <3>1. Resets(k) /\ NextReset(k) /\ UNCHANGED <<alarm1, reported, raced>>
      BY <2>2 DEF Arm, NoReset, history
    <3>2. k \in pass.left BY <3>1, TurnLeft DEF Resets, Located
    <3>3. pass'.pc \in {"resets", "events"} BY <1>0, <3>1, <3>2, NextResetEffect
    <3> QED BY <3>1, <3>3 DEF Resets
  <2> QED BY <1>2, <2>1, <2>2
<1>3. CASE Triggered
  <2>1. pass'.pc \in {"zones", "resets"} BY <1>0, <1>3, AtType DEF Triggered, PassType
  <2> QED BY <1>3, <2>1 DEF Triggered, history
<1>4. CASE Reset
  <2>1. pass.kind \in pass.left /\ NextReset(pass.kind) BY <1>4 DEF Reset, Located
  <2>2. pass'.pc \in {"resets", "events"} BY <1>0, <2>1, NextResetEffect
  <2> QED BY <1>4, <2>2 DEF Reset, history
<1> QED BY <1>1, <1>2, <1>3, <1>4 DEF Machines

\* Every step is of one of these groups.
LEMMA NextGroups ==
  ASSUME [Next]_vars
  PROVE  \/ Compare \/ ReportFall \/ ReportRise \/ RiseRecharged \/ EventsDone
         \/ Machines \/ Aside \/ Normalise \/ Boot \/ UNCHANGED vars
  BY DEF Next, DetectStep, Machines, Aside

-----------------------------------------------------------------------------
(***************************************************************************)
(* The station.  While DeteccionEventos reports, what the station has been *)
(* told, less what it is still to be told has ended and with what it is    *)
(* still to be told has begun, is what is on.                              *)
(***************************************************************************)
Without(kinds) == raced \cap kinds = {}

KnowsInv ==
  Without({"reread", "boot"}) =>
    /\ pass.pc \notin {"falls", "risen"} => reported = alarm1
    /\ pass.pc \in {"falls", "risen"} => (reported \ pass.falls) \cup pass.rises = alarm

LEMMA NextKnows ==
  ASSUME Typed, Located, KnowsInv, [Next]_vars
  PROVE  KnowsInv'
<1> SUFFICES ASSUME Without({"reread", "boot"})'
             PROVE  /\ pass'.pc \notin {"falls", "risen"} => reported' = alarm1'
                    /\ pass'.pc \in {"falls", "risen"} =>
                         (reported' \ pass'.falls) \cup pass'.rises = alarm'
  BY DEF KnowsInv
<1>0. /\ pass.pc \notin {"falls", "risen"} => reported = alarm1
      /\ pass.pc \in {"falls", "risen"} => (reported \ pass.falls) \cup pass.rises = alarm
      /\ pass \in PassType
  BY RacedGrows DEF KnowsInv, Without, Typed
<1>1. CASE Compare
  <2>1. reported = alarm1 BY <1>0, <1>1 DEF Compare
  <2>2. fresh => alarm = alarm1 BY <1>1 DEF Compare, Race, Without
  <2>3. pass' = [At("falls") EXCEPT !.falls = alarm1 \ alarm, !.rises = alarm \ alarm1]
    BY <1>1, <2>2 DEF Compare
  <2>4. pass'.pc = "falls" /\ pass'.falls = alarm1 \ alarm /\ pass'.rises = alarm \ alarm1
    BY <2>3 DEF At
  <2>5. UNCHANGED <<alarm, reported>> BY <1>1 DEF Compare
  <2> QED BY <2>1, <2>4, <2>5
<1>2. CASE ReportFall
  <2>1. PICK k : pass' = [pass EXCEPT !.falls = @ \ {k}] /\ reported' = reported \ {k}
    BY <1>2 DEF ReportFall
  <2>2. pass.pc = "falls" /\ alarm' = alarm BY <1>2 DEF ReportFall
  <2>3. pass'.pc = "falls" /\ pass'.falls = pass.falls \ {k} /\ pass'.rises = pass.rises
    BY <1>0, <2>1, <2>2 DEF PassType
  <2> QED BY <1>0, <2>1, <2>2, <2>3
<1>3. CASE ReportRise
  <2>1. PICK k \in pass.rises : /\ pass' = [pass EXCEPT !.pc = "risen", !.kind = k, !.rises = @ \ {k}]
                                /\ reported' = reported \cup {k}
    BY <1>3, TurnLeft DEF ReportRise
  <2>2. pass.pc = "falls" /\ pass.falls = {} /\ alarm' = alarm BY <1>3 DEF ReportRise
  <2>3. pass'.pc = "risen" /\ pass'.falls = {} /\ pass'.rises = pass.rises \ {k}
    BY <1>0, <2>1, <2>2 DEF PassType
  <2> QED BY <1>0, <2>1, <2>2, <2>3
<1>4. CASE RiseRecharged
  <2>1. /\ pass.pc = "risen" /\ UNCHANGED <<alarm, reported>>
        /\ pass' = [pass EXCEPT !.pc = "falls", !.kind = "none"]
    BY <1>4 DEF RiseRecharged, history
  <2>2. pass'.pc = "falls" /\ pass'.falls = pass.falls /\ pass'.rises = pass.rises
    BY <1>0, <2>1 DEF PassType
  <2> QED BY <1>0, <2>1, <2>2
<1>5. CASE EventsDone
  <2>1. reported' = alarm /\ alarm1' = alarm BY <1>0, <1>5 DEF EventsDone, Latch, history
  <2>2. pass'.pc = "zones" BY <1>5, AtType DEF EventsDone
  <2> QED BY <2>1, <2>2
<1>6. CASE Machines BY <1>0, <1>6, MachinesEffect
<1>7. CASE Aside BY <1>0, <1>7, AsideEffect
<1>8. CASE Normalise
  <2>1. UNCHANGED <<alarm1, pass, reported>> BY <1>8 DEF Normalise
  <2>2. pass.pc \in {"falls", "risen"} => alarm' = alarm
    <3>1. PICK k \in Kinds : /\ alarm' \in {alarm \ {k}, alarm}
                             /\ raced' = raced \cup Race("word", k \in alarm')
                                  \cup (IF k \notin alarm \ alarm' THEN {} ELSE
                                        {"console"} \cup Race("reread", pass.pc \in {"falls", "risen"})
                                                    \cup Race("boot", pass.pc = "start"))
      BY <1>8 DEF Normalise
    <3>2. pass.pc \in {"falls", "risen"} => k \notin alarm \ alarm' BY <3>1 DEF Race, Without
    <3> QED BY <3>1, <3>2
  <2> QED BY <1>0, <2>1, <2>2
<1>9. CASE Boot
  <2>1. hist = reported BY <1>9 DEF Boot, Race, Without
  <2>2. pass'.pc = "start" BY <1>9, AtType DEF Boot
  <2> QED BY <1>9, <2>1, <2>2 DEF Boot
<1>10. CASE UNCHANGED vars BY <1>0, <1>10 DEF vars, history
<1> QED BY <1>1, <1>2, <1>3, <1>4, <1>5, <1>6, <1>7, <1>8, <1>9, <1>10, NextGroups

(***************************************************************************)
(* Between two reports the station has been told of exactly the alarms the *)
(* panel compares with, through restarts, requests and resets in any       *)
(* order and number, until an alarm is reset while the report blocks or a  *)
(* restart finds one unreported.                                           *)
(***************************************************************************)
THEOREM StationKnowsCorrect ==
  ASSUME ConstantsAssumption
  PROVE  Spec => []StationKnows
<1>1. Init => Typed /\ Located /\ KnowsInv
  <2>1. Init => KnowsInv BY DEF Init, KnowsInv, At
  <2> QED BY <2>1, InitTyped
<1>2. Typed /\ Located /\ KnowsInv /\ [Next]_vars => Typed' /\ Located' /\ KnowsInv'
  BY NextTyped, NextKnows
<1>3. KnowsInv => StationKnows BY DEF KnowsInv, StationKnows, Without
<1> QED BY <1>1, <1>2, <1>3, PTL DEF Spec

-----------------------------------------------------------------------------
(* The flash.                                                              *)

LEMMA NextSaved ==
  ASSUME Located, AlarmSaved, [Next]_vars
  PROVE  AlarmSaved'
<1> SUFFICES ASSUME Without({"console", "save"})' PROVE hist' = alarm' BY DEF AlarmSaved, Without
<1>0. hist = alarm BY RacedGrows DEF AlarmSaved, Without
<1>1. CASE Compare \/ ReportFall \/ ReportRise \/ RiseRecharged \/ EventsDone
  BY <1>0, <1>1 DEF Compare, ReportFall, ReportRise, RiseRecharged, EventsDone, store
<1>2. ASSUME NEW k \in Kinds, ZoneStep(k) \/ NotScanned(k) PROVE hist' = alarm'
  <2>1. CASE TakeRequest(k) \/ StillInAlarm(k) \/ Trigger(k)
    BY <1>0, <2>1 DEF TakeRequest, StillInAlarm, HoldOn, Trigger, Raise
  <2>2. CASE Watch(k) \/ NotScanned(k) BY <1>0, <2>2 DEF Watch, NotScanned, store
  <2> QED BY <1>2, <2>1, <2>2 DEF ZoneStep
<1>3. ASSUME NEW k \in Kinds, Arm(k) \/ NoReset(k) \/ Remember(k) PROVE hist' = alarm'
  BY <1>0, <1>3 DEF Arm, NoReset, Remember, store
<1>4. CASE Triggered BY <1>0, <1>4 DEF Triggered
<1>5. CASE Reset BY <1>0, <1>5 DEF Reset, Lower
<1>6. CASE LanRequest \/ LanStore \/ LanRecharge \/ LanSave
  BY <1>0, <1>6 DEF LanRequest, LanStore, LanRecharge, LanSave, store
<1>7. CASE LanWrite
  <2>1. lan.word = alarm BY <1>7 DEF LanWrite, Race, Without
  <2> QED BY <1>7, <2>1 DEF LanWrite
<1>8. CASE Normalise
  <2>1. PICK k \in Kinds : /\ alarm' \in {alarm \ {k}, alarm}
                           /\ raced' = raced \cup Race("word", k \in alarm')
                                \cup (IF k \notin alarm \ alarm' THEN {} ELSE
                                      {"console"} \cup Race("reread", pass.pc \in {"falls", "risen"})
                                                  \cup Race("boot", pass.pc = "start"))
    BY <1>8 DEF Normalise
  <2>2. k \notin alarm \ alarm' BY <2>1 DEF Without
  <2>3. alarm' = alarm BY <2>1, <2>2
  <2> QED BY <1>0, <1>8, <2>3 DEF Normalise, store
<1>9. CASE Boot BY <1>9 DEF Boot, store
<1>10. CASE ConsoleRequest \/ recharge5min_alarm \/ Settled \/ ZoneChanges
  BY <1>0, <1>10 DEF ConsoleRequest, recharge5min_alarm, Settled, ZoneChanges, store
<1>11. ASSUME NEW k \in Kinds, Debounced(k) \/ ResetTime(k) \/ RF_Poll(k) PROVE hist' = alarm'
  BY <1>0, <1>11 DEF Debounced, ResetTime, RF_Poll, store
<1>12. CASE UNCHANGED vars BY <1>0, <1>12 DEF vars, store
<1> QED
  BY <1>1, <1>2, <1>3, <1>4, <1>5, <1>6, <1>7, <1>8, <1>9, <1>10, <1>11, <1>12
  DEF Next, DetectStep, LanStep

(***************************************************************************)
(* The flash says which alarms are on, so that a restart at any point      *)
(* restores them, until the console resets one or LAN485_Task writes an    *)
(* old copy.                                                               *)
(***************************************************************************)
THEOREM AlarmSavedCorrect ==
  ASSUME ConstantsAssumption
  PROVE  Spec => []AlarmSaved
<1>1. Init => Typed /\ Located /\ AlarmSaved
  <2>1. Init => AlarmSaved BY DEF Init, AlarmSaved
  <2> QED BY <2>1, InitTyped
<1>2. Typed /\ Located /\ AlarmSaved /\ [Next]_vars => Typed' /\ Located' /\ AlarmSaved'
  BY NextTyped, NextSaved
<1> QED BY <1>1, <1>2, PTL DEF Spec

-----------------------------------------------------------------------------
(***************************************************************************)
(* The automatic reset.  Once its turn has come an alarm that is on is     *)
(* armed: no task raises one between the zones and the end of the pass,    *)
(* and none disarms one.                                                   *)
(***************************************************************************)
ArmedInv ==
  /\ pass.pc \in {"resets", "resetting"} => \A k \in alarm \ pass.left : ResetRuns(k)
  /\ pass.pc = "events" => \A k \in alarm : ResetRuns(k)

LEMMA NextArmed ==
  ASSUME ConstantsAssumption, Typed, Located, ArmedInv, [Next]_vars
  PROVE  ArmedInv'
<1>0. /\ auto \in [Kinds -> AutoReset] /\ saved \in [Kinds -> 0..NTop]
      /\ pass \in PassType /\ alarm \subseteq Kinds
  BY DEF Typed
<1>1. CASE Compare \/ ReportFall \/ ReportRise \/ RiseRecharged \/ EventsDone
  <2>1. pass'.pc \in {"falls", "risen", "zones"}
    <3>1. CASE Compare BY <3>1 DEF Compare, At
    <3>2. CASE ReportFall BY <1>0, <3>2 DEF ReportFall, PassType
    <3>3. CASE ReportRise BY <1>0, <3>3 DEF ReportRise, PassType
    <3>4. CASE RiseRecharged BY <1>0, <3>4 DEF RiseRecharged, PassType
    <3>5. CASE EventsDone BY <3>5, AtType DEF EventsDone
    <3> QED BY <1>1, <3>1, <3>2, <3>3, <3>4, <3>5
  <2> QED BY <2>1 DEF ArmedInv
<1>2. ASSUME NEW k \in Kinds, ZoneStep(k) \/ NotScanned(k) PROVE ArmedInv'
  <2>1. CASE Trigger(k)
    <3>1. pass'.pc = "triggered" BY <1>0, <2>1 DEF Trigger, PassType
    <3> QED BY <3>1 DEF ArmedInv
  <2>2. CASE TakeRequest(k) \/ Watch(k) \/ StillInAlarm(k) \/ NotScanned(k)
    <3>1. Turned(k) /\ NextZone(k)
      BY <2>2 DEF TakeRequest, Watch, StillInAlarm, NotScanned
    <3>2. pass'.pc = "zones" \/ (pass'.pc = "resets" /\ pass'.left = Kinds)
      BY <1>0, <3>1, NextZoneEffect
    <3>3. alarm' \subseteq Kinds BY NextTyped DEF Typed
    <3> QED BY <3>2, <3>3 DEF ArmedInv
  <2> QED BY <1>2, <2>1, <2>2 DEF ZoneStep
<1>3. CASE Triggered
  <2>1. pass'.pc = "zones" \/ (pass'.pc = "resets" /\ pass'.left = Kinds)
    BY <1>0, <1>3, AtType DEF Triggered, PassType
  <2>2. alarm' \subseteq Kinds BY NextTyped DEF Typed
  <2> QED BY <2>1, <2>2 DEF ArmedInv
<1>4. ASSUME NEW k \in Kinds, Arm(k) \/ NoReset(k) PROVE ArmedInv'
  <2>1. Resets(k) /\ NextReset(k) /\ UNCHANGED alarm BY <1>4 DEF Arm, NoReset
  <2>2. k \in pass.left BY <2>1, TurnLeft DEF Resets, Located
  <2>3. \A j \in alarm \ pass.left : ResetRuns(j) BY <2>1 DEF Resets, ArmedInv
  <2>4. \A j \in Kinds \ {k} : auto'[j] = auto[j]
    BY <1>0, <1>4, RechargeEffect DEF Arm, NoReset
  <2>5. k \in alarm => ResetRuns(k)'
    BY <1>0, <1>4, RechargeEffect DEF Arm, NoReset, ResetRuns
  <2>6. \A j \in alarm \ (pass.left \ {k}) : ResetRuns(j)'
    BY <1>0, <2>3, <2>4, <2>5 DEF ResetRuns
  <2>7. \/ pass'.pc = "events" /\ pass.left = {k}
        \/ pass'.pc = "resets" /\ pass'.left = pass.left \ {k}
    BY <1>0, <2>1, <2>2, NextResetEffect
  <2> QED BY <2>1, <2>6, <2>7 DEF ArmedInv
<1>5. ASSUME NEW k \in Kinds, Remember(k) PROVE ArmedInv'
  <2>1. k \in pass.left BY <1>5, TurnLeft DEF Remember, Resets, Located
  <2>2. \A j \in alarm \ pass.left : ResetRuns(j) BY <1>5 DEF Remember, Resets, ArmedInv
  <2>3. UNCHANGED alarm /\ pass'.pc = "resetting" /\ pass'.left = pass.left
    BY <1>0, <1>5 DEF Remember, PassType
  <2>4. \A j \in Kinds \ {k} : auto'[j] = auto[j] BY <1>0, <1>5 DEF Remember
  <2> QED BY <1>0, <2>1, <2>2, <2>3, <2>4 DEF ArmedInv, ResetRuns
<1>6. CASE Reset
  <2>1. PICK k \in pass.left : k = pass.kind /\ Restart(k) /\ Lower(k) /\ NextReset(k)
    BY <1>6 DEF Reset, Located
  <2>2. \A j \in alarm \ pass.left : ResetRuns(j) BY <1>6 DEF Reset, ArmedInv
  <2>3. \A j \in Kinds \ {k} : auto'[j] = auto[j] BY <1>0, <2>1 DEF Restart
  <2>4. alarm' = alarm \ {k} BY <2>1 DEF Lower
  <2>5. \A j \in alarm' \ (pass.left \ {k}) : ResetRuns(j)'
    BY <1>0, <2>2, <2>3, <2>4 DEF ResetRuns
  <2>6. \/ pass'.pc = "events" /\ pass.left = {k}
        \/ pass'.pc = "resets" /\ pass'.left = pass.left \ {k}
    BY <1>0, <2>1, NextResetEffect
  <2> QED BY <2>5, <2>6 DEF ArmedInv
<1>7. ASSUME UNCHANGED pass, alarm' \subseteq alarm, \A k \in alarm : ResetRuns(k) => ResetRuns(k)'
      PROVE  ArmedInv'
  BY <1>7 DEF ArmedInv
<1>8. CASE LanRecharge
  <2>1. lan.kind \in Kinds /\ Recharge(lan.kind) BY <1>8 DEF LanRecharge, Located
  <2>2. \A k \in alarm : ResetRuns(k) => ResetRuns(k)'
    BY <1>0, <2>1, RechargeEffect DEF ResetRuns
  <2> QED BY <1>7, <1>8, <2>2 DEF LanRecharge
<1>9. CASE Normalise
  <2>1. \A k \in alarm : auto'[k].st = auto[k].st /\ auto'[k].n = auto[k].n
    BY <1>0, <1>9 DEF Normalise, AutoReset
  <2>2. alarm' \subseteq alarm /\ UNCHANGED pass BY <1>9 DEF Normalise
  <2> QED BY <1>7, <2>1, <2>2 DEF ResetRuns
<1>10. CASE recharge5min_alarm
  <2>1. \A k \in alarm : auto'[k].st = "ALRMED" BY <1>0, <1>10 DEF recharge5min_alarm
  <2> QED BY <1>7, <1>10, <2>1 DEF recharge5min_alarm, ResetRuns
<1>11. ASSUME NEW k \in Kinds, ResetTime(k) \/ RF_Poll(k) PROVE ArmedInv'
  <2>1. \A j \in alarm : auto'[j].st = auto[j].st /\ auto'[j].n = auto[j].n
    BY <1>0, <1>11 DEF ResetTime, RF_Poll, AutoReset
  <2> QED BY <1>7, <1>11, <2>1 DEF ResetTime, RF_Poll, ResetRuns, store, history
<1>12. CASE Boot
  <2>1. pass'.pc = "start" BY <1>12, AtType DEF Boot
  <2> QED BY <2>1 DEF ArmedInv
<1>13. ASSUME UNCHANGED <<pass, alarm, auto>> PROVE ArmedInv'
  BY <1>7, <1>13 DEF ResetRuns
<1>14. CASE LanRequest \/ LanStore \/ LanWrite \/ LanSave
  BY <1>13, <1>14 DEF LanRequest, LanStore, LanWrite, LanSave
<1>15. CASE ConsoleRequest \/ Settled \/ ZoneChanges \/ \E k \in Kinds : Debounced(k)
  BY <1>13, <1>15 DEF ConsoleRequest, Settled, ZoneChanges, Debounced
<1>16. CASE UNCHANGED vars BY <1>13, <1>16 DEF vars
<1> QED
  BY <1>1, <1>2, <1>3, <1>4, <1>5, <1>6, <1>8, <1>9, <1>10, <1>11, <1>12, <1>14, <1>15, <1>16
  DEF Next, DetectStep, LanStep

(***************************************************************************)
(* When the reset machines have been round, every alarm that is on has its *)
(* automatic reset running, or had more signals than allow one: whatever   *)
(* LAN485_Task, the console and the cabinet's door recharge meanwhile.     *)
(***************************************************************************)
THEOREM ResetArmedCorrect ==
  ASSUME ConstantsAssumption
  PROVE  Spec => []ResetArmed
<1>1. Init => Typed /\ Located /\ ArmedInv
  <2>1. Init => ArmedInv BY DEF Init, ArmedInv
  <2> QED BY <2>1, InitTyped
<1>2. Typed /\ Located /\ ArmedInv /\ [Next]_vars => Typed' /\ Located' /\ ArmedInv'
  BY NextTyped, NextArmed
<1>3. ArmedInv => ResetArmed BY DEF ArmedInv, ResetArmed, ResetRuns
<1> QED BY <1>1, <1>2, <1>3, PTL DEF Spec

-----------------------------------------------------------------------------
(***************************************************************************)
(* What is held for the Macro.                                             *)
(***************************************************************************)

Clearing == apc \in {"clear", "store"}
Releasing == apc \in {"load", "take", "count", "counted", "copy"}

\* Where AlarmDetectTask is says what it still has to clear and in which state
\* the machine is.
Placed ==
  /\ apc = "loop" => todo = <<>>
  /\ Releasing \/ apc = "wrap" => st \in Slots /\ todo = <<>>
  /\ Clearing => \/ st = "guard" /\ todo = <<"gev">>
                 \/ st = "idle" /\ todo \in {BothBits, <<"second">>}

LEMMA SlotTypes ==
  /\ Slots \subseteq {"first", "second"} /\ "first" \in Slots /\ Bits = Slots \cup {"gev"}
  /\ Second <=> "second" \in Slots
  /\ BothBits = IF "second" \in Slots THEN <<"first", "second">> ELSE <<"first">>
  BY DEF Slots, Bits, BothBits

LEMMA WrapTypes ==
  ASSUME MacroAssumption, NEW p \in Nat PROVE Wrapped(p) \in Nat
  BY DEF MacroAssumption, Wrapped

LEMMA HoldInitTyped ==
  ASSUME MacroAssumption, HoldInit PROVE HoldTypeOK /\ Placed
<1>1. 0 \in 0 .. RingLen - 1 /\ 0 \in 0 .. MaxEvents /\ 0 \in 0 .. MaxOther
  BY DEF MacroAssumption
<1>2. Placed
  BY DEF HoldInit, Placed, Clearing, Releasing
<1> QED BY <1>1, <1>2 DEF HoldInit, HoldTypeOK

\* What the machine does in a pass that does not release.
LEMMA PassSteps ==
  ASSUME Pass, word \subseteq Bits
  PROVE  /\ apc = "loop" /\ unseen' = FALSE
         /\ UNCHANGED <<areg, awp, wreg, word, rng, logt, oth, owed, closed, mishaps>>
         /\ \/ /\ st = "idle" /\ UNCHANGED <<apc, todo>>
               /\ \/ UNCHANGED <<st, due>>
                  \/ st' \in Slots /\ st' \in word /\ due' = FALSE
            \/ /\ st \in Slots /\ Waiting = {} /\ st' = "idle" /\ UNCHANGED <<due, apc, todo>>
            \/ /\ Waiting = {} /\ st # "guard" /\ st' = "guard" /\ due' = FALSE
               /\ apc' = "clear" /\ todo' = <<"gev">>
            \/ /\ st = "first" /\ "second" \in word /\ st' = "second" /\ due' = FALSE
               /\ UNCHANGED <<apc, todo>>
            \/ /\ st \in Slots /\ Waiting # {} /\ ~(st = "first" /\ "second" \in word)
               /\ UNCHANGED st
               /\ \/ UNCHANGED <<apc, todo, due>>
                  \/ due /\ apc' = "load" /\ UNCHANGED <<due, todo>>
            \/ st = "guard" /\ UNCHANGED <<st, due, apc, todo>>
            \/ st = "guard" /\ due /\ st' = "idle" /\ apc' = "clear" /\ todo' = BothBits /\ UNCHANGED due
<1>1. CASE FromIdle
  <2>1. CASE "first" \in word
    BY <1>1, <2>1, SlotTypes DEF Pass, FromIdle, Await
  <2>2. CASE "second" \in word /\ "first" \notin word
    <3>1. "second" \in Slots
      BY <2>2, SlotTypes
    <3>0. "first" \notin word /\ word # {"gev"} /\ word # {}
      BY <2>2
    <3>2. st = "idle" /\ st' = "second" /\ due' = FALSE /\ apc' = apc /\ todo' = todo
      BY <1>1, <2>2, <3>0 DEF FromIdle, Await, Guard
    <3> QED BY <2>2, <3>1, <3>2 DEF Pass
  <2>3. CASE word = {"gev"}
    <3>1. "first" \notin word /\ "second" \notin word /\ Waiting = {}
      BY <2>3, SlotTypes DEF Waiting
    <3> QED BY <1>1, <2>3, <3>1 DEF Pass, FromIdle, Guard, Await
  <2>4. CASE word = {}
    BY <1>1, <2>4 DEF Pass, FromIdle
  <2> QED BY <2>1, <2>2, <2>3, <2>4, SlotTypes
<1>2. CASE FromHold
  BY <1>2, SlotTypes DEF Pass, FromHold, Await, Guard, Release, Waiting
<1>3. CASE FromGuard
  BY <1>3 DEF Pass, FromGuard
<1> QED BY <1>1, <1>2, <1>3 DEF Pass

LEMMA PassTyped ==
  ASSUME MacroAssumption, HoldTypeOK, Placed, Pass PROVE HoldTypeOK' /\ Placed'
<1>1. word \subseteq Bits
  BY DEF HoldTypeOK
<1>2. st' \in {"idle", "guard"} \cup Slots /\ due' \in BOOLEAN
  BY <1>1, PassSteps, SlotTypes DEF HoldTypeOK
<1>3. todo' \in {<<>>, <<"gev">>, BothBits, <<"second">>} /\ apc' \in {"loop", "load", "clear"}
  BY <1>1, PassSteps DEF HoldTypeOK, Placed
<1>4. HoldTypeOK'
  BY <1>1, <1>2, <1>3, PassSteps DEF HoldTypeOK, rng, logt, oth
<1>5. Placed'
  <2>1. todo = <<>>
    BY <1>1, PassSteps DEF Placed
  <2> QED BY <1>1, <2>1, PassSteps DEF Placed, Clearing, Releasing
<1> QED BY <1>4, <1>5

LEMMA LogTTyped ==
  ASSUME MacroAssumption, HoldTypeOK, Placed, LogT PROVE HoldTypeOK' /\ Placed'
<1>1. UNCHANGED <<st, due, apc, areg, awp, todo, wreg, oreg, nother>>
  BY DEF LogT, HoldEvent, DataEvent, PlainEvent, ServeStation1, mach, oth
<1>2. Placed'
  BY <1>1 DEF Placed, Clearing, Releasing
<1>3. /\ word' \subseteq Bits /\ closed' \subseteq Slots /\ owed' \in BOOLEAN /\ unseen' \in BOOLEAN
      /\ lmacro' \in BOOLEAN
  BY SlotTypes DEF HoldTypeOK, LogT, HoldEvent, DataEvent, PlainEvent, ServeStation1, PutLogT, ClosedBits,
     Waiting, notes
<1>4. n' \in 0 .. MaxEvents /\ lpc' \in {"idle", "station1"}
  BY DEF HoldTypeOK, MacroAssumption, LogT, HoldEvent, DataEvent, PlainEvent, ServeStation1, Served, Room
<1>5. wptr' \in Nat /\ rptr' \in 0 .. RingLen - 1 /\ cnt' \in Nat
  <2>1. UNCHANGED rng \/ (wptr' = Wrapped(wptr + 1) /\ cnt' = cnt + 1 /\ UNCHANGED rptr)
    BY DEF LogT, HoldEvent, DataEvent, PlainEvent, ServeStation1, PutLogT, rng
  <2>2. wptr + 1 \in Nat
    BY DEF HoldTypeOK
  <2>3. Wrapped(wptr + 1) \in Nat
    BY <2>2, WrapTypes
  <2> QED BY <2>1, <2>3 DEF HoldTypeOK, rng
<1>6. mishaps' \subseteq {"ptr", "count", "runoff", "blur", "late", "mute", "own", "slip"}
  <2>1. /\ RingRaces \subseteq {"ptr", "count", "runoff"} /\ DataRaces \subseteq {"late"}
    BY DEF RingRaces, DataRaces
  <2> QED BY <2>1 DEF HoldTypeOK, LogT, HoldEvent, DataEvent, PlainEvent, ServeStation1, PutLogT, notes
<1> QED BY <1>1, <1>2, <1>3, <1>4, <1>5, <1>6 DEF HoldTypeOK

\* The clearing of the flags: one at a time, from the first.
LEMMA TodoSteps ==
  ASSUME HoldTypeOK, Placed, apc = "store"
  PROVE  \/ /\ todo = <<"gev">> /\ Head(todo) = "gev" /\ Tail(todo) = <<>> /\ Len(todo) = 1
         \/ /\ todo = <<"first", "second">> /\ todo = BothBits /\ "second" \in Slots
            /\ Head(todo) = "first" /\ Tail(todo) = <<"second">> /\ Len(todo) = 2
         \/ /\ todo = <<"first">> /\ todo = BothBits /\ "second" \notin Slots
            /\ Head(todo) = "first" /\ Tail(todo) = <<>> /\ Len(todo) = 1
         \/ /\ todo = <<"second">> /\ Head(todo) = "second" /\ Tail(todo) = <<>> /\ Len(todo) = 1
<1>1. todo \in {<<"gev">>, BothBits, <<"second">>}
  BY DEF Placed, Clearing
<1>2. CASE todo = <<"gev">>
  BY <1>2
<1>3. CASE todo = <<"second">>
  BY <1>3
<1>4. CASE todo = BothBits /\ "second" \in Slots
  <2>1. todo = <<"first", "second">>
    BY <1>4, SlotTypes
  <2>2. Head(todo) = "first" /\ Tail(todo) = <<"second">> /\ Len(todo) = 2
    BY <2>1
  <2> QED BY <1>4, <2>1, <2>2
<1>5. CASE todo = BothBits /\ "second" \notin Slots
  <2>1. todo = <<"first">>
    BY <1>5, SlotTypes
  <2>2. Head(todo) = "first" /\ Tail(todo) = <<>> /\ Len(todo) = 1
    BY <2>1
  <2> QED BY <1>5, <2>1, <2>2
<1> QED BY <1>1, <1>2, <1>3, <1>4, <1>5

LEMMA StoreTyped ==
  ASSUME MacroAssumption, HoldTypeOK, Placed, StoreFlags PROVE HoldTypeOK' /\ Placed'
<1>1. /\ apc = "store" /\ word' = wreg \ {Head(todo)} /\ wreg' = {} /\ todo' = Tail(todo)
      /\ apc' = IF Len(todo) = 1 THEN "loop" ELSE "clear"
      /\ mishaps' \subseteq mishaps \cup {"own"}
      /\ UNCHANGED <<st, due, areg, awp, rng, logt, oth, owed, closed, unseen>>
  BY DEF StoreFlags
<1>2. /\ todo' \in {<<>>, <<"second">>} /\ (todo' = <<>> <=> apc' = "loop")
      /\ todo # <<"gev">> \/ todo' = <<>>
  BY <1>1, TodoSteps
<1>3. HoldTypeOK'
  BY <1>1, <1>2 DEF HoldTypeOK, rng, logt, oth
<1>4. Placed'
  BY <1>1, <1>2 DEF Placed, Clearing, Releasing
<1> QED BY <1>3, <1>4

LEMMA RestTyped ==
  ASSUME MacroAssumption, HoldTypeOK, Placed,
         LoadPosition \/ StorePosition \/ LoadCount \/ StoreCount \/ CopyHeld \/ WrapPosition
           \/ LoadFlags \/ Timeout \/ OtherLoad \/ OtherStore \/ ReadOut
  PROVE  HoldTypeOK' /\ Placed'
<1> USE DEF rng, logt, mach, oth, notes
<1>1. CASE LoadPosition
  BY <1>1 DEF LoadPosition, HoldTypeOK, Placed, Clearing, Releasing
<1>2. CASE StorePosition
  BY <1>2 DEF StorePosition, HoldTypeOK, Placed, Clearing, Releasing
<1>3. CASE LoadCount
  BY <1>3 DEF LoadCount, HoldTypeOK, Placed, Clearing, Releasing
<1>4. CASE StoreCount
  BY <1>4 DEF StoreCount, HoldTypeOK, Placed, Clearing, Releasing
<1>5. CASE CopyHeld
  BY <1>5 DEF CopyHeld, HoldTypeOK, Placed, Clearing, Releasing, Waiting, Released
<1>6. CASE WrapPosition
  BY <1>6, WrapTypes DEF WrapPosition, HoldTypeOK, Placed, Clearing, Releasing
<1>7. CASE LoadFlags
  BY <1>7 DEF LoadFlags, HoldTypeOK, Placed, Clearing, Releasing
<1>8. CASE Timeout
  BY <1>8 DEF Timeout, HoldTypeOK, Placed, Clearing, Releasing
<1>9. CASE OtherLoad
  BY <1>9 DEF OtherLoad, HoldTypeOK, Placed, Clearing, Releasing, MacroAssumption
<1>10. CASE OtherStore
  BY <1>10 DEF OtherStore, HoldTypeOK, Placed, Clearing, Releasing
<1>11. CASE ReadOut
  <2>1. (rptr + 1) % RingLen \in 0 .. RingLen - 1 /\ cnt - 1 \in Nat
    BY <1>11 DEF ReadOut, HoldTypeOK, MacroAssumption
  <2> QED BY <1>11, <2>1 DEF ReadOut, HoldTypeOK, Placed, Clearing, Releasing
<1> QED BY <1>1, <1>2, <1>3, <1>4, <1>5, <1>6, <1>7, <1>8, <1>9, <1>10, <1>11

LEMMA HoldNextTyped ==
  ASSUME MacroAssumption, HoldTypeOK, Placed, [HoldNext]_holdVars PROVE HoldTypeOK' /\ Placed'
<1>1. CASE UNCHANGED holdVars
  BY <1>1 DEF holdVars, rng, logt, mach, oth, notes, HoldTypeOK, Placed, Clearing, Releasing
<1> QED BY <1>1, PassTyped, LogTTyped, StoreTyped, RestTyped DEF HoldNext, AlarmDetect

(***************************************************************************)
(* The variables keep their types: the task that clears the flags knows    *)
(* which, and no machine of one partition clears or keeps a bit of two.    *)
(***************************************************************************)
THEOREM HoldTypeCorrect ==
  ASSUME MacroAssumption
  PROVE  HoldSpec => []HoldTypeOK
<1>1. HoldInit => HoldTypeOK /\ Placed BY HoldInitTyped
<1>2. HoldTypeOK /\ Placed /\ [HoldNext]_holdVars => HoldTypeOK' /\ Placed' BY HoldNextTyped
<1> QED BY <1>1, <1>2, PTL DEF HoldSpec

-----------------------------------------------------------------------------
(* What is held is told.                                                   *)

\* While an alarm is owed an event waits and nothing that would clear it
\* without telling it is under way.
Owed ==
  owed /\ mishaps \cap {"mute", "slip"} = {} => Waiting # {} /\ ~Covered

LEMMA OwedNext ==
  ASSUME MacroAssumption, HoldTypeOK, Placed, Owed, [HoldNext]_holdVars PROVE Owed'
<1> SUFFICES ASSUME owed', mishaps' \cap {"mute", "slip"} = {}
             PROVE  (Slots \cap word)' # {} /\ ~Covered'
  BY DEF Owed, Waiting
<1> USE DEF Waiting
<1>1. CASE UNCHANGED holdVars
  BY <1>1 DEF holdVars, notes, mach, Owed, Covered
<1>2. CASE LogT
  <2>1. UNCHANGED <<st, apc, todo>> /\ (Covered' <=> Covered)
    BY <1>2 DEF LogT, HoldEvent, DataEvent, PlainEvent, ServeStation1, mach, Covered
  <2>2. ASSUME NEW s \in Slots, NEW conv \in BOOLEAN, HoldEvent(s, conv)
        PROVE  (Slots \cap word)' # {} /\ ~Covered'
    BY <2>1, <2>2 DEF HoldEvent, Owed
  <2>3. ASSUME NEW fwd \in BOOLEAN, DataEvent(fwd)
        PROVE  (Slots \cap word)' # {} /\ ~Covered'
    BY <2>3 DEF DataEvent
  <2>4. CASE PlainEvent \/ ServeStation1
    BY <2>1, <2>4 DEF PlainEvent, ServeStation1, PutLogT, notes, Owed
  <2> QED BY <1>2, <2>2, <2>3, <2>4 DEF LogT
<1>3. CASE Pass
  <2>1. word \subseteq Bits /\ todo = <<>>
    BY <1>3, PassSteps DEF HoldTypeOK, Placed, Pass
  <2>2. owed /\ mishaps \cap {"mute", "slip"} = {} /\ Slots \cap word # {} /\ st # "guard" /\ word' = word
    BY <1>3, <2>1, PassSteps DEF Owed, Covered
  <2>3. st' # "guard" /\ apc' # "wrap" /\ todo' = <<>>
    BY <1>3, <2>1, <2>2, PassSteps, SlotTypes
  <2> QED BY <2>2, <2>3 DEF Covered
<1>4. CASE LoadPosition \/ StorePosition \/ LoadCount \/ StoreCount \/ LoadFlags \/ Timeout \/ ReadOut
           \/ OtherLoad
  BY <1>4 DEF LoadPosition, StorePosition, LoadCount, StoreCount, LoadFlags, Timeout, ReadOut, OtherLoad,
     notes, mach, Owed, Covered
<1>5. CASE CopyHeld
  BY <1>5 DEF CopyHeld
<1>7. CASE WrapPosition
  BY <1>7 DEF WrapPosition, notes, Owed, Covered
<1>8. CASE StoreFlags
  <2>1. todo # <<>>
    BY <1>8, TodoSteps DEF StoreFlags
  <2> QED BY <1>8, <2>1 DEF StoreFlags, Owed, Covered
<1>6. CASE OtherStore
  BY <1>6 DEF OtherStore, mach, Owed, Covered
<1> QED BY <1>1, <1>2, <1>3, <1>4, <1>5, <1>6, <1>7, <1>8 DEF HoldNext, AlarmDetect

(***************************************************************************)
(* Whatever LogT_Task interrupts, the last event held for the Macro is not *)
(* dropped before the Macro is told, except by the two mishaps named.      *)
(***************************************************************************)
THEOREM NotForgottenCorrect ==
  ASSUME MacroAssumption
  PROVE  HoldSpec => []NotForgotten
<1> DEFINE I == HoldTypeOK /\ Placed /\ Owed
<1>1. HoldInit => I BY HoldInitTyped DEF HoldInit, Owed
<1>2. I /\ [HoldNext]_holdVars => I' BY HoldNextTyped, OwedNext
<1>3. I => NotForgotten BY DEF Owed, NotForgotten, Waiting
<1> QED BY <1>1, <1>2, <1>3, PTL DEF HoldSpec

-----------------------------------------------------------------------------
(* What has been closed is not sent.                                       *)

\* What is held is open but for what is about to be cleared; the partition the
\* machine waits for is open unless a data event has come since its last pass
\* and nothing has been held since; the one it is releasing is open.
Open ==
  mishaps \cap {"blur", "late", "own", "slip"} = {} =>
    /\ \A s \in Waiting \cap closed :
         \/ apc = "wrap" \/ todo = BothBits
         \/ s = "second" /\ todo = <<"second">>
    /\ apc = "loop" /\ st \in closed => unseen /\ Waiting = {}
    /\ Releasing => st \notin closed

LEMMA OpenNext ==
  ASSUME MacroAssumption, HoldTypeOK, Placed, Open, [HoldNext]_holdVars PROVE Open'
<1> DEFINE Quiet == mishaps \cap {"blur", "late", "own", "slip"} = {}
<1> SUFFICES ASSUME Quiet'
             PROVE  /\ \A s \in Slots \cap word' \cap closed' :
                         \/ apc' = "wrap" \/ todo' = BothBits
                         \/ s = "second" /\ todo' = <<"second">>
                    /\ apc' = "loop" /\ st' \in closed' => unseen' /\ Slots \cap word' = {}
                    /\ Releasing' => st' \notin closed'
  BY DEF Open, Waiting
<1>t. BothBits # <<>> /\ <<"second">> # <<>>
  BY SlotTypes
<1>1. CASE UNCHANGED holdVars
  BY <1>1 DEF holdVars, notes, mach, Open, Releasing, Waiting
<1>2. CASE LogT
  <2>1. UNCHANGED <<st, apc, todo>>
    BY <1>2 DEF LogT, HoldEvent, DataEvent, PlainEvent, ServeStation1, mach
  <2>2. CASE \E s \in Slots, conv \in BOOLEAN : HoldEvent(s, conv)
    <3>1. PICK s \in Slots : /\ word' = word \cup {s} /\ closed' = closed \ {s} /\ UNCHANGED unseen
                              /\ mishaps' = mishaps \cup (IF unseen THEN {"blur"} ELSE {})
      BY <2>2 DEF HoldEvent
    <3>2. Quiet /\ ~unseen
      BY <3>1 DEF HoldTypeOK
    <3> QED BY <2>1, <3>1, <3>2 DEF Open, Waiting, Releasing
  <2>3. CASE \E fwd \in BOOLEAN : DataEvent(fwd)
    <3>1. /\ word' = (word \ Slots) \cup {"gev"} /\ closed' = closed \cup Waiting /\ unseen' = TRUE
          /\ mishaps \cup DataRaces \subseteq mishaps'
      BY <2>3 DEF DataEvent, ClosedBits, PutLogT
    <3>2. Slots \cap word' = {}
      BY <3>1, SlotTypes
    <3>3. ~Releasing
      BY <3>1 DEF DataRaces, Releasing
    <3> QED BY <2>1, <3>1, <3>2, <3>3 DEF Releasing
  <2>4. CASE PlainEvent \/ ServeStation1
    <3>1. UNCHANGED <<word, closed, unseen>> /\ mishaps \subseteq mishaps'
      BY <2>4 DEF PlainEvent, ServeStation1, PutLogT, notes
    <3> QED BY <2>1, <3>1 DEF Open, Waiting, Releasing
  <2> QED BY <1>2, <2>2, <2>3, <2>4 DEF LogT
<1>3. CASE Pass
  <2>1. word \subseteq Bits /\ apc = "loop" /\ todo = <<>>
    BY <1>3 DEF HoldTypeOK, Placed, Pass
  <2>2. UNCHANGED <<word, closed>> /\ Quiet
    BY <1>3 DEF Pass
  <2>3. \A s \in Slots \cap word : s \notin closed
    BY <1>t, <2>1, <2>2 DEF Open, Waiting
  <2>4. st \in closed => Slots \cap word = {}
    BY <2>1, <2>2 DEF Open, Waiting
  <2>5. closed \subseteq Slots /\ "idle" \notin Slots /\ "guard" \notin Slots
    BY SlotTypes DEF HoldTypeOK
  <2>6. st' \in closed' => UNCHANGED <<st, apc>> /\ ~(Slots \cap word # {} /\ st \in Slots)
    BY <1>3, <2>1, <2>2, <2>3, <2>4, <2>5, PassSteps, SlotTypes DEF Waiting
  <2>7. CASE st' \in closed'
    <3>1. st \in Slots /\ Slots \cap word = {} /\ st \notin {"idle", "guard"}
      BY <2>2, <2>4, <2>5, <2>6, <2>7
    <3> QED BY <1>3, <2>1, <2>6, <3>1, PassSteps DEF Waiting
  <2>8. CASE st' \notin closed'
    BY <2>2, <2>3, <2>8
  <2> QED BY <2>7, <2>8
<1>4. CASE LoadPosition \/ StorePosition \/ LoadCount \/ StoreCount
  BY <1>4 DEF LoadPosition, StorePosition, LoadCount, StoreCount, notes, Open, Releasing, Waiting
<1>5. CASE CopyHeld
  BY <1>5 DEF CopyHeld, Releasing
<1>6. CASE WrapPosition
  BY <1>6 DEF WrapPosition, Releasing
<1>7. CASE LoadFlags
  BY <1>7 DEF LoadFlags, notes, Open, Releasing, Waiting
<1>8. CASE StoreFlags
  <2>1. /\ apc = "store" /\ word' = wreg \ {Head(todo)} /\ todo' = Tail(todo)
        /\ apc' = (IF Len(todo) = 1 THEN "loop" ELSE "clear")
        /\ mishaps' = mishaps \cup (IF word # wreg THEN {"own"} ELSE {})
        /\ UNCHANGED <<st, closed>>
    BY <1>8 DEF StoreFlags
  <2>2. Quiet /\ word' = word \ {Head(todo)}
    BY <2>1
  <2>3. st \notin closed /\ ~Releasing'
    BY <2>1, SlotTypes DEF Placed, Clearing, Releasing, HoldTypeOK
  <2>4. \A s \in Slots \cap word \cap closed : todo = BothBits \/ (s = "second" /\ todo = <<"second">>)
    BY <2>1, <2>2 DEF Open, Waiting
  <2>5. \A s \in Slots \cap word' \cap closed' : s = "second" /\ todo' = <<"second">>
    BY <2>1, <2>2, <2>4, TodoSteps, SlotTypes
  <2> QED BY <2>1, <2>3, <2>5
<1>9. CASE Timeout \/ ReadOut \/ OtherLoad
  BY <1>9 DEF Timeout, ReadOut, OtherLoad, notes, mach, Open, Releasing, Waiting
<1>10. CASE OtherStore
  BY <1>10 DEF OtherStore, mach, Open, Releasing, Waiting
<1> QED BY <1>1, <1>2, <1>3, <1>4, <1>5, <1>6, <1>7, <1>8, <1>9, <1>10 DEF HoldNext, AlarmDetect

(***************************************************************************)
(* No machine sends an event that a data event or an earlier release has   *)
(* closed, but for the mishaps named.                                      *)
(***************************************************************************)
THEOREM SentOnceCorrect ==
  ASSUME MacroAssumption
  PROVE  HoldSpec => SentOnce
<1> DEFINE I == HoldTypeOK /\ Placed /\ Open
<1>1. HoldInit => I BY HoldInitTyped DEF HoldInit, Open, Releasing
<1>2. I /\ [HoldNext]_holdVars => I' BY HoldNextTyped, OpenNext
<1>3. I => SendsOpen BY DEF Open, SendsOpen, Released, Releasing
<1> QED BY <1>1, <1>2, <1>3, PTL DEF HoldSpec, SentOnce

-----------------------------------------------------------------------------
(* The ring.                                                               *)

Writing == apc \in {"count", "counted", "copy", "wrap"}

\* The position a release has taken is one past the array at most.
Inside ==
  "runoff" \notin mishaps =>
    /\ wptr < RingLen \/ (Writing /\ wptr = RingLen)
    /\ apc = "take" => areg < RingLen

LEMMA InsideNext ==
  ASSUME MacroAssumption, HoldTypeOK, Inside, [HoldNext]_holdVars PROVE Inside'
<1> USE DEF rng, mach, notes
<1>t. RingLen \in Nat \ {0} /\ wptr \in Nat /\ areg \in Nat
  BY DEF MacroAssumption, HoldTypeOK
<1> SUFFICES ASSUME "runoff" \notin mishaps'
             PROVE  /\ wptr' < RingLen \/ (Writing' /\ wptr' = RingLen)
                    /\ apc' = "take" => areg' < RingLen
  BY DEF Inside
<1>1. CASE UNCHANGED holdVars
  BY <1>1 DEF holdVars, Inside, Writing
<1>2. CASE LogT
  <2>1. UNCHANGED <<apc, areg>> /\ mishaps \subseteq mishaps'
    BY <1>2 DEF LogT, HoldEvent, DataEvent, PlainEvent, ServeStation1, PutLogT
  <2>2. CASE UNCHANGED wptr
    BY <2>1, <2>2 DEF Inside, Writing
  <2>3. CASE wptr' = Wrapped(wptr + 1) /\ RingRaces \subseteq mishaps'
    <3>1. wptr < RingLen
      <4>1. SUFFICES ASSUME Writing /\ wptr = RingLen PROVE FALSE
        BY <2>1 DEF Inside
      <4>2. apc \in {"count", "counted", "copy", "wrap"} /\ wptr >= RingLen
        BY <1>t, <4>1 DEF Writing
      <4>4. "runoff" \in RingRaces
        BY <4>2 DEF RingRaces
      <4> QED BY <2>3, <4>4
    <3>2. wptr' < RingLen
      BY <1>t, <2>3, <3>1 DEF Wrapped
    <3> QED BY <2>1, <3>2 DEF Inside
  <2> QED BY <1>2, <2>2, <2>3 DEF LogT, HoldEvent, DataEvent, PlainEvent, ServeStation1, PutLogT
<1>3. CASE Pass
  BY <1>3, PassSteps DEF Inside, Writing, HoldTypeOK
<1>4. CASE LoadPosition
  BY <1>4 DEF LoadPosition, Inside, Writing
<1>5. CASE StorePosition
  BY <1>5, <1>t DEF StorePosition, Inside, Writing
<1>6. CASE LoadCount \/ StoreCount \/ CopyHeld
  BY <1>6 DEF LoadCount, StoreCount, CopyHeld, Inside, Writing
<1>7. CASE WrapPosition
  BY <1>7, <1>t DEF WrapPosition, Inside, Writing, Wrapped
<1>8. CASE LoadFlags \/ StoreFlags
  <2>1. apc \in {"clear", "store"} /\ apc' # "take" /\ wptr' = wptr /\ mishaps \subseteq mishaps'
    BY <1>8 DEF LoadFlags, StoreFlags
  <2> QED BY <2>1 DEF Inside, Writing
<1>9. CASE Timeout \/ OtherLoad \/ OtherStore \/ ReadOut
  BY <1>9 DEF Timeout, OtherLoad, OtherStore, ReadOut, Inside, Writing
<1> QED BY <1>1, <1>2, <1>3, <1>4, <1>5, <1>6, <1>7, <1>8, <1>9 DEF HoldNext, AlarmDetect

(***************************************************************************)
(* The write position of ring 0 is inside the array between two writes,    *)
(* until LogT_Task writes at its end in the middle of a release.           *)
(***************************************************************************)
THEOREM PositionInsideCorrect ==
  ASSUME MacroAssumption
  PROVE  HoldSpec => []PositionInside
<1> DEFINE I == HoldTypeOK /\ Placed /\ Inside
<1>1. HoldInit => I
  <2>1. HoldInit => Inside BY DEF HoldInit, Inside, MacroAssumption
  <2> QED BY <2>1, HoldInitTyped
<1>2. I /\ [HoldNext]_holdVars => I' BY HoldNextTyped, InsideNext
<1>3. I => PositionInside BY DEF Inside, PositionInside, Writing
<1> QED BY <1>1, <1>2, <1>3, PTL DEF HoldSpec

\* What eventRec_count will be when the release that has taken a place has
\* counted it.
ToCount == IF apc \in {"count", "counted"} THEN cnt + 1 ELSE cnt

\* The count is the way from the read position to the write position, rounds
\* included; what AlarmDetectTask has loaded is what it would load now.
Between ==
  mishaps \cap {"ptr", "count", "runoff"} = {} =>
    /\ apc = "take" => areg = wptr
    /\ apc = "counted" => areg = cnt
    /\ \E k \in Int : ToCount + rptr = wptr + k * RingLen

LEMMA BetweenNext ==
  ASSUME MacroAssumption, HoldTypeOK, Inside, Between, [HoldNext]_holdVars PROVE Between'
<1> USE DEF rng, mach, notes
<1> SUFFICES ASSUME mishaps' \cap {"ptr", "count", "runoff"} = {}
             PROVE  /\ apc' = "take" => areg' = wptr'
                    /\ apc' = "counted" => areg' = cnt'
                    /\ \E k \in Int : ToCount' + rptr' = wptr' + k * RingLen
  BY DEF Between
<1>m. mishaps \subseteq mishaps'
  BY DEF HoldNext, LogT, HoldEvent, DataEvent, PlainEvent, ServeStation1, PutLogT, AlarmDetect, Pass, LoadPosition,
     StorePosition, LoadCount, StoreCount, CopyHeld, WrapPosition, LoadFlags, StoreFlags, Timeout, OtherLoad,
     OtherStore, ReadOut, holdVars
<1>t. /\ RingLen \in Nat \ {0} /\ wptr \in Nat /\ areg \in Nat /\ cnt \in Nat /\ rptr \in 0 .. RingLen - 1
      /\ ToCount \in Nat
  BY DEF MacroAssumption, HoldTypeOK, ToCount
<1>c. /\ apc = "take" => areg = wptr
      /\ apc = "counted" => areg = cnt
  BY <1>m DEF Between
<1>k. PICK k \in Int : ToCount + rptr = wptr + k * RingLen
  BY <1>m DEF Between
<1>a. k * RingLen \in Int /\ (k + 1) * RingLen = k * RingLen + RingLen /\ (k - 1) * RingLen = k * RingLen - RingLen
  BY <1>t, <1>k
<1>1. CASE UNCHANGED holdVars
  BY <1>1, <1>c, <1>k DEF holdVars, ToCount
<1>2. CASE LogT
  <2>1. UNCHANGED <<apc, areg, rptr>>
    BY <1>2 DEF LogT, HoldEvent, DataEvent, PlainEvent, ServeStation1, PutLogT
  <2>2. CASE UNCHANGED <<wptr, cnt>>
    BY <1>c, <1>k, <2>1, <2>2 DEF ToCount
  <2>3. CASE wptr' = Wrapped(wptr + 1) /\ cnt' = cnt + 1 /\ RingRaces \subseteq mishaps'
    <3>1. apc \notin {"take", "counted"}
      BY <2>3 DEF RingRaces
    <3>2. ToCount' = ToCount + 1
      BY <1>t, <2>1, <2>3 DEF ToCount
    <3>3. CASE wptr + 1 = RingLen
      <4>1. wptr' = 0
        BY <2>3, <3>3 DEF Wrapped
      <4>2. ToCount' + rptr' = wptr' + (k + 1) * RingLen
        BY <1>a, <1>k, <1>t, <2>1, <3>2, <3>3, <4>1
      <4> QED BY <1>k, <2>1, <3>1, <4>2
    <3>4. CASE wptr + 1 # RingLen
      <4>1. wptr' = wptr + 1
        BY <2>3, <3>4 DEF Wrapped
      <4>2. ToCount' + rptr' = wptr' + k * RingLen
        BY <1>a, <1>k, <1>t, <2>1, <3>2, <4>1
      <4> QED BY <1>k, <2>1, <3>1, <4>2
    <3> QED BY <3>3, <3>4
  <2> QED BY <1>2, <2>2, <2>3 DEF LogT, HoldEvent, DataEvent, PlainEvent, ServeStation1, PutLogT
<1>3. CASE Pass
  <2>1. UNCHANGED <<wptr, rptr, cnt>> /\ apc = "loop" /\ apc' \in {"loop", "clear", "load"}
    BY <1>3, PassSteps DEF HoldTypeOK
  <2> QED BY <1>k, <2>1 DEF ToCount
<1>4. CASE LoadPosition
  BY <1>4, <1>k DEF LoadPosition, ToCount
<1>5. CASE StorePosition
  <2>1. ToCount' = ToCount + 1 /\ wptr' = wptr + 1 /\ rptr' = rptr /\ apc' = "count"
    BY <1>5, <1>c DEF StorePosition, ToCount
  <2>2. ToCount' + rptr' = wptr' + k * RingLen
    BY <1>a, <1>k, <1>t, <2>1
  <2> QED BY <1>k, <2>1, <2>2
<1>6. CASE LoadCount
  BY <1>6, <1>k DEF LoadCount, ToCount
<1>7. CASE StoreCount
  BY <1>7, <1>c, <1>k DEF StoreCount, ToCount
<1>8. CASE CopyHeld
  BY <1>8, <1>k DEF CopyHeld, ToCount
<1>9. CASE WrapPosition
  <2>1. ToCount' = ToCount /\ rptr' = rptr /\ apc' = "clear" /\ wptr' = Wrapped(wptr)
    BY <1>9 DEF WrapPosition, ToCount
  <2>2. CASE wptr = RingLen
    <3>1. ToCount' + rptr' = wptr' + (k + 1) * RingLen
      BY <1>a, <1>k, <1>t, <2>1, <2>2 DEF Wrapped
    <3> QED BY <1>k, <2>1, <3>1
  <2>3. CASE wptr # RingLen
    BY <1>k, <2>1, <2>3 DEF Wrapped
  <2> QED BY <2>2, <2>3
<1>10. CASE LoadFlags \/ StoreFlags
  <2>1. UNCHANGED <<wptr, rptr, cnt>> /\ apc \in {"clear", "store"} /\ apc' \in {"loop", "clear", "store"}
    BY <1>10 DEF LoadFlags, StoreFlags
  <2> QED BY <1>k, <2>1 DEF ToCount
<1>11. CASE Timeout \/ OtherLoad \/ OtherStore
  BY <1>11, <1>c, <1>k DEF Timeout, OtherLoad, OtherStore, ToCount
<1>12. CASE ReadOut
  <2>1. /\ apc = "loop" /\ apc' = "loop" /\ cnt' = cnt - 1 /\ wptr' = wptr
        /\ ToCount' = ToCount - 1 /\ rptr' = (rptr + 1) % RingLen
    BY <1>12 DEF ReadOut, ToCount
  <2>2. CASE rptr + 1 = RingLen
    <3>1. rptr' = 0
      BY <1>t, <2>1, <2>2
    <3>2. ToCount' + rptr' = wptr' + (k - 1) * RingLen
      BY <1>a, <1>k, <1>t, <2>1, <2>2, <3>1
    <3> QED BY <1>k, <2>1, <3>2
  <2>3. CASE rptr + 1 # RingLen
    <3>1. rptr' = rptr + 1
      BY <1>t, <2>1, <2>3
    <3>2. ToCount' + rptr' = wptr' + k * RingLen
      BY <1>a, <1>k, <1>t, <2>1, <3>1
    <3> QED BY <1>k, <2>1, <3>2
  <2> QED BY <2>2, <2>3
<1> QED BY <1>1, <1>2, <1>3, <1>4, <1>5, <1>6, <1>7, <1>8, <1>9, <1>10, <1>11, <1>12 DEF HoldNext, AlarmDetect

\* A ring's positions differ by less than a round.
LEMMA Rounds ==
  ASSUME NEW c \in Nat, NEW R \in Nat \ {0}, NEW r \in 0 .. R - 1, NEW w \in 0 .. R - 1, NEW k \in Int,
         c + r = w + k * R
  PROVE  k \in 0 .. c
<1>1. k * R \in Int /\ c * R \in Nat /\ c * R >= c /\ (c + 1) * R = c * R + R
  OBVIOUS
<1>2. k >= 0
  <2>1. SUFFICES ASSUME k <= -1 PROVE FALSE
    OBVIOUS
  <2>2. k * R <= -R
    BY <2>1
  <2> QED BY <1>1, <2>2
<1>3. k <= c
  <2>1. SUFFICES ASSUME k >= c + 1 PROVE FALSE
    OBVIOUS
  <2>2. k * R >= (c + 1) * R
    BY <2>1
  <2> QED BY <1>1, <2>2
<1> QED BY <1>2, <1>3

(***************************************************************************)
(* Ring 0 holds as many events as eventRec_count says, rounds aside, for   *)
(* rings of any length, until LogT_Task comes between a load and its store *)
(* or writes past the end.                                                 *)
(***************************************************************************)
THEOREM CountSoundCorrect ==
  ASSUME MacroAssumption
  PROVE  HoldSpec => []CountSound
<1> DEFINE I == HoldTypeOK /\ Placed /\ Inside /\ Between
<1>1. HoldInit => I
  <2>1. HoldInit => Between
    <3>1. SUFFICES ASSUME HoldInit PROVE Between
      OBVIOUS
    <3>2. ToCount + rptr = wptr + 0 * RingLen /\ apc = "loop" /\ 0 \in Int
      BY <3>1 DEF HoldInit, ToCount, MacroAssumption
    <3> QED BY <3>2 DEF Between
  <2>2. HoldInit => Inside BY DEF HoldInit, Inside, MacroAssumption
  <2> QED BY <2>1, <2>2, HoldInitTyped
<1>2. I /\ [HoldNext]_holdVars => I' BY HoldNextTyped, InsideNext, BetweenNext
<1>3. I => CountSound
  <2> SUFFICES ASSUME I, apc \in {"loop", "load", "clear", "store"},
                      mishaps \cap {"ptr", "count", "runoff"} = {}
               PROVE  \E rounds \in 0 .. cnt : rptr + cnt = wptr + rounds * RingLen
    BY DEF CountSound
  <2>1. PICK k \in Int : cnt + rptr = wptr + k * RingLen
    BY DEF Between, ToCount
  <2>2. RingLen \in Nat \ {0} /\ cnt \in Nat /\ wptr \in 0 .. RingLen - 1 /\ rptr \in 0 .. RingLen - 1
    BY DEF HoldTypeOK, MacroAssumption, Inside, Writing
  <2>3. k \in 0 .. cnt
    BY <2>1, <2>2, Rounds
  <2>4. rptr + cnt = wptr + k * RingLen
    BY <2>1, <2>2
  <2> QED BY <2>3, <2>4
<1> QED BY <1>1, <1>2, <1>3, PTL DEF HoldSpec

-----------------------------------------------------------------------------
(* The broken lines.                                                       *)

LEMMA BandValues ==
  ASSUME NEW v \in Nat PROVE Band(v) \in {"normal", "event", "indef", "broken"}
  BY DEF Band

\* A set of zones has a least one.
LEMMA LeastZone ==
  ASSUME NEW S, S \subseteq 0 .. 7, S # {} PROVE \E z \in S : \A y \in S : z <= y
<1>1. CASE 0 \in S BY <1>1
<1>2. CASE 0 \notin S /\ 1 \in S BY <1>2
<1>3. CASE S \cap (0 .. 1) = {} /\ 2 \in S BY <1>3
<1>4. CASE S \cap (0 .. 2) = {} /\ 3 \in S BY <1>4
<1>5. CASE S \cap (0 .. 3) = {} /\ 4 \in S BY <1>5
<1>6. CASE S \cap (0 .. 4) = {} /\ 5 \in S BY <1>6
<1>7. CASE S \cap (0 .. 5) = {} /\ 6 \in S BY <1>7
<1>8. CASE S \cap (0 .. 6) = {}
  <2>1. \A z \in S : z = 7
    BY <1>8
  <2>2. PICK z \in S : TRUE
    OBVIOUS
  <2>3. \A y \in S : z <= y
    BY <2>1, <2>2
  <2> QED BY <2>3
<1> QED BY <1>1, <1>2, <1>3, <1>4, <1>5, <1>6, <1>7, <1>8

LEMMA ZoneAfterType ==
  ASSUME ZoneBreakAssumption, NEW z \in Zones PROVE ZoneAfter(z) \in Zones \cup {8}
<1>1. CASE \E y \in Zones : y > z
  <2> DEFINE S == {y \in Zones : y > z}
  <2>1. S \subseteq Zones /\ S # {}
    BY <1>1
  <2>4. Zones \subseteq 0 .. 7
    BY DEF ZoneBreakAssumption
  <2>3. S \subseteq 0 .. 7
    BY <2>4
  <2>2. \E y \in Zones : y > z /\ \A x \in Zones : x > z => y <= x
    BY <2>1, <2>3, LeastZone
  <2> QED BY <1>1, <2>2 DEF ZoneAfter
<1>2. CASE ~ \E y \in Zones : y > z
  BY <1>2 DEF ZoneAfter
<1> QED BY <1>1, <1>2

LEMMA ClassifiedType ==
  ASSUME ZoneBreakAssumption, BreakTypeOK, NEW z \in Zones
  PROVE  Classified(z) \in {"normal", "event", "indef", "broken"}
<1>1. med1[z] \in Volts /\ \A v \in Volts : v \in Nat
  BY DEF ZoneBreakAssumption, BreakTypeOK
<1> QED BY <1>1, BandValues DEF Classified, BreakTypeOK

\* A report is of a zone.
AtZone == report # "none" => at \in Zones

LEMMA BreakInitTyped ==
  ASSUME ZoneBreakAssumption, BreakInit PROVE BreakTypeOK /\ AtZone
<1>1. volts \in [Zones -> Volts]
  BY DEF BreakInit
<1>2. timer \in 0 .. Debounce /\ age \in [Zones -> 0 .. Debounce] /\ changes \in 0 .. MaxChanges
      /\ resets \in 0 .. MaxResets
  BY DEF ZoneBreakAssumption, BreakInit
<1> QED BY <1>1, <1>2 DEF BreakInit, BreakTypeOK, AtZone

LEMMA BreakNextTyped ==
  ASSUME ZoneBreakAssumption, BreakTypeOK, AtZone, [BreakNext]_breakVars
  PROVE  BreakTypeOK' /\ AtZone'
<1> USE DEF lines, scan, machine
<1>1. CASE UNCHANGED breakVars
  BY <1>1 DEF breakVars, BreakTypeOK, AtZone
<1>2. CASE LineChanges
  BY <1>2 DEF LineChanges, BreakTypeOK, AtZone, ZoneBreakAssumption
<1>3. CASE ReadZones
  BY <1>3 DEF ReadZones, BreakTypeOK, AtZone
<1>4. CASE Classify
  <2>1. [z \in Zones |-> Classified(z)] \in [Zones -> {"normal", "event", "indef", "broken"}]
    BY ClassifiedType
  <2>2. status' \in [Zones -> {"normal", "event", "indef", "broken"}]
    BY <1>4, <2>1 DEF Classify, Forced
  <2> QED BY <1>4, <2>2 DEF Classify, BreakTypeOK, AtZone
<1>5. CASE BeginPass
  <2>1. at' \in Zones
    <3>1. \E z \in Zones : \A y \in Zones : z <= y
      <4>1. Zones \subseteq 0 .. 7 /\ Zones # {}
        BY DEF ZoneBreakAssumption
      <4> QED BY <4>1, LeastZone
    <3> QED BY <1>5, <3>1 DEF BeginPass
  <2> QED BY <1>5, <2>1 DEF BeginPass, BreakTypeOK, AtZone
<1>6. CASE SeeBreak
  <2>1. at \in Zones /\ at' \in Zones \cup {8}
    BY <1>6, ZoneAfterType DEF SeeBreak
  <2>2. drotu' \in [Zones -> {"idle", "wait", "alrm"}]
    BY <1>6 DEF SeeBreak, BreakTypeOK
  <2>3. timer' \in 0 .. Debounce /\ age' \in [Zones -> 0 .. Debounce]
    BY <1>6 DEF SeeBreak, Armed, BreakTypeOK, ZoneBreakAssumption
  <2> QED BY <1>6, <2>1, <2>2, <2>3 DEF SeeBreak, BreakTypeOK, AtZone
<1>7. CASE DebounceOver
  BY <1>7 DEF DebounceOver, BreakTypeOK, AtZone
<1>8. CASE StillWaiting
  <2>1. at \in Zones /\ at' \in Zones \cup {8}
    BY <1>8, ZoneAfterType DEF StillWaiting
  <2> QED BY <1>8, <2>1 DEF StillWaiting, BreakTypeOK, AtZone
<1>9. CASE InAlarm
  <2>1. at \in Zones /\ ZoneAfter(at) \in Zones \cup {8}
    BY <1>9, ZoneAfterType DEF InAlarm
  <2> QED BY <1>9, <2>1 DEF InAlarm, Again, BreakTypeOK, AtZone
<1>10. CASE Report
  <2>1. at \in Zones /\ at' \in Zones \cup {8}
    BY <1>10, ZoneAfterType DEF Report, AtZone
  <2> QED BY <1>10, <2>1 DEF Report, Told, BreakTypeOK, AtZone
<1>11. CASE ResetAlarm \/ Pause \/ Resume
  <2>1. resets \in 0 .. MaxResets /\ MaxResets \in Nat
    BY DEF BreakTypeOK, ZoneBreakAssumption
  <2>2. resets' = resets \/ (resets < MaxResets /\ resets' = resets + 1)
    BY <1>11 DEF ResetAlarm, Pause, Resume
  <2>3. resets' \in 0 .. MaxResets
    BY <2>1, <2>2
  <2> QED BY <1>11, <2>3 DEF ResetAlarm, Pause, Resume, BreakTypeOK, AtZone
<1>12. CASE Tick
  BY <1>12 DEF Tick, BreakTypeOK, AtZone, ZoneBreakAssumption
<1> QED BY <1>1, <1>2, <1>3, <1>4, <1>5, <1>6, <1>7, <1>8, <1>9, <1>10, <1>11, <1>12 DEF BreakNext, Detect

(***************************************************************************)
(* The machines of the broken lines keep their types.                      *)
(***************************************************************************)
THEOREM BreakTypeCorrect ==
  ASSUME ZoneBreakAssumption
  PROVE  BreakSpec => []BreakTypeOK
<1>1. BreakInit => BreakTypeOK /\ AtZone BY BreakInitTyped
<1>2. BreakTypeOK /\ AtZone /\ [BreakNext]_breakVars => BreakTypeOK' /\ AtZone' BY BreakNextTyped
<1> QED BY <1>1, <1>2, PTL DEF BreakSpec

\* Each zone in its wait has been seen broken as long as the timer has run, or
\* longer: whoever sets the timer again only makes it wait more.
Debouncing == \A z \in Zones : drotu[z] = "wait" => age[z] + timer >= Debounce

LEMMA DebouncingNext ==
  ASSUME ZoneBreakAssumption, BreakTypeOK, Debouncing, [BreakNext]_breakVars
  PROVE  Debouncing' /\ WholeDebounce
<1> USE DEF lines, scan, machine
<1>t. /\ Debounce \in Nat \ {0} /\ timer \in 0 .. Debounce
      /\ drotu \in [Zones -> {"idle", "wait", "alrm"}] /\ age \in [Zones -> 0 .. Debounce]
  BY DEF ZoneBreakAssumption, BreakTypeOK
<1>1. CASE SeeBreak
  BY <1>1, <1>t DEF SeeBreak, Armed, Debouncing, WholeDebounce
<1>2. CASE DebounceOver
  BY <1>2, <1>t DEF DebounceOver, Debouncing, WholeDebounce
<1>3. CASE StillWaiting
  BY <1>3, <1>t DEF StillWaiting, Debouncing, WholeDebounce
<1>4. CASE InAlarm
  <2>1. /\ UNCHANGED <<timer, age>> /\ at \in Zones /\ drotu[at] = "alrm"
        /\ drotu' = drotu \/ drotu' = [drotu EXCEPT ![at] = "idle"]
    BY <1>4 DEF InAlarm
  <2> QED BY <1>t, <2>1 DEF Debouncing, WholeDebounce
<1>5. CASE Tick
  BY <1>5, <1>t DEF Tick, Debouncing, WholeDebounce
<1>6. CASE UNCHANGED <<drotu, timer, age>>
  BY <1>6, <1>t DEF Debouncing, WholeDebounce
<1> QED BY <1>1, <1>2, <1>3, <1>4, <1>5, <1>6 DEF BreakNext, Detect, LineChanges, ReadZones, Classify, BeginPass,
     Report, ResetAlarm, Pause, Resume, breakVars

(***************************************************************************)
(* No break is reported before its own whole debounce, though the eight    *)
(* machines wait for one timer that each of them sets.                     *)
(***************************************************************************)
THEOREM FullDebounceCorrect ==
  ASSUME ZoneBreakAssumption
  PROVE  BreakSpec => FullDebounce
<1> DEFINE I == BreakTypeOK /\ AtZone /\ Debouncing
<1>1. BreakInit => I
  <2>1. BreakInit => Debouncing BY DEF BreakInit, Debouncing
  <2> QED BY <2>1, BreakInitTyped
<1>2. I /\ [BreakNext]_breakVars => I' /\ WholeDebounce BY BreakNextTyped, DebouncingNext
<1> QED BY <1>1, <1>2, PTL DEF BreakSpec, FullDebounce

\* What the station knows, with the report that is about to go out, is what the
\* machines hold.
ToTell == IF report = "none" THEN told ELSE Told
Telling == ToTell = {z \in Zones : drotu[z] = "alrm"}

LEMMA TellingNext ==
  ASSUME ZoneBreakAssumption, BreakTypeOK, AtZone, Telling, [BreakNext]_breakVars PROVE Telling'
<1> USE DEF lines, scan, machine
<1>t. /\ drotu \in [Zones -> {"idle", "wait", "alrm"}] /\ report \in {"none", "event", "restore"}
  BY DEF BreakTypeOK
<1>1. CASE SeeBreak
  BY <1>1, <1>t DEF SeeBreak, Telling, ToTell
<1>2. CASE DebounceOver
  BY <1>2, <1>t DEF DebounceOver, Telling, ToTell, Told
<1>3. CASE StillWaiting
  BY <1>3, <1>t DEF StillWaiting, Telling, ToTell
<1>4. CASE InAlarm
  BY <1>4, <1>t DEF InAlarm, Telling, ToTell, Told
<1>5. CASE Report
  BY <1>5, <1>t DEF Report, Telling, ToTell
<1>6. CASE BeginPass
  <2>1. 8 \notin Zones
    BY DEF ZoneBreakAssumption
  <2>2. report = "none" /\ UNCHANGED <<drotu, report, told>>
    BY <1>6, <2>1 DEF BeginPass, AtZone
  <2> QED BY <2>2 DEF Telling, ToTell
<1>7. CASE UNCHANGED <<drotu, report, told, at>>
  BY <1>7 DEF Telling, ToTell, Told
<1> QED BY <1>1, <1>2, <1>3, <1>4, <1>5, <1>6, <1>7 DEF BreakNext, Detect, LineChanges, ReadZones, Classify,
     Tick, ResetAlarm, Pause, Resume, breakVars

(***************************************************************************)
(* Between two reports the station knows the very breaks the machines      *)
(* hold, whatever the readings, resets of the alarm and pauses do.         *)
(***************************************************************************)
THEOREM BreaksKnownCorrect ==
  ASSUME ZoneBreakAssumption
  PROVE  BreakSpec => []BreaksKnown
<1> DEFINE I == BreakTypeOK /\ AtZone /\ Telling
<1>1. BreakInit => I
  <2>1. BreakInit => Telling BY DEF BreakInit, Telling, ToTell
  <2> QED BY <2>1, BreakInitTyped
<1>2. I /\ [BreakNext]_breakVars => I' BY BreakNextTyped, TellingNext
<1>3. I => BreaksKnown BY DEF Telling, ToTell, BreaksKnown
<1> QED BY <1>1, <1>2, <1>3, PTL DEF BreakSpec

\* Between two rounds a line whose status is not "broken" reads as whole, but
\* for the panel's zones when all of them were found broken.
Seen ==
  ~read => \A z \in Zones : status[z] # "broken" =>
    \/ Band(med1[z]) # "broken"
    \/ z \in Main /\ \A y \in Main : Doubtful(y)

LEMMA SeenNext ==
  ASSUME ZoneBreakAssumption, BreakTypeOK, Seen, [BreakNext]_breakVars PROVE Seen'
<1> USE DEF lines, scan, machine
<1>1. CASE Classify
  <2> DEFINE s == [z \in Zones |-> Classified(z)]
  <2>1. UNCHANGED <<med0, med1>> /\ status' = Forced(s)
    BY <1>1 DEF Classify
  <2>2. ASSUME NEW z \in Zones, s[z] = "broken" PROVE Doubtful(z)
    BY <2>2 DEF Classified, Doubtful
  <2>3. ASSUME NEW z \in Zones, s[z] # "broken" PROVE Band(med1[z]) # "broken"
    BY <2>3 DEF Classified
  <2>4. CASE Emergency(s)
    <3>1. Main \subseteq Zones /\ \A z \in Main : Doubtful(z)
      BY <2>2, <2>4 DEF Emergency
    <3>2. \A z \in Zones \ Main : status'[z] # "broken" => s[z] # "broken"
      BY <2>1, <2>4 DEF Forced
    <3>3. \A z \in Zones : status'[z] # "broken" => Band(med1[z]) # "broken" \/ z \in Main
      BY <2>3, <3>2
    <3> QED BY <2>1, <3>1, <3>3 DEF Seen, Doubtful
  <2>5. CASE ~Emergency(s)
    BY <2>1, <2>3, <2>5 DEF Forced, Seen
  <2> QED BY <2>4, <2>5
<1>2. CASE ReadZones
  BY <1>2 DEF ReadZones, Seen
<1>3. CASE UNCHANGED <<scan>>
  BY <1>3 DEF Seen, Doubtful
<1> QED BY <1>1, <1>2, <1>3 DEF BreakNext, Detect, LineChanges, BeginPass, SeeBreak, DebounceOver, StillWaiting,
     InAlarm, Report, Tick, ResetAlarm, Pause, Resume, breakVars

(***************************************************************************)
(* A restore is true: the line reads as whole, or the panel's three zones  *)
(* were found broken at once, which the code takes for a fault of the      *)
(* converter and turns into alarms.                                        *)
(***************************************************************************)
THEOREM RestoreIsTrueCorrect ==
  ASSUME ZoneBreakAssumption
  PROVE  BreakSpec => RestoreIsTrue
<1> DEFINE I == BreakTypeOK /\ AtZone /\ Seen
<1>1. BreakInit => I
  <2>1. BreakInit => Seen BY DEF BreakInit, Seen
  <2> QED BY <2>1, BreakInitTyped
<1>2. I /\ [BreakNext]_breakVars => I' BY BreakNextTyped, SeenNext
<1>3. I /\ [BreakNext]_breakVars => RestoreTrue
  <2> SUFFICES ASSUME I, [BreakNext]_breakVars, report = "none", report' = "restore", ~read
               PROVE  \/ Band(med1[at]) # "broken"
                      \/ at \in Main /\ \A z \in Main : Doubtful(z)
    BY DEF RestoreTrue
  <2>1. InAlarm
    BY DEF BreakNext, Detect, LineChanges, ReadZones, Classify, BeginPass, SeeBreak, DebounceOver, StillWaiting,
       Report, Tick, ResetAlarm, Pause, Resume, breakVars, machine
  <2>2. at \in Zones /\ status[at] # "broken"
    BY <2>1 DEF InAlarm
  <2> QED BY <2>2 DEF Seen
<1> QED BY <1>1, <1>2, <1>3, PTL DEF BreakSpec, RestoreIsTrue

-----------------------------------------------------------------------------
(* The door of the cabinet.                                                *)

FlagBits == {"APER13", "NG"}

LEMMA DoorInitTyped ==
  ASSUME DoorAssumption, DoorInit PROVE DoorTypeOK
<1>1. ap \in Ap
  BY DEF DoorInit, Ap, States
<1>2. tries \in [buttons : 0 .. MaxButtons, boots : 0 .. MaxReboots]
  BY DEF DoorInit, DoorAssumption
<1>3. kept \in [st : States, flags : SUBSET FlagBits]
  BY DEF DoorInit, States
<1> QED BY <1>1, <1>2, <1>3 DEF DoorInit, DoorTypeOK, DoorAssumption, FlagBits

\* The machine of the door changes the line and the flag of the door, and no
\* more than its own bit.
LEMMA SetLineSteps ==
  ASSUME line \in BOOLEAN, NEW value \in BOOLEAN, SetLine(value)
  PROVE  line' \in BOOLEAN /\ missed' \in {missed, missed \cup {"word"}}
<1>1. line' \in BOOLEAN
  BY Zenon DEF SetLine
<1>2. missed' \in {missed, missed \cup {"word"}}
  BY DEF SetLine, Miss
<1> QED BY <1>1, <1>2

LEMMA SetFlagSteps ==
  ASSUME DoorTypeOK, NEW f \in SUBSET FlagBits, SetFlag(f)
  PROVE  /\ line' \in BOOLEAN /\ missed' \in {missed, missed \cup {"word"}}
         /\ flags' \in {flags, f} /\ kept' = [kept EXCEPT !.flags = f]
<1>1. CASE flags' = f /\ SetLine("APER13" \in f)
  <2>1. line \in BOOLEAN /\ ("APER13" \in f) \in BOOLEAN
    BY DEF DoorTypeOK
  <2> QED BY <1>1, <2>1, SetLineSteps DEF SetFlag
<1>2. CASE UNCHANGED flags /\ line' = ("APER13" \in f) /\ missed' = missed \cup {"word"}
  <2>1. line' = TRUE \/ line' = FALSE
    BY <1>2
  <2> QED BY <1>2, <2>1 DEF SetFlag
<1> QED BY <1>1, <1>2 DEF SetFlag

LEMMA DoorMachineSteps ==
  ASSUME DoorTypeOK, DoorMachine
  PROVE  /\ UNCHANGED <<door, button, user, ap, reset, tesoro, tries, given, early, admitted, open388>>
         /\ dap' \in [st : {"IDLE", "WAIT", "ALRM", "WAIT2"}, ripe : BOOLEAN]
         /\ line' \in BOOLEAN /\ missed' \in {missed, missed \cup {"word"}}
         /\ \E f \in SUBSET FlagBits :
              /\ "NG" \in f => "NG" \in flags
              /\ flags' \in {flags, f} /\ kept' \in {kept, [kept EXCEPT !.flags = f]}
<1> USE DEF user, doorPast
<1>1. flags \in SUBSET FlagBits /\ line \in BOOLEAN
  BY DEF DoorTypeOK, FlagBits
<1>2. UNCHANGED <<door, button, user, ap, reset, tesoro, tries, given, early, admitted, open388>>
  BY DEF DoorMachine, WatchDoor, Reopened, Opened, Closed
<1>3. \E state \in {"IDLE", "WAIT", "ALRM", "WAIT2"} : Goes(state)
  BY DEF DoorMachine, WatchDoor, Reopened, Opened, Closed
<1>4. dap' \in [st : {"IDLE", "WAIT", "ALRM", "WAIT2"}, ripe : BOOLEAN]
  BY <1>3 DEF Goes
<1>5. CASE WatchDoor
  BY <1>1, <1>2, <1>4, <1>5 DEF WatchDoor
<1>6. CASE Reopened
  <2>1. line' \in BOOLEAN /\ missed' \in {missed, missed \cup {"word"}}
    BY <1>1, <1>6, SetLineSteps DEF Reopened
  <2> QED BY <1>1, <1>2, <1>4, <1>6, <2>1 DEF Reopened
<1>7. CASE \E f \in {flags \cup {"APER13"}, flags \ {"APER13"}} : SetFlag(f)
  <2>1. PICK f \in {flags \cup {"APER13"}, flags \ {"APER13"}} : SetFlag(f)
    BY <1>7
  <2>2. f \in SUBSET FlagBits /\ ("NG" \in f => "NG" \in flags)
    BY <1>1, <2>1 DEF FlagBits
  <2> QED BY <1>2, <1>4, <2>1, <2>2, SetFlagSteps
<1> QED BY <1>5, <1>6, <1>7 DEF DoorMachine, Opened, Closed

LEMMA ApTyped ==
  ASSUME DoorTypeOK, NEW s \in States, NEW g \in {"keep", "set", "clear"}, Enters(s, g)
  PROVE  ap' \in Ap /\ kept' \in [st : States, flags : SUBSET FlagBits]
  BY DEF DoorTypeOK, Enters, Ap, FlagBits

LEMMA ApStepTyped ==
  ASSUME DoorTypeOK, ApStep
  PROVE  DoorTypeOK'
<1> USE DEF doors, user, doorPast
<1>1. ap' \in Ap /\ kept' \in [st : States, flags : SUBSET FlagBits]
  <2>1. ap \in Ap /\ kept \in [st : States, flags : SUBSET FlagBits] /\ flags \subseteq FlagBits
    BY DEF DoorTypeOK, FlagBits
  <2>2. CASE \E s \in States, g \in {"keep", "set", "clear"} : Enters(s, g)
    BY <2>2, ApTyped
  <2>3. CASE Stays
    BY <2>1, <2>3 DEF Stays
  <2>4. CASE Accept
    BY <2>1, <2>4 DEF Accept, Ap, States
  <2>5. CASE UserIn
    BY <2>1, <2>5 DEF UserIn, Ap, States, FlagBits
  <2>6. CASE Flag
    <3>1. flags' \subseteq FlagBits
      BY <2>1, <2>6 DEF Flag, FlagBits
    <3> QED BY <2>1, <2>6, <3>1 DEF Flag, Ap, FlagBits
  <2>7. CASE Save
    BY <2>1, <2>7 DEF Save, Saved, Ap, FlagBits
  <2> QED BY <2>2, <2>3, <2>4, <2>5, <2>6, <2>7 DEF ApStep, IdleAlarmed, Idle, WaitIbutton, OpNormal, OpPreve,
       VisitEnds, VisitGoesOn, States
<1>2. flags' \subseteq FlagBits
  BY DEF DoorTypeOK, FlagBits, ApStep, IdleAlarmed, Idle, Accept, UserIn, WaitIbutton, OpNormal, OpPreve, VisitEnds,
     VisitGoesOn, Flag, Save
<1>3. UNCHANGED <<door, dap, line, reset, tries, open388>>
  BY DEF ApStep, IdleAlarmed, Idle, Accept, UserIn, WaitIbutton, OpNormal, OpPreve, VisitEnds, VisitGoesOn, Flag, Save
<1>4. /\ button' \in {button, FALSE} /\ valid' \in {valid, TRUE, FALSE} /\ arst' \in {arst, "set"}
      /\ admitted' \in {admitted, TRUE, FALSE} /\ given' \in {given, FALSE} /\ tesoro' \in {tesoro, TRUE}
  BY DEF ApStep, IdleAlarmed, Idle, Accept, UserIn, WaitIbutton, OpNormal, OpPreve, VisitEnds, VisitGoesOn, Flag, Save,
     DropButton, Ask, Leave
<1>5. /\ arstok' = arstok \/ arstok' = TRUE \/ arstok' = FALSE \/ arstok' = (arstok \/ arst = "now")
         \/ arstok' = (ap.st = "WAIT_IBUTT" \/ arstok)
      /\ early' = early \/ early' = (early \/ button)
  BY Zenon DEF ApStep, IdleAlarmed, Idle, Accept, UserIn, WaitIbutton, OpNormal, OpPreve, VisitEnds, VisitGoesOn, Flag,
     Save, Allow, Suspended, Leave
<1>6. arstok' \in BOOLEAN /\ early' \in BOOLEAN
  BY <1>5, Zenon DEF DoorTypeOK
<1>7. missed' \subseteq missed \cup {"gen", "save"}
  BY DEF ApStep, IdleAlarmed, Idle, Accept, UserIn, WaitIbutton, OpNormal, OpPreve, VisitEnds, VisitGoesOn, Flag, Save,
     Ask, Miss
<1>8. /\ button' \in BOOLEAN /\ valid' \in BOOLEAN /\ admitted' \in BOOLEAN /\ given' \in BOOLEAN
      /\ tesoro' \in BOOLEAN /\ arst' \in {"off", "set", "now", "past"}
  BY <1>4 DEF DoorTypeOK
<1>9. missed' \subseteq Misses
  BY <1>7 DEF DoorTypeOK, Misses
<1> QED BY <1>1, <1>2, <1>3, <1>6, <1>8, <1>9 DEF DoorTypeOK, FlagBits

LEMMA BootTyped ==
  ASSUME DoorAssumption, DoorTypeOK, ApBoot PROVE DoorTypeOK'
<1>1. tries' \in [buttons : 0 .. MaxButtons, boots : 0 .. MaxReboots]
  BY DEF DoorAssumption, DoorTypeOK, ApBoot
<1>2. PICK wdt \in BOOLEAN :
        /\ ap' = [st |-> Restored(wdt), tout |-> FALSE, pc |-> "pass", ng |-> "keep", buf |-> {}]
        /\ valid' = (Restored(wdt) = "OP_NORMAL")
        /\ reset' = [st |-> "IDLE", asked |-> ~wdt, tout |-> FALSE]
        /\ admitted' = (admitted /\ wdt)
        /\ missed' \subseteq missed \cup {"lost", "restored", "forgotten"}
  BY DEF ApBoot, Miss
<1>3. Restored(wdt) \in States
  BY DEF Restored, DoorTypeOK, States
<1>4. ap' \in Ap /\ reset' \in [st : {"IDLE", "WTOUT"}, asked : BOOLEAN, tout : BOOLEAN]
  BY <1>2, <1>3 DEF Ap
<1> QED BY <1>1, <1>2, <1>4 DEF ApBoot, DoorTypeOK, Misses

LEMMA DoorNextTyped ==
  ASSUME DoorAssumption, DoorTypeOK, [DoorNext]_doorVars PROVE DoorTypeOK'
<1> USE DEF doors, user, doorPast
<1>1. CASE UNCHANGED doorVars
  BY <1>1 DEF doorVars, DoorTypeOK
<1>2. CASE DoorMoves \/ DoorRipe \/ TakeTreasure
  <2>1. dap' \in [st : {"IDLE", "WAIT", "ALRM", "WAIT2"}, ripe : BOOLEAN]
    BY <1>2 DEF DoorMoves, DoorRipe, TakeTreasure, DoorTypeOK
  <2>2. door' \in BOOLEAN
    BY <1>2, Zenon DEF DoorMoves, DoorRipe, TakeTreasure, DoorTypeOK
  <2>3. tesoro' \in BOOLEAN /\ given' \in BOOLEAN
    BY <1>2 DEF DoorMoves, DoorRipe, TakeTreasure, DoorTypeOK
  <2>4. UNCHANGED <<line, button, user, ap, reset, flags, kept, tries, early, admitted, open388, missed>>
    BY <1>2 DEF DoorMoves, DoorRipe, TakeTreasure
  <2> QED BY <2>1, <2>2, <2>3, <2>4 DEF DoorTypeOK
<1>3. CASE DoorMachine
  <2>1. flags' \subseteq FlagBits /\ kept' \in [st : States, flags : SUBSET FlagBits]
    BY <1>3, DoorMachineSteps DEF DoorTypeOK, FlagBits
  <2> QED BY <1>3, <2>1, DoorMachineSteps DEF DoorTypeOK, FlagBits, Misses
<1>4. CASE Button
  <2>1. tries' \in [buttons : 0 .. MaxButtons, boots : 0 .. MaxReboots]
    BY <1>4 DEF Button, DoorTypeOK, DoorAssumption
  <2>2. button' \in BOOLEAN /\ early' \in BOOLEAN
    BY <1>4, Zenon DEF Button, DoorTypeOK
  <2>3. missed' \subseteq Misses
    BY <1>4 DEF Button, DoorTypeOK, Misses
  <2> QED BY <1>4, <2>1, <2>2, <2>3 DEF Button, DoorTypeOK
<1>5. CASE ApStep
  BY <1>5, ApStepTyped
<1>6. CASE ResetStep
  <2>1. ap \in Ap /\ flags \subseteq FlagBits
    BY DEF DoorTypeOK, FlagBits
  <2>2. ap' = [ap EXCEPT !.pc = "reset"] \/ ap' = [ap EXCEPT !.pc = "save", !.buf = flags]
    BY <1>6 DEF ResetStep, ReportReset, CloseReset, ResetReported
  <2>3. ap' \in Ap
    BY <2>1, <2>2 DEF Ap, FlagBits
  <2>4. reset' \in [st : {"IDLE", "WTOUT"}, asked : BOOLEAN, tout : BOOLEAN]
    <3>1. CASE ReportReset BY <3>1 DEF ReportReset
    <3>2. CASE CloseReset
      <4>1. reset \in [st : {"IDLE", "WTOUT"}, asked : BOOLEAN, tout : BOOLEAN]
        BY DEF DoorTypeOK
      <4>2. reset' = [reset EXCEPT !.st = "IDLE", !.tout = FALSE]
        BY <3>2 DEF CloseReset
      <4> QED BY <4>1, <4>2
    <3>3. CASE ResetReported BY <3>3 DEF ResetReported, DoorTypeOK
    <3> QED BY <1>6, <3>1, <3>2, <3>3 DEF ResetStep
  <2>5. kept' = kept \/ kept' = [kept EXCEPT !.st = ap.st]
    BY <1>6 DEF ResetStep, ReportReset, CloseReset, ResetReported
  <2>6. kept \in [st : States, flags : SUBSET FlagBits]
    BY DEF DoorTypeOK, FlagBits
  <2>7. kept' \in [st : States, flags : SUBSET FlagBits]
    BY <2>1, <2>5, <2>6 DEF Ap
  <2>8. open388' \in BOOLEAN
    BY <1>6 DEF ResetStep, ReportReset, CloseReset, ResetReported, DoorTypeOK
  <2>9. UNCHANGED <<doors, line, button, user, tesoro, flags, tries, given, early, admitted, missed>>
    BY <1>6 DEF ResetStep, ReportReset, CloseReset, ResetReported
  <2> QED BY <2>4, <2>3, <2>9, <2>7, <2>8 DEF DoorTypeOK, FlagBits
<1>7. CASE ApTimeout \/ ResetTimeout
  <2>1. ap' \in Ap /\ reset' \in [st : {"IDLE", "WTOUT"}, asked : BOOLEAN, tout : BOOLEAN]
    BY <1>7 DEF ApTimeout, ResetTimeout, DoorTypeOK, Ap
  <2> QED BY <1>7, <2>1 DEF ApTimeout, ResetTimeout, DoorTypeOK
<1>8. CASE Clock
  BY <1>8 DEF Clock, DoorTypeOK
<1>9. CASE ApBoot
  BY <1>9, BootTyped
<1> QED BY <1>1, <1>2, <1>3, <1>4, <1>5, <1>6, <1>7, <1>8, <1>9 DEF DoorNext

(***************************************************************************)
(* The door, the user and what the flash keeps of them have their types.   *)
(***************************************************************************)
THEOREM DoorTypeCorrect ==
  ASSUME DoorAssumption
  PROVE  DoorSpec => []DoorTypeOK
<1>1. DoorInit => DoorTypeOK BY DoorInitTyped
<1>2. DoorTypeOK /\ [DoorNext]_doorVars => DoorTypeOK' BY DoorNextTyped
<1> QED BY <1>1, <1>2, PTL DEF DoorSpec

\* The treasure alarm has been asked for and is or was on its way.
AlarmAsked == tesoro \/ given \/ missed \cap {"gen", "lost"} # {}

\* An opening in alarm, in the machine, in FSM_FLAG_1, in the copies in flash or
\* in the buffer on its way there.
InAlarmAnywhere ==
  \/ ap.st = "OP_PREVE" \/ kept.st = "OP_PREVE" \/ ap.ng = "set"
  \/ "NG" \in flags \/ "NG" \in kept.flags \/ "NG" \in ap.buf

Alarmed == InAlarmAnywhere => AlarmAsked

LEMMA AlarmedNext ==
  ASSUME DoorAssumption, DoorTypeOK, Alarmed, [DoorNext]_doorVars PROVE Alarmed'
<1> USE DEF doors, user, doorPast
<1>0. ap \in Ap /\ kept \in [st : States, flags : SUBSET FlagBits] /\ missed \subseteq missed'
  <2>1. CASE DoorMachine BY <2>1, DoorMachineSteps DEF DoorTypeOK, FlagBits
  <2>2. CASE ~DoorMachine
    BY <2>2 DEF DoorTypeOK, FlagBits, DoorNext, DoorMoves, DoorRipe, TakeTreasure, Button, ApStep, ResetStep, ApTimeout,
       ResetTimeout, Clock, ApBoot, IdleAlarmed, Idle, Accept, UserIn, WaitIbutton, OpNormal, OpPreve, VisitEnds,
       VisitGoesOn, Flag, Save, ReportReset, CloseReset, ResetReported, Ask, doorVars
  <2> QED BY <2>1, <2>2
<1>1. AlarmAsked => AlarmAsked'
  <2>1. CASE TakeTreasure BY <2>1 DEF TakeTreasure, AlarmAsked
  <2>2. CASE WaitIbutton BY <2>2 DEF WaitIbutton, Ask, AlarmAsked
  <2>3. CASE ApBoot BY <2>3, <1>0 DEF ApBoot, Miss, AlarmAsked
  <2>4. CASE DoorMachine BY <2>4, <1>0, DoorMachineSteps DEF AlarmAsked
  <2>5. CASE UNCHANGED <<tesoro, given>> BY <2>5, <1>0 DEF AlarmAsked
  <2> QED BY <2>1, <2>2, <2>3, <2>4, <2>5 DEF DoorNext, DoorMoves, DoorRipe, Button, ApStep, ResetStep, ApTimeout,
       ResetTimeout, Clock, IdleAlarmed, Idle, Accept, UserIn, OpNormal, OpPreve, VisitEnds, VisitGoesOn, Flag, Save,
       ReportReset, CloseReset, ResetReported, doorVars
<1>2. InAlarmAnywhere' => InAlarmAnywhere \/ AlarmAsked'
  <2>1. CASE DoorMachine
    <3>1. PICK f \in SUBSET FlagBits : /\ "NG" \in f => "NG" \in flags
                                      /\ flags' \in {flags, f} /\ kept' \in {kept, [kept EXCEPT !.flags = f]}
      BY <2>1, DoorMachineSteps
    <3> QED BY <1>0, <2>1, <3>1, DoorMachineSteps DEF InAlarmAnywhere
  <2>2. CASE ApBoot
    <3>1. ap'.st \in {"IDLE", kept.st} /\ ap'.buf = {} /\ ap'.ng = "keep" /\ flags' = kept.flags /\ kept' = kept
      BY <2>2 DEF ApBoot, Restored
    <3> QED BY <3>1 DEF InAlarmAnywhere
  <2>3. CASE WaitIbutton
    <3>1. CASE Expired BY <2>3, <3>1 DEF WaitIbutton, Ask, AlarmAsked
    <3>2. CASE ~Expired BY <2>3, <3>2 DEF WaitIbutton, Stays, InAlarmAnywhere
    <3> QED BY <3>1, <3>2
  <2>4. CASE IdleAlarmed BY <2>4 DEF IdleAlarmed, InAlarmAnywhere
  <2>5. CASE Idle BY <2>5, <1>0 DEF Idle, Enters, Stays, InAlarmAnywhere, Ap
  <2>6. CASE Accept BY <2>6, <1>0 DEF Accept, InAlarmAnywhere, Ap
  <2>7. CASE UserIn BY <2>7, <1>0 DEF UserIn, InAlarmAnywhere, Ap
  <2>8. CASE OpNormal BY <2>8, <1>0 DEF OpNormal, Enters, Stays, InAlarmAnywhere, Ap
  <2>9. CASE OpPreve BY <2>9, <1>0 DEF OpPreve, Passing, Enters, Stays, InAlarmAnywhere, Ap
  <2>10. CASE VisitEnds BY <2>10, <1>0 DEF VisitEnds, Enters, InAlarmAnywhere, Ap
  <2>11. CASE VisitGoesOn BY <2>11, <1>0 DEF VisitGoesOn, Enters, Stays, InAlarmAnywhere, Ap
  <2>12. CASE Flag BY <2>12, <1>0 DEF Flag, InAlarmAnywhere, Ap
  <2>13. CASE Save BY <2>13, <1>0 DEF Save, Saved, InAlarmAnywhere, Ap
  <2>14. CASE ResetStep
    BY <2>14, <1>0 DEF ResetStep, ReportReset, CloseReset, ResetReported, InAlarmAnywhere, Ap
  <2>15. CASE ApTimeout BY <2>15, <1>0 DEF ApTimeout, InAlarmAnywhere, Ap
  <2>16. CASE UNCHANGED <<ap, flags, kept>> BY <2>16 DEF InAlarmAnywhere
  <2> QED BY <2>1, <2>2, <2>3, <2>4, <2>5, <2>6, <2>7, <2>8, <2>9, <2>10, <2>11, <2>12, <2>13, <2>14, <2>15, <2>16
       DEF DoorNext, DoorMoves, DoorRipe, TakeTreasure, Button, ApStep, ResetTimeout, Clock, doorVars
<1> QED BY <1>1, <1>2 DEF Alarmed

\* A button that waits was pressed after the last time the machine was idle,
\* and so was the one of a user who is being let in.
ButtonFresh == (button => ~early) /\ NoEarlyButton

LEMMA ButtonFreshNext ==
  ASSUME DoorTypeOK, ButtonFresh, [DoorNext]_doorVars PROVE ButtonFresh'
<1> USE DEF doors, user, doorPast, ButtonFresh, NoEarlyButton
<1>1. CASE DoorMachine
  BY <1>1, DoorMachineSteps DEF user
<1>2. CASE Button
  BY <1>2 DEF Button, DoorTypeOK, Ap
<1>3. CASE Idle
  <2>1. ap' = ap \/ ap'.pc = "save"
    BY <1>3 DEF Idle, Enters, Stays
  <2>2. ap.pc = "pass" /\ ~button'
    BY <1>3, Zenon DEF Idle, Passing, DropButton
  <2> QED BY <2>1, <2>2
<1>4. CASE Accept
  BY <1>4 DEF Accept, DoorTypeOK, Ap
<1>5. CASE ApStep /\ ~Idle /\ ~Accept
  <2>1. UNCHANGED <<button, early>>
    BY <1>5 DEF ApStep, IdleAlarmed, UserIn, WaitIbutton, OpNormal, OpPreve, VisitEnds, VisitGoesOn, Flag, Save
  <2>2. ap' = ap \/ ap'.pc # "user"
    <3>1. CASE UserIn \/ Flag \/ Save
      BY <3>1 DEF UserIn, Flag, Save, DoorTypeOK, Ap
    <3>2. CASE IdleAlarmed \/ WaitIbutton \/ OpNormal \/ OpPreve \/ VisitEnds \/ VisitGoesOn
      BY <3>2 DEF IdleAlarmed, WaitIbutton, OpNormal, OpPreve, VisitEnds, VisitGoesOn, Enters, Stays
    <3> QED BY <1>5, <3>1, <3>2 DEF ApStep
  <2> QED BY <2>1, <2>2
<1>6. CASE ResetStep
  <2>1. ap'.pc # "user"
    BY <1>6 DEF ResetStep, ReportReset, CloseReset, ResetReported, DoorTypeOK, Ap
  <2> QED BY <1>6, <2>1 DEF ResetStep, ReportReset, CloseReset, ResetReported
<1>7. CASE ApBoot
  BY <1>7 DEF ApBoot
<1>8. CASE ApTimeout
  BY <1>8 DEF ApTimeout, DoorTypeOK, Ap
<1>9. CASE UNCHANGED <<ap, button, early>>
  BY <1>9
<1> QED BY <1>1, <1>2, <1>3, <1>4, <1>5, <1>6, <1>7, <1>8, <1>9
     DEF DoorNext, DoorMoves, DoorRipe, TakeTreasure, ResetTimeout, Clock, doorVars

\* Who is being let in is in the cabinet, and valid.
Visit == ValidAdmitted /\ ArstHeld /\ (ap.pc = "user" => ap.st = "OP_NORMAL" /\ valid)

LEMMA VisitNext ==
  ASSUME DoorTypeOK, Visit, [DoorNext]_doorVars PROVE Visit'
<1> USE DEF doors, user, doorPast, Visit, ValidAdmitted, ArstHeld
<1>1. CASE DoorMachine
  BY <1>1, DoorMachineSteps DEF user
<1>2. CASE Button
  BY <1>2 DEF Button
<1>3. CASE IdleAlarmed
  BY <1>3 DEF IdleAlarmed, Passing, Enters
<1>4. CASE Idle
  BY <1>4 DEF Idle, Passing, Enters, Stays, Allow
<1>5. CASE Accept
  BY <1>5 DEF Accept, DoorTypeOK, Ap
<1>6. CASE UserIn
  BY <1>6 DEF UserIn, DoorTypeOK, Ap
<1>7. CASE WaitIbutton
  BY <1>7 DEF WaitIbutton, Passing, Enters, Stays, Ask, Allow
<1>8. CASE OpNormal
  <2>1. (~arstok' => ~arstok) /\ UNCHANGED <<valid, admitted, missed>>
    BY <1>8, Zenon DEF OpNormal, Suspended
  <2>2. ap' = ap \/ (ap'.st = "WAIT_15MIN" /\ ap'.pc = "save")
    BY <1>8 DEF OpNormal, Enters, Stays
  <2> QED BY <2>1, <2>2
<1>9. CASE OpPreve
  BY <1>9 DEF OpPreve, Passing, Enters, Stays
<1>10. CASE VisitEnds
  BY <1>10 DEF VisitEnds, Leave, Enters
<1>11. CASE VisitGoesOn
  BY <1>11 DEF VisitGoesOn, Enters, Stays
<1>12. CASE Flag
  BY <1>12 DEF Flag, DoorTypeOK, Ap
<1>13. CASE Save
  BY <1>13 DEF Save, DoorTypeOK, Ap
<1>14. CASE ResetStep
  <2>1. UNCHANGED <<valid, arstok, admitted, missed>>
    BY <1>14 DEF ResetStep, ReportReset, CloseReset, ResetReported
  <2>2. ap' = [ap EXCEPT !.pc = "reset"] \/ ap' = [ap EXCEPT !.pc = "save", !.buf = flags]
    BY <1>14 DEF ResetStep, ReportReset, CloseReset, ResetReported
  <2>3. ap'.st = ap.st /\ ap'.pc # "user"
    BY <2>2 DEF DoorTypeOK, Ap
  <2> QED BY <2>1, <2>3
<1>15. CASE ApTimeout
  BY <1>15 DEF ApTimeout, DoorTypeOK, Ap
<1>16. CASE ApBoot
  <2>1. PICK wdt \in BOOLEAN :
          /\ ap' = [st |-> Restored(wdt), tout |-> FALSE, pc |-> "pass", ng |-> "keep", buf |-> {}]
          /\ valid' = (Restored(wdt) = "OP_NORMAL") /\ admitted' = (admitted /\ wdt)
          /\ Miss("restored", Restored(wdt) = "OP_NORMAL" /\ ~valid) \cup missed \subseteq missed'
    BY <1>16 DEF ApBoot
  <2>2. arstok' /\ ap'.pc # "user" /\ ap'.st = Restored(wdt)
    BY <1>16, <2>1 DEF ApBoot
  <2>3. CASE Restored(wdt) # "OP_NORMAL"
    BY <2>1, <2>2, <2>3
  <2>4. CASE Restored(wdt) = "OP_NORMAL"
    <3>1. wdt
      BY <2>4 DEF Restored
    <3>2. CASE ~valid
      BY <2>1, <2>2, <2>4, <3>2 DEF Miss
    <3>3. CASE valid
      <4>1. admitted' = admitted
        BY <2>1, <3>1, Zenon DEF DoorTypeOK
      <4> QED BY <2>1, <2>2, <2>4, <3>3, <4>1
    <3> QED BY <3>2, <3>3
  <2> QED BY <2>3, <2>4
<1>17. CASE UNCHANGED <<ap, valid, arstok, admitted, missed>>
  BY <1>17
<1>18. CASE Clock
  BY <1>18 DEF Clock
<1> QED BY <1>1, <1>2, <1>3, <1>4, <1>5, <1>6, <1>7, <1>8, <1>9, <1>10, <1>11, <1>12, <1>13, <1>14, <1>15, <1>16,
        <1>17, <1>18 DEF DoorNext, DoorMoves, DoorRipe, TakeTreasure, ApStep, ResetTimeout, doorVars

(***************************************************************************)
(* fsm_AP_apertura gives every opening its alarm or its user: for any      *)
(* number of buttons and restarts.                                         *)
(***************************************************************************)
THEOREM OpeningsRightCorrect ==
  ASSUME DoorAssumption
  PROVE  DoorSpec => []OpeningsRight
<1> DEFINE Inv == Alarmed /\ ButtonFresh /\ Visit
<1>1. DoorInit => DoorTypeOK /\ Inv
  <2> SUFFICES ASSUME DoorInit PROVE DoorTypeOK /\ Inv
    OBVIOUS
  <2>1. ap.st = "IDLE" /\ ap.pc = "pass" /\ ap.ng = "keep" /\ ap.buf = {} /\ kept.st = "IDLE" /\ kept.flags = {}
    BY DEF DoorInit
  <2>2. ~valid /\ arstok /\ ~button /\ flags = {}
    BY Zenon DEF DoorInit
  <2> QED BY <2>1, <2>2, DoorInitTyped DEF Alarmed, InAlarmAnywhere, ButtonFresh, NoEarlyButton, Visit, ValidAdmitted,
          ArstHeld
<1>2. DoorTypeOK /\ Inv /\ [DoorNext]_doorVars => DoorTypeOK' /\ Inv'
  BY DoorNextTyped, AlarmedNext, ButtonFreshNext, VisitNext
<1>3. Inv => OpeningsRight
  BY DEF Alarmed, InAlarmAnywhere, AlarmAsked, OpeningAlarmed, ButtonFresh, Visit, OpeningsRight
<1> QED BY <1>1, <1>2, <1>3, PTL DEF DoorSpec

LEMMA LineFollowsNext ==
  ASSUME DoorTypeOK, LineFollows, [DoorNext]_doorVars PROVE LineFollows'
<1> USE DEF doors, user, doorPast
<1>1. CASE WatchDoor
  BY <1>1 DEF WatchDoor, Goes, LineFollows
<1>2. CASE Reopened
  <2>1. dap'.st = "ALRM"
    BY <1>2 DEF Reopened, Goes
  <2>2. line' = TRUE \/ "word" \in missed'
    BY <1>2 DEF Reopened, SetLine, Miss
  <2>3. (dap'.st \in {"ALRM", "WAIT2"}) = TRUE
    BY <2>1
  <2> QED BY <2>2, <2>3, Zenon DEF LineFollows
<1>3. ASSUME NEW f, NEW d \in {"ALRM", "IDLE"}, SetFlag(f), Goes(d), "APER13" \in f <=> d = "ALRM"
      PROVE  LineFollows'
  <2>1. dap'.st = d
    BY <1>3 DEF Goes
  <2>2. CASE SetLine("APER13" \in f)
    <3>1. line' = ("APER13" \in f) \/ "word" \in missed' \/ (line' = line /\ line = ("APER13" \in f))
      BY <2>2, Zenon DEF SetLine, Miss
    <3>2. line' = (d = "ALRM") \/ "word" \in missed'
      BY <1>3, <3>1
    <3> QED BY <1>3, <2>1, <3>2 DEF LineFollows
  <2>3. CASE "word" \in missed'
    BY <2>3 DEF LineFollows
  <2> QED BY <1>3, <2>2, <2>3 DEF SetFlag
<1>4. CASE Opened
  BY <1>3, <1>4 DEF Opened
<1>5. CASE Closed
  BY <1>3, <1>5 DEF Closed
<1>6. CASE DoorRipe
  BY <1>6 DEF DoorRipe, DoorTypeOK, LineFollows
<1>7. CASE ApBoot
  <2>1. line' = FALSE /\ dap'.st = "IDLE"
    BY <1>7 DEF ApBoot
  <2>2. (dap'.st \in {"ALRM", "WAIT2"}) = FALSE
    BY <2>1
  <2> QED BY <2>1, <2>2, Zenon DEF LineFollows
<1>8. CASE UNCHANGED <<dap, line>> /\ missed \subseteq missed'
  BY <1>8 DEF LineFollows
<1> QED BY <1>1, <1>2, <1>4, <1>5, <1>6, <1>7, <1>8 DEF DoorNext, DoorMachine, DoorMoves, TakeTreasure, Button, ApStep,
        ResetStep, ApTimeout, ResetTimeout, Clock, IdleAlarmed, Idle, Accept, UserIn, WaitIbutton, Ask, OpNormal,
        OpPreve, VisitEnds, VisitGoesOn, Flag, Save, ReportReset, CloseReset, ResetReported, doorVars

(***************************************************************************)
(* AutoprotectTask sees the door that AlarmDetectTask has debounced, but   *)
(* for a change that its own read-modify-write undid.                      *)
(***************************************************************************)
THEOREM LineFollowsCorrect ==
  ASSUME DoorAssumption
  PROVE  DoorSpec => []LineFollows
<1>1. DoorInit => DoorTypeOK /\ LineFollows
  <2>1. ASSUME DoorInit PROVE LineFollows
    <3>1. line = FALSE /\ dap.st = "IDLE"
      BY <2>1 DEF DoorInit
    <3>2. (dap.st \in {"ALRM", "WAIT2"}) = FALSE
      BY <3>1
    <3> QED BY <3>1, <3>2, Zenon DEF LineFollows
  <2> QED BY <2>1, DoorInitTyped
<1>2. DoorTypeOK /\ LineFollows /\ [DoorNext]_doorVars => DoorTypeOK' /\ LineFollows'
  BY DoorNextTyped, LineFollowsNext
<1> QED BY <1>1, <1>2, PTL DEF DoorSpec

LEMMA FlagsSavedNext ==
  ASSUME DoorTypeOK, FlagsSaved, [DoorNext]_doorVars PROVE FlagsSaved'
<1> USE DEF doors, user, doorPast
<1>t. ap \in Ap /\ kept \in [st : States, flags : SUBSET FlagBits]
  BY DEF DoorTypeOK, FlagBits
<1>1. CASE WatchDoor \/ Reopened
  BY <1>1 DEF WatchDoor, Reopened, SetLine, Miss, FlagsSaved
<1>2. ASSUME NEW f, SetFlag(f), UNCHANGED ap PROVE FlagsSaved'
  BY <1>2, <1>t DEF SetFlag, FlagsSaved
<1>3. CASE Opened \/ Closed
  BY <1>2, <1>3 DEF Opened, Closed
<1>4. CASE Save
  BY <1>4, <1>t DEF Save, Saved, Miss, FlagsSaved
<1>5. CASE Accept
  BY <1>5, <1>t DEF Accept, Ap, FlagsSaved
<1>6. CASE Flag
  BY <1>6, <1>t DEF Flag, Ap, FlagsSaved
<1>7. CASE UserIn \/ ResetReported
  BY <1>7, <1>t DEF UserIn, ResetReported, Ap, FlagsSaved
<1>8. CASE ReportReset \/ CloseReset
  BY <1>8, <1>t DEF ReportReset, CloseReset, Ap, FlagsSaved
<1>9. CASE ApBoot
  BY <1>9 DEF ApBoot, FlagsSaved
<1>10. CASE ApTimeout
  BY <1>10, <1>t DEF ApTimeout, Ap, FlagsSaved
<1>11. CASE ApStep /\ ~Save /\ ~Accept /\ ~Flag /\ ~UserIn
  <2>1. UNCHANGED flags /\ missed \subseteq missed'
    BY <1>11 DEF ApStep, IdleAlarmed, Idle, WaitIbutton, Ask, OpNormal, OpPreve, VisitEnds, VisitGoesOn
  <2>2. (ap' = ap /\ kept' = kept) \/ ap'.pc = "save"
    BY <1>11 DEF ApStep, IdleAlarmed, Idle, WaitIbutton, OpNormal, OpPreve, VisitEnds, VisitGoesOn, Enters, Stays
  <2> QED BY <2>1, <2>2 DEF FlagsSaved
<1>12. CASE UNCHANGED <<ap, flags, kept>> /\ missed \subseteq missed'
  BY <1>12 DEF FlagsSaved
<1> QED BY <1>1, <1>3, <1>4, <1>5, <1>6, <1>7, <1>8, <1>9, <1>10, <1>11, <1>12 DEF DoorNext, DoorMachine, DoorMoves,
        DoorRipe, TakeTreasure, Button, ResetStep, ResetTimeout, Clock, doorVars

(***************************************************************************)
(* FSM_FLAG_1 is in flash whenever AutoprotectTask is not about to write   *)
(* it, until it writes an old copy over AlarmDetectTask's.                 *)
(***************************************************************************)
THEOREM FlagsSavedCorrect ==
  ASSUME DoorAssumption
  PROVE  DoorSpec => []FlagsSaved
<1>1. DoorInit => DoorTypeOK /\ FlagsSaved
  <2>1. DoorInit => FlagsSaved BY DEF DoorInit, FlagsSaved
  <2> QED BY <2>1, DoorInitTyped
<1>2. DoorTypeOK /\ FlagsSaved /\ [DoorNext]_doorVars => DoorTypeOK' /\ FlagsSaved'
  BY DoorNextTyped, FlagsSavedNext
<1> QED BY <1>1, <1>2, PTL DEF DoorSpec
=============================================================================
