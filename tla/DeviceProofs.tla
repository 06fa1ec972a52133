---------------------------- MODULE DeviceProofs ----------------------------
(***************************************************************************)
(* Theorems about Lan485Poll, for any number of modules, any limits and    *)
(* any number of events, bad lines, commands and restarts; DataFlash, for  *)
(* any tasks, pages and buffers and any number of writes; Eeprom, for any  *)
(* chip and any calls; SerialRx and SerialTx, for rings of any size, any   *)
(* number of characters and, in SerialTx, any tasks.                       *)
(***************************************************************************)
EXTENDS Lan485Poll, DataFlash, Eeprom, SerialRx, SerialTx, FiniteSetTheorems, TLAPS

(***************************************************************************)
(* The modules on the bus.                                                 *)
(***************************************************************************)

\* Every mishap is told apart.
AllWatched == Races \subseteq Watched

LEMMA ConstantTypes ==
  ASSUME ConstantsAssumption
  PROVE  /\ N \in Nat /\ N >= 1 /\ Special \subseteq Modules
         /\ Limit \in Nat /\ Limit >= 1 /\ ErrSize \in Nat /\ Limit + 3 < ErrSize
         /\ MaxEvents \in Nat /\ MaxLines \in Nat /\ MaxCmds \in Nat /\ MaxBoots \in Nat
  BY DEF ConstantsAssumption, Modules

LEMMA RaceTypes ==
  \A kind \in Races, c \in BOOLEAN : Race(kind, c) \subseteq Races
  BY DEF Race

\* What happened is noted, and stays noted.
LEMMA Noted ==
  ASSUME AllWatched, NEW kind \in Races, NEW c \in BOOLEAN
  PROVE  c => Race(kind, c) = {kind}
  BY DEF AllWatched, Race

LEMMA RacedGrows == [Next]_vars => raced \subseteq raced'
  BY DEF Next, vars, history, external, Lan485, Answer, Visit, Poll, Silent, Garbled, Foreign,
     Status, EventAnswer, Heard, ParsePtmCID_Event, Write, VisitIdle, VisitNG, VisitWait, Mark,
     SetTrouble, Save, ModuleEvent, LineChanges, RemPtmArm, Clear485, OtherEvent, Rotura485,
     WaitOver, Boot

-----------------------------------------------------------------------------
(* Types.                                                                  *)

LEMMA CountTypes ==
  ASSUME ConstantsAssumption, NEW e \in 0..(ErrSize - 1)
  PROVE  /\ Missed(e) \in 0..(ErrSize - 1) /\ (e + 1) % ErrSize \in 0..(ErrSize - 1)
         /\ (e + 1) % ErrSize = IF e = ErrSize - 1 THEN 0 ELSE e + 1
<1> USE ConstantTypes
<1>1. Missed(e) \in 0..(ErrSize - 1) BY DEF Missed
<1>2. CASE e = ErrSize - 1
  <2>1. (e + 1) % ErrSize = 0 BY <1>2
  <2> QED BY <1>1, <1>2, <2>1
<1>3. CASE e # ErrSize - 1
  <2>1. (e + 1) % ErrSize = e + 1 BY <1>3
  <2> QED BY <1>1, <1>3, <2>1
<1> QED BY <1>2, <1>3

LEMMA NextModuleType ==
  ASSUME ConstantsAssumption, TypeOK
  PROVE  NextModule \in Task /\ NextModule.pc = "poll"
<1>1. task.at \in 1..N BY DEF TypeOK, Task, Modules
<1>2. (task.at % N) + 1 \in 1..N BY <1>1, ConstantTypes
<1> QED BY <1>2, ConstantTypes DEF NextModule, Task, Modules

LEMMA InitType == ConstantsAssumption /\ Init => TypeOK
<1> SUFFICES ASSUME ConstantsAssumption, Init PROVE TypeOK OBVIOUS
<1> USE ConstantTypes DEF Init, Modules
<1>1. mod \in [Modules -> Dcb] BY DEF Dcb
<1>2. task \in Task BY DEF Task
<1>3. cur \in [m : 0..N, what : {"none", "event", "E", "R"}] OBVIOUS
<1>4. box \in [Modules -> [made : 0..MaxEvents, done : 0..MaxEvents]] OBVIOUS
<1>5. used \in [lines : 0..MaxLines, cmds : 0..MaxCmds, boots : 0..MaxBoots] OBVIOUS
<1>6. rot \in [now : BOOLEAN, saved : BOOLEAN] OBVIOUS
<1> QED BY <1>1, <1>2, <1>3, <1>4, <1>5, <1>6 DEF TypeOK

\* An answer, or none.
LEMMA AnswerType ==
  ASSUME ConstantsAssumption, TypeOK, Poll \/ Answer
  PROVE  TypeOK'
<1>1. /\ task.at \in Modules /\ At \in Dcb /\ At.err \in 0..(ErrSize - 1)
      /\ task \in Task /\ mod \in [Modules -> Dcb]
  BY DEF TypeOK, At, Task, Dcb
<1>2. {"wrap", "foreign", "late"} \subseteq Races BY DEF Races
<1>3. CASE Poll
  <2>1. task' \in Task BY <1>1, <1>3 DEF Poll, Task
  <2>2. asked' \subseteq Modules BY <1>3 DEF Poll, TypeOK
  <2> QED BY <1>3, <2>1, <2>2 DEF Poll, TypeOK, external
<1>4. ASSUME [task EXCEPT !.pc = "visit"] \in Task, Silent PROVE TypeOK'
  <2>1. Missed(At.err) \in 0..(ErrSize - 1) BY <1>1, CountTypes
  <2>2. mod' \in [Modules -> Dcb] BY <1>1, <1>4, <2>1 DEF Silent, At, Dcb
  <2> QED BY <1>4, <2>2 DEF Silent, TypeOK, external, history
<1>5. ASSUME [task EXCEPT !.pc = "visit"] \in Task, Garbled PROVE TypeOK'
  <2>1. (At.err + 1) % ErrSize \in 0..(ErrSize - 1) BY <1>1, CountTypes
  <2>2. mod' \in [Modules -> Dcb] BY <1>1, <1>5, <2>1 DEF Garbled, At, Dcb
  <2>3. raced' \subseteq Races BY <1>2, <1>5, RaceTypes DEF Garbled, TypeOK
  <2> QED BY <1>5, <2>2, <2>3 DEF Garbled, TypeOK, external
<1>6. ASSUME [task EXCEPT !.pc = "visit"] \in Task, Foreign PROVE TypeOK'
  <2>2. mod' \in [Modules -> Dcb] BY <1>1, <1>6 DEF Foreign, At, Dcb
  <2>3. raced' \subseteq Races BY <1>2, <1>6, RaceTypes DEF Foreign, TypeOK
  <2> QED BY <1>6, <2>2, <2>3 DEF Foreign, TypeOK, external
<1>7. ASSUME Heard
      PROVE  mod' \in [Modules -> Dcb] /\ raced' \subseteq Races /\ good' \subseteq Modules
  <2>1. mod' \in [Modules -> Dcb] BY <1>1, <1>7, ConstantTypes DEF Heard, At, Dcb
  <2>2. raced' \subseteq Races BY <1>2, <1>7, RaceTypes DEF Heard, TypeOK
  <2> QED BY <1>1, <1>7, <2>1, <2>2 DEF Heard, TypeOK
<1>8. ASSUME [task EXCEPT !.pc = "visit"] \in Task, Status PROVE TypeOK'
  BY <1>7, <1>8 DEF Status, TypeOK, external
<1>9. CASE EventAnswer
  <2>1. box[task.at] \in [made : 0..MaxEvents, done : 0..MaxEvents] BY <1>1 DEF TypeOK
  <2>2. box[task.at].done + 1 \in 0..MaxEvents BY <1>9, <2>1, ConstantTypes DEF EventAnswer
  <2>3. task' \in Task BY <1>1, <1>9, <2>2 DEF EventAnswer, Task
  <2>4. box' \in [Modules -> [made : 0..MaxEvents, done : 0..MaxEvents]]
    BY <1>1, <1>9, <2>2 DEF EventAnswer, SendPtmACK, TypeOK
  <2> QED BY <1>7, <1>9, <2>3, <2>4 DEF EventAnswer, TypeOK
<1>10. [task EXCEPT !.pc = "visit"] \in Task BY <1>1 DEF Task
<1> QED BY <1>3, <1>4, <1>5, <1>6, <1>8, <1>9, <1>10 DEF Answer

(***************************************************************************)
(* Where the task is.  currentEvent is of the module at hand, if it is     *)
(* still the one built; an event of a module in hand is between its        *)
(* acknowledgement and the log.                                            *)
(***************************************************************************)
Located ==
  /\ cur.what # "none" => task.pc = "built" /\ cur.m = task.at /\ cur.what = task.what
  /\ task.pc \in {"poll", "answer"} => task.what = "none"
  /\ task.pc = "event" => task.what = "event"
  /\ task.pc = "built" => task.what # "none"
  /\ task.pc = "mark" => task.what \in {"E", "R"}
  /\ task.n # 0 <=> task.pc \in {"event", "built"} /\ task.what = "event"

\* The rest of a visit.
LEMMA VisitType ==
  ASSUME ConstantsAssumption, TypeOK, Located,
         ParsePtmCID_Event \/ Write \/ Visit \/ Mark \/ SetTrouble \/ Save
  PROVE  TypeOK'
<1>1. /\ task.at \in Modules /\ task.at \in 0..N /\ At \in Dcb
      /\ task \in Task /\ mod \in [Modules -> Dcb] /\ NextModule \in Task
  <2>1. /\ task \in Task /\ mod \in [Modules -> Dcb] /\ NextModule \in Task
    BY NextModuleType DEF TypeOK
  <2>2. task.at \in Modules BY <2>1 DEF Task
  <2> QED BY <2>1, <2>2, ConstantTypes DEF At, Modules
<1>2. {"edge", "clear"} \subseteq Races BY DEF Races
<1>3. ASSUME NEW what \in {"event", "E", "R"}, Builds(what)
      PROVE  cur' \in [m : 0..N, what : {"none", "event", "E", "R"}]
  BY <1>1, <1>3 DEF Builds
<1>4. CASE ParsePtmCID_Event
  <2>1. task' \in Task BY <1>1, <1>4 DEF ParsePtmCID_Event, Task
  <2> QED BY <1>3, <1>4, <2>1 DEF ParsePtmCID_Event, TypeOK, external, history
<1>5. CASE Write
  <2>1. task' \in Task
    <3>1. 0 \in 0..MaxEvents BY ConstantTypes
    <3>2. PICK where \in {"visit", "mark"} : task' = [task EXCEPT !.pc = where, !.n = 0]
      BY <1>5 DEF Write
    <3> QED BY ONLY <1>1, <3>1, <3>2 DEF Task
  <2>2. cur' \in [m : 0..N, what : {"none", "event", "E", "R"}]
    BY <1>5, ConstantTypes DEF Write
  <2>3. cur.what # "none" => cur.m \in Modules BY <1>1 DEF Located
  <2>4. open' \subseteq Modules BY <1>5, <2>3 DEF Write, TypeOK
  <2>5. logged' \in [Modules -> SUBSET (1..MaxEvents)]
    <3>1. CASE cur.what = "event"
      <4>1. task.n \in 1..MaxEvents BY <1>1, <3>1, ConstantTypes DEF Located, Task
      <4> QED BY <1>5, <2>3, <3>1, <4>1 DEF Write, TypeOK
    <3> QED BY <1>5, <3>1 DEF Write, TypeOK
  <2> QED BY <1>5, <2>1, <2>2, <2>4, <2>5 DEF Write, TypeOK, external, history
<1>6. CASE VisitIdle
  <2>1. task' \in Task BY <1>1, <1>6 DEF VisitIdle, Stays, Task
  <2>2. cur' \in [m : 0..N, what : {"none", "event", "E", "R"}]
    BY <1>3, <1>6 DEF VisitIdle, TypeOK
  <2>3. mod' = mod BY <1>6 DEF VisitIdle, Stays
  <2> QED BY <1>6, <2>1, <2>2, <2>3 DEF VisitIdle, TypeOK, external, history
<1>7. CASE VisitNG
  <2>1. task' \in Task BY <1>1, <1>7 DEF VisitNG, Stays
  <2>2. mod' \in [Modules -> Dcb] BY <1>1, <1>7 DEF VisitNG, Stays, Dcb
  <2>3. raced' \subseteq Races
    <3>1. Race("clear", ~IsBack(At.err)) \subseteq Races BY <1>2, RaceTypes DEF IsBack
    <3> QED BY <1>7, <3>1 DEF VisitNG, TypeOK
  <2> QED BY <1>7, <2>1, <2>2, <2>3 DEF VisitNG, TypeOK, external
<1>8. CASE VisitWait
  <2>0. /\ clear' = FALSE /\ clear \in BOOLEAN /\ At.over \in BOOLEAN
        /\ UNCHANGED <<hist, external, logged, open, asked, used>>
    BY <1>1, <1>8 DEF VisitWait, Dcb, TypeOK
  <2>1. CASE At.over \/ clear
    <3>1. /\ task' = [task EXCEPT !.pc = "built", !.what = "R"] /\ Builds("R")
          /\ mod' = [mod EXCEPT ![task.at].trouble = @ /\ task.at \in Special]
          /\ good' = good
          /\ raced' = raced \cup Race("edge", At.err = Limit) \cup Race("clear", clear)
      BY <1>8, <2>1, SMTT(30) DEF VisitWait
    <3>2. task' \in Task BY <1>1, <3>1 DEF Task
    <3>3. raced' \subseteq Races BY <1>2, <2>0, <3>1, RaceTypes DEF TypeOK
    <3>4. mod' \in [Modules -> Dcb] BY <1>1, <3>1 DEF Dcb
    <3> QED BY <1>3, <2>0, <3>1, <3>2, <3>3, <3>4 DEF TypeOK, external
  <2>2. CASE ~(At.over \/ clear) /\ Relapses(At.err)
    <3>1. /\ mod' = [mod EXCEPT ![task.at].st = "NG", ![task.at].over = FALSE]
          /\ task' \in {NextModule, [task EXCEPT !.pc = "flag"]}
          /\ good' = good \ {task.at} /\ UNCHANGED <<cur, raced>>
      BY <1>8, <2>2 DEF VisitWait
    <3>2. task' \in Task BY <1>1, <3>1 DEF Task
    <3>3. mod' \in [Modules -> Dcb] BY <1>1, <3>1 DEF Dcb
    <3> QED BY <2>0, <3>1, <3>2, <3>3 DEF TypeOK, external
  <2>3. CASE ~(At.over \/ clear) /\ ~Relapses(At.err)
    <3>1. mod' = mod /\ task' = NextModule /\ UNCHANGED <<cur, good, raced>>
      BY <1>8, <2>3 DEF VisitWait, Stays
    <3> QED BY <1>1, <2>0, <3>1 DEF TypeOK, external
  <2> QED BY <2>1, <2>2, <2>3
<1>9. CASE Mark
  <2>1. task' \in Task BY <1>1, <1>9 DEF Mark, Task
  <2>2. NewState(task.what) \in {"NG", "IDLE"} BY DEF NewState
  <2>3. mod' \in [Modules -> Dcb] BY <1>1, <1>9, <2>2 DEF Mark, Dcb
  <2>4. good' \subseteq Modules BY <1>9 DEF Mark, TypeOK
  <2> QED BY <1>9, <2>1, <2>3, <2>4 DEF Mark, TypeOK, external
<1>10. CASE SetTrouble
  <2>1. task' \in Task BY <1>1, <1>10 DEF SetTrouble, Task
  <2>2. mod' \in [Modules -> Dcb] BY <1>1, <1>10 DEF SetTrouble, Dcb
  <2> QED BY <1>10, <2>1, <2>2 DEF SetTrouble, TypeOK, external, history
<1>11. CASE Save
  <2>1. hist' \subseteq Modules /\ rot' \in [now : BOOLEAN, saved : BOOLEAN]
    BY <1>11 DEF Save, SaveStates, TypeOK
  <2> QED BY <1>1, <1>11, <2>1 DEF Save, TypeOK, history
<1> QED BY <1>4, <1>5, <1>6, <1>7, <1>8, <1>9, <1>10, <1>11 DEF Visit

\* The modules, the line, the other tasks and a restart.
LEMMA OthersType ==
  ASSUME ConstantsAssumption, TypeOK,
         \/ Clear485 \/ OtherEvent \/ Rotura485 \/ Boot
         \/ \E m \in Modules : ModuleEvent(m) \/ LineChanges(m) \/ RemPtmArm(m) \/ WaitOver(m)
  PROVE  TypeOK'
<1> DEFINE UsedType == [lines : 0..MaxLines, cmds : 0..MaxCmds, boots : 0..MaxBoots]
<1>0. /\ used \in UsedType /\ mod \in [Modules -> Dcb] /\ hist \subseteq Modules
      /\ {"word", "shared", "crash", "undone", "forgot", "again", "special"} \subseteq Races
  BY DEF TypeOK, Races
<1>1. Command => used' \in UsedType BY <1>0, ConstantTypes DEF Command
<1>2. CASE Clear485 BY <1>1, <1>2 DEF Clear485, TypeOK, external, history
<1>3. CASE OtherEvent
  <2>1. raced' \subseteq Races BY <1>0, <1>3, RaceTypes DEF OtherEvent, TypeOK
  <2>2. cur' \in [m : 0..N, what : {"none", "event", "E", "R"}]
    BY <1>3, ConstantTypes DEF OtherEvent
  <2> QED BY <1>3, <2>1, <2>2 DEF OtherEvent, TypeOK, external
<1>4. CASE Rotura485
  <2>1. hist' \subseteq Modules /\ rot' \in [now : BOOLEAN, saved : BOOLEAN]
    BY <1>4 DEF Rotura485, SaveStates, TypeOK
  <2> QED BY <1>4, <2>1 DEF Rotura485, TypeOK, history
<1>5. CASE Boot
  <2>1. used' \in UsedType BY <1>0, <1>5, ConstantTypes DEF Boot
  <2>2. mod' \in [Modules -> Dcb] BY <1>0, <1>5, ConstantTypes DEF Boot, RestartCount, Dcb
  <2>3. task' \in Task BY <1>5, ConstantTypes DEF Boot, Task, Modules
  <2>4. cur' \in [m : 0..N, what : {"none", "event", "E", "R"}]
    BY <1>5, ConstantTypes DEF Boot
  <2>5. raced' \subseteq Races
    <3>1. /\ Race("crash", task.n # 0) \subseteq Races
          /\ Race("undone", \E m \in asked : mod[m].arm) \subseteq Races
          /\ Race("forgot", open \ hist # {}) \subseteq Races
          /\ Race("again", hist \ open # {}) \subseteq Races
          /\ Race("special", hist \cap Special # {}) \subseteq Races
      BY <1>0 DEF Race
    <3> QED BY <1>5, <3>1 DEF Boot, TypeOK
  <2>6. rot' \in [now : BOOLEAN, saved : BOOLEAN] BY <1>5 DEF Boot, TypeOK
  <2> QED BY <1>5, <2>1, <2>2, <2>3, <2>4, <2>5, <2>6 DEF Boot, TypeOK
<1>6. ASSUME NEW m \in Modules, ModuleEvent(m) PROVE TypeOK'
  <2>1. box' \in [Modules -> [made : 0..MaxEvents, done : 0..MaxEvents]]
    BY <1>6, ConstantTypes DEF ModuleEvent, TypeOK
  <2> QED BY <1>6, <2>1 DEF ModuleEvent, TypeOK, history
<1>7. ASSUME NEW m \in Modules, LineChanges(m) PROVE TypeOK'
  <2>1. used' \in UsedType BY <1>0, <1>7, ConstantTypes DEF LineChanges
  <2>2. line' \in [Modules -> {"good", "bad", "dead"}] BY <1>7 DEF LineChanges, TypeOK
  <2> QED BY <1>7, <2>1, <2>2 DEF LineChanges, TypeOK, history
<1>8. ASSUME NEW m \in Modules, RemPtmArm(m) PROVE TypeOK'
  <2>1. mod' \in [Modules -> Dcb]
    <3>1. [mod[m] EXCEPT !.arm = TRUE] \in Dcb BY <1>0 DEF Dcb
    <3> QED BY <1>0, <1>8, <3>1 DEF RemPtmArm
  <2>2. raced' \subseteq Races BY <1>0, <1>8, RaceTypes DEF RemPtmArm, TypeOK
  <2> QED BY <1>1, <1>8, <2>1, <2>2 DEF RemPtmArm, TypeOK, external
<1>9. ASSUME NEW m \in Modules, WaitOver(m) PROVE TypeOK'
  <2>1. mod' \in [Modules -> Dcb]
    <3>1. [mod[m] EXCEPT !.over = TRUE] \in Dcb BY <1>0 DEF Dcb
    <3> QED BY <1>0, <1>9, <3>1 DEF WaitOver
  <2> QED BY <1>9, <2>1 DEF WaitOver, TypeOK, external, history
<1> QED BY <1>2, <1>3, <1>4, <1>5, <1>6, <1>7, <1>8, <1>9

-----------------------------------------------------------------------------
(* Where the task is.                                                      *)

LEMMA InitLocated == Init => Located
  BY DEF Init, Located

LEMMA NextLocated ==
  ASSUME ConstantsAssumption, TypeOK, Located, [Next]_vars
  PROVE  Located'
<1>0. task \in Task BY DEF TypeOK
<1>1. NextModule.pc = "poll" /\ NextModule.what = "none" /\ NextModule.n = 0 BY DEF NextModule
<1>2. CASE Poll BY <1>0, <1>2 DEF Poll, Does, Located, Task
<1>3. CASE Silent \/ Garbled \/ Foreign \/ Status
  <2>1. task' = [task EXCEPT !.pc = "visit"] /\ task.pc = "answer" /\ cur' = cur
    BY <1>3 DEF Silent, Garbled, Foreign, Status, Does
  <2> QED BY <1>0, <2>1 DEF Located, Task
<1>4. CASE EventAnswer
  <2>1. box[task.at].done \in Nat
    <3>1. task.at \in Modules BY DEF TypeOK, Task
    <3>2. box[task.at].done \in 0..MaxEvents BY <3>1 DEF TypeOK
    <3> QED BY <3>2, ConstantTypes
  <2>2. box[task.at].done + 1 # 0 BY <2>1
  <2>3. /\ task' = [task EXCEPT !.pc = "event", !.what = "event", !.n = box[task.at].done + 1]
        /\ task.pc = "answer" /\ cur' = cur
    BY <1>4 DEF EventAnswer, Does
  <2> QED BY <1>0, <2>2, <2>3 DEF Located, Task
<1>5. CASE ParsePtmCID_Event
  BY <1>0, <1>5 DEF ParsePtmCID_Event, Does, Builds, Located, Task
<1>6. CASE Write BY <1>0, <1>6 DEF Write, Does, Located, Task
<1>7. CASE VisitIdle \/ VisitWait
  <2>1. task.pc = "visit" BY <1>7 DEF VisitIdle, VisitWait, Does
  <2>2. \/ \E what \in {"E", "R"} :
             task' = [task EXCEPT !.pc = "built", !.what = what] /\ Builds(what)
        \/ task' = NextModule /\ cur' = cur
        \/ task' = [task EXCEPT !.pc = "flag"] /\ cur' = cur
    BY <1>7 DEF VisitIdle, VisitWait, Stays
  <2>3. task.n = 0 /\ cur.what = "none" BY <2>1 DEF Located
  <2>4. ASSUME NEW what \in {"E", "R"},
               task' = [task EXCEPT !.pc = "built", !.what = what], Builds(what)
        PROVE  Located'
    BY <1>0, <2>3, <2>4 DEF Builds, Located, Task
  <2>5. CASE task' = NextModule /\ cur' = cur BY <1>1, <2>3, <2>5 DEF Located
  <2>6. CASE task' = [task EXCEPT !.pc = "flag"] /\ cur' = cur BY <1>0, <2>3, <2>6 DEF Located, Task
  <2> QED BY <2>2, <2>4, <2>5, <2>6
<1>8. CASE VisitNG \/ Save
  <2>1. /\ task.pc \in {"visit", "save"} /\ task' = NextModule /\ cur' = cur
    BY <1>8 DEF VisitNG, Save, Stays, Does
  <2> QED BY <1>1, <2>1 DEF Located
<1>9. CASE Mark \/ SetTrouble
  <2>1. /\ task.pc \in {"mark", "flag"} /\ cur' = cur
        /\ \/ task' = NextModule
           \/ \E pc2 \in {"flag", "save"} : task' = [task EXCEPT !.pc = pc2]
    BY <1>9 DEF Mark, SetTrouble, Does
  <2> QED BY <1>0, <1>1, <2>1 DEF Located, Task
<1>10. CASE OtherEvent BY <1>10 DEF OtherEvent, Does, Located
<1>11. CASE Boot BY <1>11 DEF Boot, Located
<1>12. CASE UNCHANGED <<task, cur>> BY <1>0, <1>12 DEF Located
<1>13. Clear485 \/ Rotura485 \/ UNCHANGED vars => UNCHANGED <<task, cur>>
  BY DEF Clear485, Rotura485, vars
<1>14. (\E m \in Modules : ModuleEvent(m) \/ LineChanges(m) \/ RemPtmArm(m) \/ WaitOver(m))
         => UNCHANGED <<task, cur>>
  BY DEF ModuleEvent, LineChanges, RemPtmArm, WaitOver
<1> QED
  BY <1>2, <1>3, <1>4, <1>5, <1>6, <1>7, <1>8, <1>9, <1>10, <1>11, <1>12, <1>13, <1>14
  DEF Next, Lan485, Answer, Visit

Typed == TypeOK /\ Located

LEMMA InitTyped == ConstantsAssumption /\ Init => Typed
  BY InitType, InitLocated DEF Typed

LEMMA NextTyped ==
  ASSUME ConstantsAssumption, Typed, [Next]_vars
  PROVE  Typed'
<1>1. Located' BY NextLocated DEF Typed
<1>2. TypeOK /\ Located BY DEF Typed
<1>3. UNCHANGED vars => TypeOK' BY <1>2 DEF vars, external, history, TypeOK
<1>4. TypeOK' BY <1>2, <1>3, AnswerType, VisitType, OthersType DEF Next, Lan485
<1> QED BY <1>1, <1>4 DEF Typed

(***************************************************************************)
(* Every variable keeps its type, whatever the line, the console and the   *)
(* other tasks do: the count of silences stays in its byte and nothing is  *)
(* logged for a module that is not there.                                  *)
(***************************************************************************)
THEOREM TypeCorrect ==
  ASSUME ConstantsAssumption
  PROVE  Spec => []TypeOK
<1>1. Typed /\ [Next]_vars => Typed' BY NextTyped
<1>2. Typed => TypeOK BY DEF Typed
<1> QED BY <1>1, <1>2, InitTyped, PTL DEF Spec

-----------------------------------------------------------------------------
(* What the steps do to the modules.                                       *)

\* The state of a module and its COMM_TROUBLE change in a visit, when a report
\* is out, when it is given up, and in a restart.
LEMMA StateSteps ==
  ASSUME Typed, [Next]_vars
  PROVE  \/ Boot \/ VisitNG \/ VisitWait \/ Mark \/ SetTrouble
         \/ \A m \in Modules : mod'[m].st = mod[m].st /\ mod'[m].trouble = mod[m].trouble
<1> DEFINE Quiet == \A m \in Modules : mod'[m].st = mod[m].st /\ mod'[m].trouble = mod[m].trouble
<1>0. /\ mod \in [Modules -> Dcb] /\ task.at \in Modules
  BY DEF Typed, TypeOK, Task
<1>1. mod' = mod => Quiet OBVIOUS
<1>2. Silent \/ Garbled \/ Foreign => Quiet BY <1>0 DEF Silent, Garbled, Foreign, Dcb
<1>3. Heard => Quiet BY <1>0 DEF Heard, Dcb
<1>4. ASSUME NEW m \in Modules, RemPtmArm(m) \/ WaitOver(m) PROVE Quiet
  <2>1. \/ mod' = [mod EXCEPT ![m].arm = TRUE] \/ mod' = [mod EXCEPT ![m].over = TRUE]
        \/ mod' = mod
    BY <1>4 DEF RemPtmArm, WaitOver
  <2> QED BY <1>0, <2>1 DEF Dcb
<1>5. \/ Poll \/ ParsePtmCID_Event \/ Write \/ VisitIdle \/ Save \/ Clear485 \/ OtherEvent
      \/ Rotura485 \/ UNCHANGED vars \/ \E m \in Modules : ModuleEvent(m) \/ LineChanges(m)
      => mod' = mod
  BY DEF Poll, ParsePtmCID_Event, Write, VisitIdle, Stays, Save, Clear485, OtherEvent,
     Rotura485, vars, ModuleEvent, LineChanges
<1> QED
  BY <1>1, <1>2, <1>3, <1>4, <1>5 DEF Next, Lan485, Answer, Visit, Status, EventAnswer

-----------------------------------------------------------------------------
(* COMM_TROUBLE.                                                           *)

\* What is about to get COMM_TROUBLE is an ordinary module given up.
Flagging == task.pc = "flag" => task.at \notin Special /\ mod[task.at].st = "NG"

LEMMA InitTrouble == Init => TroubleStands /\ Flagging
<1> SUFFICES ASSUME Init PROVE TroubleStands /\ Flagging OBVIOUS
<1>1. \A m \in Modules : mod[m].trouble = FALSE /\ mod[m].st = "IDLE" BY DEF Init
<1>2. task.pc = "poll" BY DEF Init
<1> QED BY <1>1, <1>2 DEF TroubleStands, Flagging

\* The steps that change no state leave the reports where they are.
LEMMA QuietSteps ==
  ASSUME Typed, [Next]_vars
  PROVE  \/ Boot \/ VisitNG \/ VisitWait \/ Mark \/ SetTrouble
         \/ /\ task' = task \/ (task.pc # "flag" /\ task'.pc # "flag")
            /\ \A m \in Modules : Returning(m)' = Returning(m)
<1> DEFINE Stay == /\ task' = task \/ (task.pc # "flag" /\ task'.pc # "flag")
                   /\ \A m \in Modules : Returning(m)' = Returning(m)
<1>0. task \in Task /\ Located /\ NextModule.pc = "poll"
  BY DEF Typed, TypeOK, NextModule
<1>1. task' = task => Stay BY DEF Returning
<1>2. ASSUME task.pc \notin {"flag", "built", "mark"}, task'.pc \notin {"flag", "built", "mark"}
      PROVE  Stay
  BY <1>2 DEF Returning
<1>3. CASE Poll BY <1>0, <1>2, <1>3 DEF Poll, Does, Task
<1>4. CASE Silent \/ Garbled \/ Foreign \/ Status
  <2>1. task.pc = "answer" /\ task' = [task EXCEPT !.pc = "visit"]
    BY <1>4 DEF Silent, Garbled, Foreign, Status, Does
  <2> QED BY <1>0, <1>2, <2>1 DEF Task
<1>5. CASE EventAnswer BY <1>0, <1>2, <1>5 DEF EventAnswer, Does, Task
<1>6. CASE ParsePtmCID_Event
  <2>1. task.pc = "event" /\ task.what = "event" /\ task' = [task EXCEPT !.pc = "built"]
    BY <1>0, <1>6 DEF ParsePtmCID_Event, Does, Located
  <2>2. task'.pc = "built" /\ task'.what = "event" BY <1>0, <2>1 DEF Task
  <2> QED BY <2>1, <2>2 DEF Returning
<1>7. CASE Write
  <2>1. /\ task.pc = "built" /\ task'.at = task.at /\ task'.what = task.what
        /\ task'.pc = IF task.what = "event" THEN "visit" ELSE "mark"
    BY <1>0, <1>7 DEF Write, Does, Task
  <2> QED BY <2>1 DEF Returning
<1>8. CASE VisitIdle
  <2>1. task.pc = "visit" BY <1>8 DEF VisitIdle, Does
  <2>2. task' = NextModule \/ task' = [task EXCEPT !.pc = "built", !.what = "E"]
    BY <1>8 DEF VisitIdle, Stays
  <2>3. CASE task' = NextModule BY <1>0, <1>2, <2>1, <2>3
  <2>4. CASE task' = [task EXCEPT !.pc = "built", !.what = "E"]
    <3>1. task'.pc = "built" /\ task'.what = "E" BY <1>0, <2>4 DEF Task
    <3> QED BY <2>1, <3>1 DEF Returning
  <2> QED BY <2>2, <2>3, <2>4
<1>9. CASE Save
  <2>1. task.pc = "save" /\ task' = NextModule BY <1>9 DEF Save, Does
  <2> QED BY <1>0, <1>2, <2>1
<1>10. \/ Clear485 \/ OtherEvent \/ Rotura485 \/ UNCHANGED vars
       \/ \E m \in Modules : ModuleEvent(m) \/ LineChanges(m) \/ RemPtmArm(m) \/ WaitOver(m)
       => task' = task
  BY DEF Clear485, OtherEvent, Rotura485, vars, ModuleEvent, LineChanges, RemPtmArm, WaitOver
<1> QED
  BY <1>1, <1>3, <1>4, <1>5, <1>6, <1>7, <1>8, <1>9, <1>10 DEF Next, Lan485, Answer, Visit

LEMMA NextTrouble ==
  ASSUME ConstantsAssumption, AllWatched, Typed, TroubleStands, Flagging, [Next]_vars
  PROVE  TroubleStands' /\ Flagging'
<1> DEFINE Due(m) == m \notin Special /\ mod[m].st # "IDLE" /\ ~Returning(m)
           Raced(m) == m \in Special /\ "special" \in raced
<1>0. /\ mod \in [Modules -> Dcb] /\ task \in Task /\ task.at \in Modules
      /\ hist \subseteq Modules /\ Special \subseteq Modules /\ NextModule.pc = "poll"
      /\ \A m \in Modules : mod[m].trouble \in BOOLEAN
  BY ConstantTypes DEF Typed, TypeOK, Task, Dcb, NextModule
<1>1. \A m \in Modules : Raced(m) => Raced(m)' BY RacedGrows
<1>2. \A m \in Modules : \/ mod[m].trouble = Due(m)
                         \/ (task.at = m /\ task.pc = "flag") \/ Raced(m)
  BY DEF TroubleStands
<1>3. CASE Boot
  <2>1. (\E m \in Special : m \in hist) => "special" \in raced'
    <3>1. "special" \in Races BY DEF Races
    <3>2. hist \cap Special # {} => Race("special", hist \cap Special # {}) = {"special"}
      BY <3>1, Noted
    <3> QED BY <1>3, <3>2 DEF Boot
  <2>2. /\ \A m \in Modules : /\ mod'[m].trouble = (m \in hist)
                              /\ (mod'[m].st # "IDLE") = (m \in hist)
        /\ task'.pc = "poll"
    BY <1>3 DEF Boot
  <2> QED BY <2>1, <2>2 DEF TroubleStands, Returning, Flagging
<1>x. PICK x \in Modules : x = task.at BY <1>0
\* A step at the module at hand, which says what becomes of it.
<1>4. ASSUME task.pc # "flag", \A m \in Modules : m # task.at => ~Returning(m) /\ ~Returning(m)',
             \A m \in Modules : m # task.at => mod'[m] = mod[m],
             \/ mod'[x].trouble = Due(x)'
             \/ task'.at = x /\ task'.pc = "flag"
             \/ Raced(x)'
      PROVE  TroubleStands'
  <2>1. ASSUME NEW m \in Modules, m # task.at
        PROVE  mod'[m].trouble = Due(m)' \/ Raced(m)'
    BY <1>x, <1>1, <1>2, <1>4, <2>1
  <2> QED BY <1>x, <1>4, <2>1 DEF TroubleStands
<1>5. \A m \in Modules : m # task.at => ~Returning(m) BY DEF Returning
<1>6. task'.at = task.at \/ task'.pc = "poll" => \A m \in Modules : m # task.at => ~Returning(m)'
  BY DEF Returning
<1>7. CASE VisitNG
  <2>1. task.pc = "visit" /\ task' = NextModule BY <1>7 DEF VisitNG, Stays, Does
  <2>2. \A m \in Modules : m # task.at => mod'[m] = mod[m] BY <1>0, <1>7 DEF VisitNG, Stays
  <2>3. /\ mod'[task.at].trouble = mod[task.at].trouble
        /\ mod'[task.at].st # "IDLE" /\ mod[task.at].st # "IDLE"
    BY <1>0, <1>7 DEF VisitNG, Stays, At, Dcb
  <2>4. ~Returning(task.at) /\ ~Returning(x)' BY <1>0, <1>x, <2>1 DEF Returning
  <2>5. mod'[x].trouble = Due(x)' \/ Raced(x)'
    BY <1>0, <1>1, <1>x, <1>2, <2>1, <2>3, <2>4
  <2>6. TroubleStands' BY <1>0, <1>x, <1>4, <1>5, <1>6, <2>1, <2>2, <2>5
  <2> QED BY <1>0, <2>1, <2>6 DEF Flagging
<1>8. CASE VisitWait
  <2>0. task.pc = "visit" /\ mod[task.at].st = "WAIT" BY <1>8 DEF VisitWait, Does, At
  <2>1. ~Returning(x) BY <1>x, <2>0 DEF Returning
  <2>2. CASE At.over \/ clear
    <3>1. /\ task' = [task EXCEPT !.pc = "built", !.what = "R"]
          /\ mod' = [mod EXCEPT ![task.at].trouble = @ /\ task.at \in Special]
      BY <1>8, <2>2 DEF VisitWait
    <3>2. task'.at = task.at /\ task'.pc = "built" /\ task'.what = "R" BY <1>0, <3>1 DEF Task
    <3>3. /\ \A m \in Modules : m # task.at => mod'[m] = mod[m]
          /\ mod'[task.at].trouble = (mod[task.at].trouble /\ task.at \in Special)
      BY <1>0, <3>1 DEF Dcb
    <3>4. Returning(x)' BY <1>x, <3>2 DEF Returning
    <3>5. mod'[x].trouble = Due(x)' \/ Raced(x)'
      BY <1>0, <1>1, <1>x, <1>2, <2>0, <3>3, <3>4
    <3>6. TroubleStands' BY <1>0, <1>x, <1>4, <1>5, <1>6, <2>0, <3>2, <3>3, <3>5
    <3> QED BY <3>2, <3>6 DEF Flagging
  <2>3. CASE ~(At.over \/ clear) /\ Relapses(At.err)
    <3>1. /\ mod' = [mod EXCEPT ![task.at].st = "NG", ![task.at].over = FALSE]
          /\ task' = IF task.at \in Special THEN NextModule ELSE [task EXCEPT !.pc = "flag"]
      BY <1>8, <2>3 DEF VisitWait
    <3>2. /\ \A m \in Modules : m # task.at => mod'[m] = mod[m]
          /\ mod'[task.at].trouble = mod[task.at].trouble /\ mod'[task.at].st = "NG"
      BY <1>0, <3>1 DEF Dcb
    <3>3. CASE task.at \in Special
      <4>1. task'.pc = "poll" BY <1>0, <3>1, <3>3
      <4>2. mod'[x].trouble = Due(x)' \/ Raced(x)'
        BY <1>0, <1>1, <1>x, <1>2, <2>0, <3>2, <3>3
      <4>3. TroubleStands' BY <1>0, <1>x, <1>4, <1>5, <1>6, <2>0, <3>2, <4>1, <4>2
      <4> QED BY <4>1, <4>3 DEF Flagging
    <3>4. CASE task.at \notin Special
      <4>1. task'.at = task.at /\ task'.pc = "flag" BY <1>0, <3>1, <3>4 DEF Task
      <4>2. TroubleStands' BY <1>0, <1>x, <1>4, <1>5, <1>6, <2>0, <3>2, <4>1
      <4> QED BY <3>2, <3>4, <4>1, <4>2 DEF Flagging
    <3> QED BY <3>3, <3>4
  <2>4. CASE ~(At.over \/ clear) /\ ~Relapses(At.err)
    <3>1. mod' = mod /\ task' = NextModule BY <1>8, <2>4 DEF VisitWait, Stays
    <3>2. ~Returning(x)' BY <1>0, <3>1 DEF Returning
    <3>3. mod'[x].trouble = Due(x)' \/ Raced(x)'
      BY <1>0, <1>1, <1>x, <1>2, <2>0, <2>1, <3>1, <3>2
    <3>4. TroubleStands' BY <1>0, <1>x, <1>4, <1>5, <1>6, <2>0, <3>1, <3>3
    <3> QED BY <1>0, <3>1, <3>4 DEF Flagging
  <2> QED BY <2>2, <2>3, <2>4
<1>9. CASE Mark
  <2>1. task.pc = "mark" /\ task.what \in {"E", "R"} BY <1>9 DEF Mark, Does, Typed, Located
  <2>2. /\ \A m \in Modules : m # task.at => mod'[m] = mod[m]
        /\ mod'[task.at].st = IF task.what = "E" THEN "NG" ELSE "IDLE"
        /\ mod'[task.at].trouble = mod[task.at].trouble
    BY <1>0, <1>9 DEF Mark, NewState, Dcb
  <2>3. mod[x].trouble = Due(x) \/ Raced(x) BY <1>0, <1>x, <1>2, <2>1
  <2>4. CASE task.at \in Special
    <3>1. task'.pc = "poll" BY <1>0, <1>9, <2>4 DEF Mark
    <3>2. mod'[x].trouble = Due(x)' \/ Raced(x)'
      BY <1>0, <1>1, <1>x, <2>2, <2>3, <2>4
    <3>3. TroubleStands' BY <1>0, <1>x, <1>4, <1>5, <1>6, <2>1, <2>2, <3>1, <3>2
    <3> QED BY <3>1, <3>3 DEF Flagging
  <2>5. CASE task.at \notin Special /\ task.what = "E"
    <3>1. task'.at = task.at /\ task'.pc = "flag" BY <1>0, <1>9, <2>5 DEF Mark, Task
    <3>2. TroubleStands' BY <1>0, <1>x, <1>4, <1>5, <1>6, <2>1, <2>2, <3>1
    <3> QED BY <2>2, <2>5, <3>1, <3>2 DEF Flagging
  <2>6. CASE task.at \notin Special /\ task.what = "R"
    <3>1. task'.at = task.at /\ task'.pc = "save" BY <1>0, <1>9, <2>6 DEF Mark, Task
    <3>2. Returning(x) BY <1>x, <2>1, <2>6 DEF Returning
    <3>3. mod'[x].trouble = Due(x)' \/ Raced(x)'
      BY <1>0, <1>1, <1>x, <2>2, <2>3, <2>6, <3>2
    <3>4. TroubleStands' BY <1>0, <1>x, <1>4, <1>5, <1>6, <2>1, <2>2, <3>1, <3>3
    <3> QED BY <3>1, <3>4 DEF Flagging
  <2> QED BY <2>1, <2>4, <2>5, <2>6
<1>10. CASE SetTrouble
  <2>1. task.pc = "flag" /\ task'.at = task.at /\ task'.pc = "save"
    BY <1>0, <1>10 DEF SetTrouble, Does, Task
  <2>2. /\ \A m \in Modules : m # task.at => mod'[m] = mod[m]
        /\ mod'[task.at].trouble = TRUE /\ mod'[task.at].st = mod[task.at].st
    BY <1>0, <1>10 DEF SetTrouble, Dcb
  <2>3. task.at \notin Special /\ mod[task.at].st = "NG" BY <2>1 DEF Flagging
  <2>4. \A m \in Modules : ~Returning(m)' BY <2>1 DEF Returning
  <2>5. mod'[x].trouble = Due(x)' BY <1>x, <2>2, <2>3, <2>4, <1>0
  <2>6. ASSUME NEW m \in Modules, m # task.at
        PROVE  mod'[m].trouble = Due(m)' \/ Raced(m)'
    BY <1>1, <1>2, <1>5, <2>2, <2>4, <2>6
  <2>7. TroubleStands' BY <1>x, <2>5, <2>6 DEF TroubleStands
  <2> QED BY <2>1, <2>7 DEF Flagging
<1>11. CASE /\ \A m \in Modules : mod'[m].st = mod[m].st /\ mod'[m].trouble = mod[m].trouble
            /\ task' = task \/ (task.pc # "flag" /\ task'.pc # "flag")
            /\ \A m \in Modules : Returning(m)' = Returning(m)
  <2>1. TroubleStands' BY <1>1, <1>2, <1>11 DEF TroubleStands
  <2>2. Flagging' BY <1>0, <1>11 DEF Flagging
  <2> QED BY <2>1, <2>2
<1> QED BY <1>3, <1>7, <1>8, <1>9, <1>10, <1>11, StateSteps, QuietSteps

(***************************************************************************)
(* COMM_TROUBLE, which becomes a tamper alarm, is set while an ordinary    *)
(* module is not idle, but from the end of its wait while its return is    *)
(* reported and for the step after it is given up; never for a special     *)
(* one, unless a restart took its state from a history that another        *)
(* module's write, or fsm_rotura485's, had put it in.                      *)
(***************************************************************************)
THEOREM TroubleStandsCorrect ==
  ASSUME ConstantsAssumption, AllWatched
  PROVE  Spec => []TroubleStands
<1> DEFINE Inv == Typed /\ TroubleStands /\ Flagging
<1>1. ConstantsAssumption /\ Init => Inv BY InitTyped, InitTrouble
<1>2. Inv /\ [Next]_vars => Inv' BY NextTyped, NextTrouble
<1> QED BY <1>1, <1>2, PTL DEF Spec

-----------------------------------------------------------------------------
(* Commands to arm.                                                        *)

LEMMA InitArm == Init => ArmKept
  BY DEF Init, ArmKept

LEMMA NextArm ==
  ASSUME ConstantsAssumption, AllWatched, Typed, ArmKept, [Next]_vars
  PROVE  ArmKept'
<1> DEFINE Lost == raced \cap {"late", "foreign", "word", "undone"} # {}
           ArmStays == \A m \in Modules : mod'[m].arm = mod[m].arm
<1>0. /\ mod \in [Modules -> Dcb] /\ task.at \in Modules /\ asked \subseteq Modules
      /\ \A m \in Modules : mod[m].arm \in BOOLEAN
  BY DEF Typed, TypeOK, Task, Dcb
<1>1. raced \subseteq raced' /\ (Lost => Lost') BY RacedGrows
<1>2. {"late", "foreign", "word", "undone"} \subseteq Races BY DEF Races
<1>3. CASE ArmStays /\ asked' \subseteq asked BY <1>0, <1>1, <1>3 DEF ArmKept
<1>4. ASSUME NEW kind \in {"late", "foreign"}, asked' = asked,
             raced' = raced \cup Race(kind, At.arm /\ task.at \in asked),
             \A m \in Modules : m # task.at => mod'[m] = mod[m]
      PROVE  ArmKept'
  <2>1. CASE At.arm /\ task.at \in asked
    <3>1. Race(kind, At.arm /\ task.at \in asked) = {kind} BY <1>0, <1>2, <2>1, Noted DEF At
    <3> QED BY <1>4, <3>1 DEF ArmKept
  <2>2. CASE ~(At.arm /\ task.at \in asked)
    <3>1. \A m \in asked : mod[m].arm \/ Lost BY DEF ArmKept
    <3>2. \A m \in asked : mod'[m].arm \/ Lost BY <1>0, <1>4, <2>2, <3>1 DEF At
    <3> QED BY <1>1, <1>4, <3>2 DEF ArmKept
  <2> QED BY <2>1, <2>2
<1>5. CASE Foreign
  BY <1>0, <1>4, <1>5 DEF Foreign
<1>6. CASE Status \/ EventAnswer
  BY <1>0, <1>4, <1>6 DEF Status, EventAnswer, Heard
<1>7. ASSUME NEW m \in Modules, RemPtmArm(m) PROVE ArmKept'
  <2>1. asked' = asked \cup {m} BY <1>7 DEF RemPtmArm
  <2>2. CASE mod' = [mod EXCEPT ![m].arm = TRUE] /\ UNCHANGED raced
    <3>1. \A k \in Modules : mod'[k].arm = (k = m \/ mod[k].arm) BY <1>0, <2>2 DEF Dcb
    <3> QED BY <1>0, <1>1, <2>1, <3>1 DEF ArmKept
  <2>3. CASE raced' = raced \cup Race("word", TRUE)
    <3>1. Race("word", TRUE) = {"word"} BY <1>2, Noted
    <3> QED BY <2>3, <3>1 DEF ArmKept
  <2> QED BY <1>7, <2>2, <2>3 DEF RemPtmArm
<1>8. CASE Boot
  <2>1. asked' = asked BY <1>8 DEF Boot
  <2>2. CASE \E m \in asked : mod[m].arm
    <3>1. Race("undone", \E m \in asked : mod[m].arm) = {"undone"} BY <1>2, <2>2, Noted
    <3> QED BY <1>8, <3>1 DEF Boot, ArmKept
  <2>3. CASE ~ \E m \in asked : mod[m].arm
    <3>1. asked = {} \/ Lost BY <2>3 DEF ArmKept
    <3> QED BY <1>1, <2>1, <3>1 DEF ArmKept
  <2> QED BY <2>2, <2>3
<1>9. mod' = mod => ArmStays OBVIOUS
<1>10. Silent \/ Garbled \/ VisitNG \/ Mark \/ SetTrouble => ArmStays /\ asked' = asked
  BY <1>0 DEF Silent, Garbled, VisitNG, Stays, Mark, SetTrouble, Dcb, history
<1>11. VisitWait => ArmStays /\ asked' = asked
  <2>1. VisitWait => \/ mod' = mod
                     \/ mod' = [mod EXCEPT ![task.at].trouble = @ /\ task.at \in Special]
                     \/ mod' = [mod EXCEPT ![task.at].st = "NG", ![task.at].over = FALSE]
    BY DEF VisitWait, Stays
  <2>2. VisitWait => asked' = asked BY DEF VisitWait
  <2> QED BY <1>0, <2>1, <2>2 DEF Dcb
<1>12. \A m \in Modules : WaitOver(m) => ArmStays /\ asked' = asked
  BY <1>0 DEF WaitOver, Dcb, history
<1>13. Poll => mod' = mod /\ asked' \subseteq asked BY DEF Poll
<1>14. \/ ParsePtmCID_Event \/ Write \/ VisitIdle \/ Save \/ Clear485 \/ OtherEvent
       \/ Rotura485 \/ UNCHANGED vars \/ \E m \in Modules : ModuleEvent(m) \/ LineChanges(m)
       => mod' = mod /\ asked' = asked
  BY DEF ParsePtmCID_Event, Write, VisitIdle, Stays, Save, Clear485, OtherEvent,
     Rotura485, vars, history, ModuleEvent, LineChanges
<1> QED
  BY <1>3, <1>5, <1>6, <1>7, <1>8, <1>9, <1>10, <1>11, <1>12, <1>13, <1>14
  DEF Next, Lan485, Answer, Visit

(***************************************************************************)
(* A command to arm waits in PTMCMD_ARM until it has gone out to the       *)
(* module, unless an answer took it for obeyed, a read-modify-write of the *)
(* flags undid it, or the program restarted.                               *)
(***************************************************************************)
THEOREM ArmKeptCorrect ==
  ASSUME ConstantsAssumption, AllWatched
  PROVE  Spec => []ArmKept
<1>1. Typed /\ ArmKept /\ [Next]_vars => Typed' /\ ArmKept' BY NextTyped, NextArm
<1> QED BY <1>1, InitTyped, InitArm, PTL DEF Spec

-----------------------------------------------------------------------------
(* What is built.                                                          *)

\* What the task has built is still in currentEvent, unless another task put
\* an event of its own there.
Built == task.pc = "built" /\ cur.what = "none" => "shared" \in raced

LEMMA InitBuilt == Init => Built
  BY DEF Init, Built

LEMMA NextBuilt ==
  ASSUME AllWatched, Typed, Built, [Next]_vars
  PROVE  Built'
<1>0. task \in Task /\ NextModule.pc = "poll" BY DEF Typed, TypeOK, NextModule
<1>1. raced \subseteq raced' BY RacedGrows
<1>2. CASE OtherEvent
  <2>1. "shared" \in Races BY DEF Races
  <2>2. Race("shared", TRUE) = {"shared"} BY <2>1, Noted
  <2> QED BY <1>2, <2>2 DEF OtherEvent, Built
<1>3. Poll \/ Answer \/ Write \/ VisitNG \/ Mark \/ SetTrouble \/ Save \/ Boot
      => task'.pc # "built"
  <2>1. Poll \/ Write => task'.pc # "built" BY <1>0 DEF Poll, Write, Task
  <2>2. Silent \/ Garbled \/ Foreign \/ Status => task' = [task EXCEPT !.pc = "visit"]
    BY DEF Silent, Garbled, Foreign, Status
  <2>3. EventAnswer => task'.pc # "built" BY <1>0 DEF EventAnswer, Task
  <2>4. VisitNG \/ Mark \/ SetTrouble \/ Save
        => task' \in {NextModule, [task EXCEPT !.pc = "flag"], [task EXCEPT !.pc = "save"]}
    BY DEF VisitNG, Stays, Mark, SetTrouble, Save
  <2>5. Boot => task'.pc = "poll" BY DEF Boot
  <2> QED BY <1>0, <2>1, <2>2, <2>3, <2>4, <2>5 DEF Answer, Task
<1>4. ParsePtmCID_Event => cur'.what # "none" BY DEF ParsePtmCID_Event, Builds
<1>5. VisitIdle \/ VisitWait => task'.pc # "built" \/ cur'.what # "none"
  BY <1>0 DEF VisitIdle, VisitWait, Stays, Builds, Task
<1>6. CASE UNCHANGED <<task, cur>> BY <1>1, <1>6 DEF Built
<1>7. \/ Clear485 \/ Rotura485 \/ UNCHANGED vars
      \/ \E m \in Modules : ModuleEvent(m) \/ LineChanges(m) \/ RemPtmArm(m) \/ WaitOver(m)
      => UNCHANGED <<task, cur>>
  BY DEF Clear485, Rotura485, vars, ModuleEvent, LineChanges, RemPtmArm, WaitOver
<1> QED BY <1>2, <1>3, <1>4, <1>5, <1>6, <1>7 DEF Next, Lan485, Visit, Built

-----------------------------------------------------------------------------
(* The events.                                                             *)

LEMMA InitEvents == Init => EventKept
  BY DEF Init, EventKept

LEMMA NextEvents ==
  ASSUME ConstantsAssumption, AllWatched, Typed, Built, EventKept, [Next]_vars
  PROVE  EventKept'
<1> DEFINE Lost == raced \cap {"crash", "shared"} # {}
           Kept(m, k) == k \in logged[m] \/ (task.at = m /\ task.n = k) \/ Lost
<1>0. /\ task \in Task /\ task.at \in Modules /\ task.n \in Nat
      /\ \A m \in Modules : box[m].done \in Nat
      /\ logged \in [Modules -> SUBSET (1..MaxEvents)]
      /\ box \in [Modules -> [made : 0..MaxEvents, done : 0..MaxEvents]]
  BY ConstantTypes DEF Typed, TypeOK, Task
<1>1. raced \subseteq raced' /\ (Lost => Lost') BY RacedGrows
<1>2. \A m \in Modules : \A k \in 1..box[m].done : Kept(m, k) BY DEF EventKept
<1>3. CASE /\ \A m \in Modules : box'[m].done = box[m].done /\ logged'[m] = logged[m]
           /\ (task'.at = task.at /\ task'.n = task.n) \/ task.n = 0
  BY <1>0, <1>1, <1>2, <1>3 DEF EventKept
<1>4. CASE EventAnswer
  <2>1. task.n = 0 BY <1>4 DEF EventAnswer, Does, Typed, Located
  <2>2. /\ task'.at = task.at /\ task'.n = box[task.at].done + 1 /\ logged' = logged
    BY <1>0, <1>4 DEF EventAnswer, Task
  <2>3. \A m \in Modules : m # task.at => box'[m].done = box[m].done
    BY <1>0, <1>4 DEF EventAnswer, SendPtmACK
  <2>4. box'[task.at].done \in {box[task.at].done, box[task.at].done + 1}
    BY <1>0, <1>4 DEF EventAnswer, SendPtmACK
  <2>5. ASSUME NEW m \in Modules, NEW k \in 1..box'[m].done PROVE Kept(m, k)'
    <3>1. CASE m = task.at /\ k = box[task.at].done + 1 BY <2>2, <3>1
    <3>2. CASE k \in 1..box[m].done BY <1>1, <1>2, <2>1, <2>2, <3>2
    <3>3. (m = task.at /\ k = box[task.at].done + 1) \/ k \in 1..box[m].done
      <4>1. CASE m # task.at BY <2>3, <2>5, <4>1
      <4>2. CASE m = task.at
        <5>1. box[m].done \in Nat /\ box'[m].done \in {box[m].done, box[m].done + 1}
              /\ k \in 1..box'[m].done
          BY <1>0, <2>4, <2>5, <4>2
        <5>2. k = box[m].done + 1 \/ k \in 1..box[m].done BY ONLY <5>1
        <5> QED BY <4>2, <5>2
      <4> QED BY <4>1, <4>2
    <3> QED BY <3>1, <3>2, <3>3
  <2> QED BY <2>5 DEF EventKept
<1>5. CASE Write
  <2>1. /\ task.pc = "built" /\ task'.at = task.at /\ box' = box
    BY <1>0, <1>5 DEF Write, Does, external, Task
  <2>2. \A m \in Modules : logged[m] \subseteq logged'[m]
    <3>1. \/ logged' = logged
          \/ logged' = [logged EXCEPT ![cur.m] = logged[cur.m] \cup {task.n}]
      BY <1>5 DEF Write
    <3> QED BY <1>0, <3>1
  <2>3. task.n # 0 => task.n \in logged'[task.at] \/ Lost
    <3>1. SUFFICES ASSUME task.n # 0, cur.what # "none"
                   PROVE  task.n \in logged'[task.at]
      BY <2>1 DEF Built
    <3>2. cur.what = "event" /\ cur.m = task.at BY <3>1 DEF Typed, Located
    <3>3. logged' = [logged EXCEPT ![task.at] = logged[task.at] \cup {task.n}]
      BY <1>5, <3>2 DEF Write
    <3> QED BY <1>0, <3>3
  <2>4. ASSUME NEW m \in Modules, NEW k \in 1..box[m].done PROVE Kept(m, k)'
    <3>1. Kept(m, k) /\ k # 0 BY <1>2, <2>4
    <3> QED BY <1>1, <2>2, <2>3, <3>1
  <2> QED BY <2>1, <2>4 DEF EventKept
<1>6. CASE Boot
  <2>1. task.n # 0 => Lost'
    <3>1. "crash" \in Races BY DEF Races
    <3>2. task.n # 0 => Race("crash", task.n # 0) = {"crash"} BY <3>1, Noted
    <3> QED BY <1>6, <3>2 DEF Boot
  <2>2. box' = box /\ logged' = logged BY <1>6 DEF Boot, external
  <2> QED BY <1>3, <2>1, <2>2 DEF EventKept
<1>7. Poll \/ Silent \/ Garbled \/ Foreign \/ Status \/ ParsePtmCID_Event
      => task'.at = task.at /\ task'.n = task.n /\ UNCHANGED <<box, logged>>
  BY <1>0 DEF Poll, Silent, Garbled, Foreign, Status, ParsePtmCID_Event, external, Task
<1>8. Visit \/ Mark \/ SetTrouble \/ Save => task.n = 0 /\ UNCHANGED <<box, logged>>
  BY DEF Visit, VisitIdle, VisitNG, VisitWait, Mark, SetTrouble, Save, Does, external, Typed,
     Located
<1>9. \/ Clear485 \/ OtherEvent \/ Rotura485 \/ UNCHANGED vars
      \/ \E m \in Modules : LineChanges(m) \/ RemPtmArm(m) \/ WaitOver(m)
      => UNCHANGED <<task, box, logged>>
  BY DEF Clear485, OtherEvent, Rotura485, vars, external, LineChanges, RemPtmArm, WaitOver
<1>10. ASSUME NEW m \in Modules, ModuleEvent(m)
       PROVE  /\ \A k \in Modules : box'[k].done = box[k].done
              /\ UNCHANGED <<task, logged>>
  BY <1>0, <1>10 DEF ModuleEvent
<1> QED
  BY <1>3, <1>4, <1>5, <1>6, <1>7, <1>8, <1>9, <1>10 DEF Next, Lan485, Answer

(***************************************************************************)
(* An event its module has forgotten is in the log or in the task's hands: *)
(* only a restart after the acknowledgement, or another task's event in    *)
(* the record they share, loses it.                                        *)
(***************************************************************************)
THEOREM EventKeptCorrect ==
  ASSUME ConstantsAssumption, AllWatched
  PROVE  Spec => []EventKept
<1> DEFINE Inv == Typed /\ Built /\ EventKept
<1>1. ConstantsAssumption /\ Init => Inv BY InitTyped, InitBuilt, InitEvents
<1>2. Inv /\ [Next]_vars => Inv' BY NextTyped, NextBuilt, NextEvents
<1> QED BY <1>1, <1>2, PTL DEF Spec

-----------------------------------------------------------------------------
(* The reports.                                                            *)

\* While its report is out and its state does not follow yet, the log is ahead
\* of the module.
Ahead ==
  task.pc = "mark" =>
    (task.at \in open) = (task.what = "E") \/ raced \cap {"forgot", "again", "shared"} # {}

LEMMA InitReports == Init => ReportedAsStands /\ Ahead
  BY DEF Init, ReportedAsStands, Ahead

LEMMA NextReports ==
  ASSUME ConstantsAssumption, AllWatched, Typed, Built, ReportedAsStands, Ahead, [Next]_vars
  PROVE  ReportedAsStands' /\ Ahead'
<1> DEFINE Misled == raced \cap {"forgot", "again", "shared"} # {}
           Stands(m) == m \in open <=> mod[m].st # "IDLE"
<1>0. /\ task \in Task /\ mod \in [Modules -> Dcb] /\ task.at \in Modules
      /\ open \subseteq Modules /\ hist \subseteq Modules
      /\ NextModule.pc = "poll"
  BY DEF Typed, TypeOK, Task, NextModule
<1>1. SUFFICES ASSUME ~Misled'
               PROVE  /\ \A m \in Modules : (task'.at = m /\ task'.pc = "mark") \/ Stands(m)'
                      /\ task'.pc = "mark" => (task'.at \in open' <=> task'.what = "E")
  BY DEF ReportedAsStands, Ahead
<1>2. ~Misled /\ "shared" \notin raced BY <1>1, RacedGrows
<1>3. /\ \A m \in Modules : (task.at = m /\ task.pc = "mark") \/ Stands(m)
      /\ task.pc = "mark" => (task.at \in open <=> task.what = "E")
  BY <1>2 DEF ReportedAsStands, Ahead
<1>4. CASE /\ task' = task \/ (task.pc # "mark" /\ task'.pc # "mark")
           /\ open' = open /\ \A m \in Modules : (mod'[m].st # "IDLE") = (mod[m].st # "IDLE")
  BY <1>3, <1>4
<1>5. CASE Write
  <2>1. /\ task.pc = "built" /\ task'.at = task.at /\ task'.what = task.what /\ mod' = mod
        /\ task'.pc = IF task.what = "event" THEN "visit" ELSE "mark"
    BY <1>0, <1>5 DEF Write, Does, Task
  <2>2. cur.what = task.what /\ cur.m = task.at /\ task.what \in {"event", "E", "R"}
    BY <1>0, <1>2, <2>1 DEF Built, Typed, Located, Task
  <2>3. CASE task.what = "event"
    <3>1. open' = open BY <1>5, <2>2, <2>3 DEF Write
    <3> QED BY <1>3, <2>1, <2>3, <3>1
  <2>4. CASE task.what = "E"
    <3>1. open' = open \cup {task.at} BY <1>5, <2>2, <2>4 DEF Write
    <3> QED BY <1>3, <2>1, <2>4, <3>1
  <2>5. CASE task.what = "R"
    <3>1. open' = open \ {task.at} BY <1>5, <2>2, <2>5 DEF Write
    <3> QED BY <1>3, <2>1, <2>5, <3>1
  <2> QED BY <2>2, <2>3, <2>4, <2>5
<1>6. CASE Mark
  <2>1. task.pc = "mark" /\ task.what \in {"E", "R"} /\ open' = open /\ task'.pc # "mark"
    BY <1>0, <1>6 DEF Mark, Does, Typed, Located, Task
  <2>2. /\ \A m \in Modules : m # task.at => mod'[m] = mod[m]
        /\ mod'[task.at].st = NewState(task.what)
    BY <1>0, <1>6 DEF Mark, Dcb
  <2>3. (mod'[task.at].st # "IDLE") = (task.what = "E") BY <2>1, <2>2 DEF NewState
  <2> QED BY <1>3, <2>1, <2>2, <2>3
<1>7. CASE VisitNG \/ VisitWait
  <2>1. task.pc = "visit" /\ task'.pc # "mark" /\ open' = open
    BY <1>0, <1>7 DEF VisitNG, VisitWait, Stays, Does, Task
  <2>2. \/ mod' = mod
        \/ mod' = [mod EXCEPT ![task.at].trouble = @ /\ task.at \in Special]
        \/ \E st \in {"WAIT", "NG"} :
             mod' = [mod EXCEPT ![task.at].st = st, ![task.at].over = FALSE]
    BY <1>7 DEF VisitNG, VisitWait, Stays
  <2>3. mod[task.at].st # "IDLE" BY <1>7 DEF VisitNG, VisitWait, At
  <2>4. \A m \in Modules : (mod'[m].st # "IDLE") = (mod[m].st # "IDLE")
    BY <1>0, <2>2, <2>3 DEF Dcb
  <2> QED BY <1>4, <2>1, <2>4
<1>8. CASE Boot
  <2>1. /\ task'.pc = "poll" /\ open' = open
        /\ \A m \in Modules : (mod'[m].st # "IDLE") = (m \in hist)
    BY <1>8 DEF Boot
  <2>2. /\ Race("forgot", open \ hist # {}) \subseteq raced'
        /\ Race("again", hist \ open # {}) \subseteq raced'
    BY <1>8 DEF Boot
  <2>3. {"forgot", "again"} \subseteq Races BY DEF Races
  <2>4. /\ open \ hist # {} => Race("forgot", open \ hist # {}) = {"forgot"}
        /\ hist \ open # {} => Race("again", hist \ open # {}) = {"again"}
    BY <2>3, Noted
  <2>5. open = hist BY <1>1, <2>2, <2>4
  <2> QED BY <2>1, <2>5
<1>9. Poll \/ Answer \/ ParsePtmCID_Event \/ VisitIdle \/ SetTrouble \/ Save
      => task.pc # "mark" /\ task'.pc # "mark" /\ open' = open
  BY <1>0 DEF Poll, Answer, Silent, Garbled, Foreign, Status, EventAnswer, ParsePtmCID_Event,
     VisitIdle, Stays, SetTrouble, Save, Does, Task
<1>10. \/ Clear485 \/ OtherEvent \/ Rotura485 \/ UNCHANGED vars
       \/ \E m \in Modules : ModuleEvent(m) \/ LineChanges(m) \/ RemPtmArm(m) \/ WaitOver(m)
       => task' = task /\ open' = open
  BY DEF Clear485, OtherEvent, Rotura485, vars, ModuleEvent, LineChanges, RemPtmArm, WaitOver
<1>11. Write \/ Mark \/ VisitNG \/ VisitWait \/ Boot
       \/ \A m \in Modules : mod'[m].st = mod[m].st
  <2>1. SetTrouble => \A m \in Modules : mod'[m].st = mod[m].st BY <1>0 DEF SetTrouble, Dcb
  <2> QED BY <2>1, StateSteps
<1> QED
  BY <1>4, <1>5, <1>6, <1>7, <1>8, <1>9, <1>10, <1>11 DEF Next, Lan485, Visit

(***************************************************************************)
(* A module is not idle exactly as long as its silence is reported and not *)
(* yet its return: no report is sent twice and none is left out, whatever  *)
(* the line does.  Only a restart with a module in its wait or whose state *)
(* was not saved, or an event another task replaced, breaks it.            *)
(***************************************************************************)
THEOREM ReportedAsStandsCorrect ==
  ASSUME ConstantsAssumption, AllWatched
  PROVE  Spec => []ReportedAsStands
<1> DEFINE Inv == Typed /\ Built /\ ReportedAsStands /\ Ahead
<1>1. ConstantsAssumption /\ Init => Inv BY InitTyped, InitBuilt, InitReports
<1>2. Inv /\ [Next]_vars => Inv' BY NextTyped, NextBuilt, NextReports
<1> QED BY <1>1, <1>2, PTL DEF Spec

-----------------------------------------------------------------------------
(* The answers.                                                            *)

\* A module given up has not answered since: its count is not zero.  A report
\* of silence goes out for a module that is not in its wait, and what has been
\* marked is not in it either.
GivenUp ==
  /\ task.what = "E" /\ task.pc \in {"built", "mark"} => At.err >= Limit
  /\ task.pc \in {"flag", "save"} => At.st # "WAIT"
  /\ \A m \in Modules :
       mod[m].st = "NG" /\ mod[m].err = 0 => m \in good \/ "wrap" \in raced

\* A module in its wait answers, until the visit that finds it silent again.
Waiting ==
  \A m \in Modules :
    mod[m].st = "WAIT" =>
      \/ mod[m].err < Limit
      \/ task.at = m /\ task.pc = "visit" /\ mod[m].err = Limit
      \/ task.at = m /\ task.what = "R"
      \/ "clear" \in raced

AnsweredInv == RecoveredAnswered /\ GivenUp /\ Waiting

LEMMA InitAnswered == ConstantsAssumption /\ Init => AnsweredInv
<1> SUFFICES ASSUME ConstantsAssumption, Init PROVE AnsweredInv OBVIOUS
<1>1. /\ \A m \in Modules : mod[m].st = "IDLE"
      /\ task.what = "none" /\ task.pc = "poll"
  BY DEF Init
<1> QED BY <1>1 DEF AnsweredInv, RecoveredAnswered, GivenUp, Waiting

\* What every step of an answer does to the counts.
LEMMA AnswerSteps ==
  ASSUME ConstantsAssumption, AllWatched, Typed, Answer
  PROVE  /\ task.pc = "answer" /\ task.what = "none"
         /\ task'.at = task.at /\ task'.what \in {"none", "event"}
         /\ task'.pc = "visit" \/ (task'.pc = "event" /\ mod'[task.at].err = 0)
         /\ \A m \in Modules :
              /\ mod'[m].st = mod[m].st
              /\ m # task.at => mod'[m].err = mod[m].err
         /\ mod'[task.at].err \in 0..(mod[task.at].err + 1)
         /\ good \subseteq good' /\ raced \subseteq raced'
         /\ mod'[task.at].err = 0 =>
              mod[task.at].err = 0 \/ task.at \in good' \/ "wrap" \in raced'
<1>0. /\ task \in Task /\ mod \in [Modules -> Dcb] /\ task.at \in Modules /\ ErrSize \in Nat
      /\ mod[task.at].err \in 0..(ErrSize - 1) /\ good \subseteq Modules
  BY ConstantTypes DEF Typed, TypeOK, Task, Dcb
<1>1. task.pc = "answer" BY DEF Answer, Silent, Garbled, Foreign, Status, EventAnswer, Does
<1>2. task.what = "none" BY <1>1 DEF Typed, Located
<1>3. CASE Silent
  <2>1. task' = [task EXCEPT !.pc = "visit"] /\ good' = good /\ raced' = raced
    BY <1>3 DEF Silent, history
  <2>2. \/ Missed(mod[task.at].err) \in 1..(mod[task.at].err + 1)
        \/ Missed(mod[task.at].err) = mod[task.at].err
    BY <1>0 DEF Missed
  <2>3. /\ \A m \in Modules : mod'[m].st = mod[m].st /\ (m # task.at => mod'[m].err = mod[m].err)
        /\ mod'[task.at].err = Missed(mod[task.at].err)
    BY <1>0, <1>3 DEF Silent, Dcb
  <2> QED BY <1>0, <1>1, <1>2, <2>1, <2>2, <2>3 DEF Task
<1>4. CASE Garbled
  <2> DEFINE err == (mod[task.at].err + 1) % ErrSize
  <2>1. /\ task' = [task EXCEPT !.pc = "visit"] /\ good' = good
        /\ raced' = raced \cup Race("wrap", mod[task.at].err = ErrSize - 1)
        /\ mod' = [mod EXCEPT ![task.at].err = err]
    BY <1>4 DEF Garbled, At
  <2>2. err = IF mod[task.at].err = ErrSize - 1 THEN 0 ELSE mod[task.at].err + 1
    BY <1>0, CountTypes
  <2> HIDE DEF err
  <2>3. /\ \A m \in Modules : mod'[m].st = mod[m].st /\ (m # task.at => mod'[m].err = mod[m].err)
        /\ mod'[task.at].err = err
    BY <1>0, <2>1 DEF Dcb
  <2>4. mod[task.at].err = ErrSize - 1 => "wrap" \in raced'
    <3>1. "wrap" \in Races BY DEF Races
    <3>2. mod[task.at].err = ErrSize - 1 => Race("wrap", mod[task.at].err = ErrSize - 1) = {"wrap"}
      BY <3>1, Noted
    <3> QED BY <2>1, <3>2
  <2> QED BY <1>0, <1>1, <1>2, <2>1, <2>2, <2>3, <2>4 DEF Task
<1>5. CASE Foreign
  <2>1. /\ task' = [task EXCEPT !.pc = "visit"] /\ good' = good /\ raced \subseteq raced'
    BY <1>5 DEF Foreign
  <2>2. \A m \in Modules : mod'[m].st = mod[m].st /\ mod'[m].err = mod[m].err
    BY <1>0, <1>5 DEF Foreign, Dcb
  <2> QED BY <1>0, <1>1, <1>2, <2>1, <2>2 DEF Task
<1>6. CASE Status \/ EventAnswer
  <2>1. Heard BY <1>6 DEF Status, EventAnswer
  <2>2. good' = good \cup {task.at} /\ raced \subseteq raced' BY <2>1 DEF Heard
  <2>3. /\ \A m \in Modules : mod'[m].st = mod[m].st /\ (m # task.at => mod'[m].err = mod[m].err)
        /\ mod'[task.at].err = 0
    BY <1>0, <2>1 DEF Heard, Dcb
  <2>4. \/ task' = [task EXCEPT !.pc = "visit"]
        \/ task' = [task EXCEPT !.pc = "event", !.what = "event", !.n = box[task.at].done + 1]
    BY <1>6 DEF Status, EventAnswer
  <2>5. task'.at = task.at /\ task'.what \in {"none", "event"} /\ task'.pc \in {"visit", "event"}
    BY <1>0, <1>2, <2>4 DEF Task
  <2> QED BY <1>0, <1>1, <1>2, <2>2, <2>3, <2>5
<1> QED BY <1>3, <1>4, <1>5, <1>6 DEF Answer

LEMMA NextAnswered ==
  ASSUME ConstantsAssumption, AllWatched, Typed, AnsweredInv, [Next]_vars
  PROVE  AnsweredInv'
<1> DEFINE Same == \A m \in Modules : mod'[m].st = mod[m].st /\ mod'[m].err = mod[m].err
<1>0. /\ task \in Task /\ mod \in [Modules -> Dcb] /\ task.at \in Modules
      /\ good \subseteq Modules /\ hist \subseteq Modules /\ Limit \in Nat /\ Limit >= 1
      /\ ErrSize \in Nat /\ Limit + 3 < ErrSize
      /\ \A m \in Modules : mod[m].err \in Nat
      /\ NextModule.pc = "poll" /\ NextModule.what = "none"
  BY ConstantTypes DEF Typed, TypeOK, Task, Dcb, NextModule
<1>1. raced \subseteq raced' BY RacedGrows
<1>2. /\ RecoveredAnswered /\ GivenUp /\ Waiting BY DEF AnsweredInv
<1>3. CASE Answer
  <2> USE AnswerSteps, <1>3
  <2>1. RecoveredAnswered' BY <1>0, <1>2 DEF RecoveredAnswered, At
  <2>2. GivenUp' BY <1>0, <1>2 DEF GivenUp, At
  <2>3. Waiting'
    <3>1. \A m \in Modules : mod[m].st = "WAIT" => mod[m].err < Limit \/ "clear" \in raced
      BY <1>2 DEF Waiting
    <3> QED BY <1>0, <3>1 DEF Waiting
  <2> QED BY <2>1, <2>2, <2>3 DEF AnsweredInv
\* The task goes on with the same module, whose count it leaves alone.
<1>4. ASSUME Same, good' = good,
             \/ task' = task
             \/ /\ task'.at = task.at /\ task'.what = task.what
                /\ task'.pc = "mark" => task.pc = "built"
                /\ task'.pc \notin {"built", "flag", "save"} /\ task.pc # "visit"
             \/ /\ task'.at = task.at /\ task.what \in {"none", "event"} /\ task.pc # "visit"
                /\ task'.what \in {"none", "event"} /\ task'.pc \notin {"flag", "save"}
      PROVE  AnsweredInv'
  <2>1. RecoveredAnswered' BY <1>0, <1>1, <1>2, <1>4 DEF RecoveredAnswered, At
  <2>2. GivenUp' BY <1>0, <1>1, <1>2, <1>4 DEF GivenUp, At
  <2>3. Waiting' BY <1>0, <1>1, <1>2, <1>4 DEF Waiting
  <2> QED BY <2>1, <2>2, <2>3 DEF AnsweredInv
\* It goes on to the next, and has left none in its wait that is silent.
<1>5. ASSUME Same, good' = good, task' = NextModule,
             mod[task.at].st = "WAIT" => mod[task.at].err < Limit
      PROVE  AnsweredInv'
  <2>1. RecoveredAnswered' BY <1>0, <1>1, <1>2, <1>5 DEF RecoveredAnswered
  <2>2. GivenUp' BY <1>0, <1>1, <1>2, <1>5 DEF GivenUp
  <2>3. Waiting' BY <1>0, <1>1, <1>2, <1>5 DEF Waiting
  <2> QED BY <2>1, <2>2, <2>3 DEF AnsweredInv
<1>6. CASE VisitIdle
  <2>1. mod' = mod /\ good' = good /\ mod[task.at].st = "IDLE"
    BY <1>6 DEF VisitIdle, Stays, history, At
  <2>2. CASE task' = NextModule BY <1>5, <2>1, <2>2
  <2>3. CASE mod[task.at].err >= Limit /\ task' = [task EXCEPT !.pc = "built", !.what = "E"]
    <3>1. task'.at = task.at /\ task'.pc = "built" /\ task'.what = "E" BY <1>0, <2>3 DEF Task
    <3>2. RecoveredAnswered' BY <1>1, <1>2, <2>1, <3>1 DEF RecoveredAnswered
    <3>3. GivenUp' BY <1>1, <1>2, <2>1, <2>3, <3>1 DEF GivenUp, At
    <3>4. Waiting' BY <1>1, <1>2, <2>1, <3>1 DEF Waiting
    <3> QED BY <3>2, <3>3, <3>4 DEF AnsweredInv
  <2> QED BY <1>6, <2>2, <2>3 DEF VisitIdle, Stays, At
<1>7. CASE VisitNG
  <2>1. task.pc = "visit" /\ task' = NextModule /\ good' = good /\ mod[task.at].st = "NG"
    BY <1>7 DEF VisitNG, Stays, Does, At
  <2>2. CASE mod' = mod BY <1>5, <2>1, <2>2
  <2>3. CASE mod' = [mod EXCEPT ![task.at].st = "WAIT", ![task.at].over = FALSE]
             /\ raced' = raced \cup Race("clear", ~IsBack(mod[task.at].err))
    <3>1. /\ \A m \in Modules : m # task.at => mod'[m] = mod[m]
          /\ mod'[task.at].st = "WAIT" /\ mod'[task.at].err = mod[task.at].err
      BY <1>0, <2>3 DEF Dcb
    <3>2. mod[task.at].err = 0 \/ "clear" \in raced'
      <4>1. "clear" \in Races /\ (~IsBack(mod[task.at].err)) \in BOOLEAN BY DEF Races, IsBack
      <4>2. ~IsBack(mod[task.at].err) => Race("clear", ~IsBack(mod[task.at].err)) = {"clear"}
        BY <4>1, Noted
      <4> QED BY <2>3, <4>2 DEF IsBack
    <3>3. RecoveredAnswered'
      BY <1>0, <1>1, <1>2, <2>1, <3>1, <3>2 DEF RecoveredAnswered, GivenUp
    <3>4. GivenUp' BY <1>0, <1>1, <1>2, <2>1, <3>1 DEF GivenUp
    <3>5. Waiting' BY <1>0, <1>1, <1>2, <2>1, <3>1, <3>2 DEF Waiting
    <3> QED BY <3>3, <3>4, <3>5 DEF AnsweredInv
  <2> QED BY <1>7, <2>2, <2>3 DEF VisitNG, Stays, At
<1>8. CASE VisitWait
  <2>0. mod[task.at].st = "WAIT" /\ task.pc = "visit" BY <1>8 DEF VisitWait, Does, At
  <2>1. CASE At.over \/ clear
    <3>1. /\ task' = [task EXCEPT !.pc = "built", !.what = "R"] /\ good' = good
          /\ mod' = [mod EXCEPT ![task.at].trouble = @ /\ task.at \in Special]
          /\ raced' = raced \cup Race("edge", At.err = Limit) \cup Race("clear", clear)
      BY <1>8, <2>1 DEF VisitWait
    <3>0. Same BY <1>0, <3>1 DEF Dcb
    <3>2. task'.at = task.at /\ task'.pc = "built" /\ task'.what = "R" BY <1>0, <3>1 DEF Task
    <3>3. At.err = Limit => "edge" \in raced'
      <4>1. "edge" \in Races BY DEF Races
      <4>2. At.err = Limit => Race("edge", At.err = Limit) = {"edge"} BY <4>1, Noted
      <4> QED BY <3>1, <4>2
    <3>4. At.err < Limit \/ raced' \cap {"edge", "clear"} # {}
      BY <1>0, <1>1, <1>2, <2>0, <3>3 DEF Waiting, RecoveredAnswered, At
    <3>5. RecoveredAnswered'
      BY <1>0, <1>1, <1>2, <3>0, <3>1, <3>2, <3>4 DEF RecoveredAnswered, At
    <3>6. GivenUp' BY <1>1, <1>2, <3>0, <3>1, <3>2 DEF GivenUp, At
    <3>7. Waiting' BY <1>1, <1>2, <2>0, <3>0, <3>1, <3>2 DEF Waiting
    <3> QED BY <3>5, <3>6, <3>7 DEF AnsweredInv
  <2>2. CASE ~(At.over \/ clear) /\ Relapses(At.err)
    <3>1. /\ mod' = [mod EXCEPT ![task.at].st = "NG", ![task.at].over = FALSE]
          /\ task' \in {NextModule, [task EXCEPT !.pc = "flag"]}
          /\ good' = good \ {task.at} /\ raced' = raced
      BY <1>8, <2>2 DEF VisitWait
    <3>2. /\ \A m \in Modules : m # task.at => mod'[m] = mod[m]
          /\ mod'[task.at].st = "NG" /\ mod'[task.at].err = mod[task.at].err
      BY <1>0, <3>1 DEF Dcb
    <3>3. mod[task.at].err >= Limit BY <2>2 DEF Relapses, At
    <3>4. \/ task'.pc = "poll" /\ task'.what = "none"
          \/ task'.pc = "flag" /\ task'.at = task.at /\ task'.what = task.what
      BY <1>0, <3>1 DEF Task
    <3>5. RecoveredAnswered' BY <1>0, <1>2, <3>1, <3>2, <3>4 DEF RecoveredAnswered, At
    <3>6. GivenUp' BY <1>0, <1>2, <3>1, <3>2, <3>3, <3>4, SMTT(30) DEF GivenUp, At
    <3>7. Waiting' BY <1>0, <1>2, <3>1, <3>2, <3>4 DEF Waiting
    <3> QED BY <3>5, <3>6, <3>7 DEF AnsweredInv
  <2>3. CASE ~(At.over \/ clear) /\ ~Relapses(At.err)
    <3>1. mod' = mod /\ task' = NextModule /\ good' = good BY <1>8, <2>3 DEF VisitWait, Stays
    <3>2. mod[task.at].err < Limit BY <1>0, <2>3 DEF Relapses, At
    <3> QED BY <1>5, <3>1, <3>2
  <2> QED BY <2>1, <2>2, <2>3
<1>9. CASE Mark
  <2>1. task.pc = "mark" /\ task.what \in {"E", "R"} /\ raced' = raced
    BY <1>9 DEF Mark, Does, Typed, Located
  <2>2. /\ \A m \in Modules : m # task.at => mod'[m] = mod[m]
        /\ mod'[task.at].st = NewState(task.what) /\ mod'[task.at].err = mod[task.at].err
    BY <1>0, <1>9 DEF Mark, Dcb
  <2>3. /\ good' = IF task.what = "E" THEN good \ {task.at} ELSE good
        /\ task' \in {NextModule, [task EXCEPT !.pc = "flag"], [task EXCEPT !.pc = "save"]}
    BY <1>9 DEF Mark
  <2>4. \/ task'.pc = "poll" /\ task'.what = "none"
        \/ task'.pc \in {"flag", "save"} /\ task'.at = task.at /\ task'.what = task.what
    BY <1>0, <2>3 DEF Task
  <2>5. mod'[task.at].st = IF task.what = "E" THEN "NG" ELSE "IDLE"
    BY <2>2 DEF NewState
  <2>6. RecoveredAnswered'
    BY <1>0, <1>2, <2>1, <2>2, <2>3, <2>4, <2>5 DEF RecoveredAnswered, At
  <2>7. GivenUp' BY <1>0, <1>2, <2>1, <2>2, <2>3, <2>4, <2>5 DEF GivenUp, At
  <2>8. Waiting' BY <1>0, <1>2, <2>1, <2>2, <2>4, <2>5 DEF Waiting
  <2> QED BY <2>6, <2>7, <2>8 DEF AnsweredInv
<1>10. CASE Save
  <2>1. task.pc = "save" /\ task' = NextModule /\ mod' = mod /\ good' = good
    BY <1>10 DEF Save, Does, history
  <2> QED BY <1>2, <1>5, <2>1 DEF GivenUp, At
<1>11. CASE Boot
  <2>1. /\ task'.pc = "poll" /\ task'.what = "none" /\ good' = good \ hist
        /\ \A m \in Modules : /\ mod'[m].st = IF m \in hist THEN "NG" ELSE "IDLE"
                              /\ mod'[m].err = IF m \in hist THEN ErrSize - 2 ELSE 0
    BY <1>11 DEF Boot, RestartCount
  <2>2. RecoveredAnswered' BY <2>1 DEF RecoveredAnswered
  <2>3. GivenUp' BY <1>0, <2>1 DEF GivenUp
  <2>4. Waiting' BY <2>1 DEF Waiting
  <2> QED BY <2>2, <2>3, <2>4 DEF AnsweredInv
<1>12. CASE Poll
  <2>1. /\ task.pc = "poll" /\ task' = [task EXCEPT !.pc = "answer", !.what = "none"]
        /\ mod' = mod /\ good' = good
    BY <1>12 DEF Poll, Does
  <2>2. task.what = "none" BY <2>1 DEF Typed, Located
  <2> QED BY <1>0, <1>4, <2>1, <2>2 DEF Task
<1>13. CASE ParsePtmCID_Event
  <2>1. /\ task.pc = "event" /\ task' = [task EXCEPT !.pc = "built"]
        /\ mod' = mod /\ good' = good
    BY <1>13 DEF ParsePtmCID_Event, Does, history
  <2>2. task.what = "event" BY <2>1 DEF Typed, Located
  <2> QED BY <1>0, <1>4, <2>1, <2>2 DEF Task
<1>14. CASE Write
  <2>1. /\ task.pc = "built" /\ mod' = mod /\ good' = good /\ task'.at = task.at
        /\ task'.what = task.what /\ task'.pc \in {"visit", "mark"}
    BY <1>0, <1>14 DEF Write, Does, history, Task
  <2> QED BY <1>4, <2>1
<1>15. CASE Clear485 \/ OtherEvent \/ Rotura485 \/ UNCHANGED vars
  <2>1. mod' = mod /\ task' = task /\ good' = good
    BY <1>15 DEF Clear485, OtherEvent, Rotura485, vars, history
  <2> QED BY <1>4, <2>1
<1>16. ASSUME NEW m \in Modules, ModuleEvent(m) \/ LineChanges(m) \/ RemPtmArm(m) \/ WaitOver(m)
       PROVE  AnsweredInv'
  <2>1. task' = task /\ good' = good
    BY <1>16 DEF ModuleEvent, LineChanges, RemPtmArm, WaitOver, history
  <2>2. \/ mod' = mod \/ mod' = [mod EXCEPT ![m].arm = TRUE]
        \/ mod' = [mod EXCEPT ![m].over = TRUE]
    BY <1>16 DEF ModuleEvent, LineChanges, RemPtmArm, WaitOver
  <2>3. Same BY <1>0, <2>2 DEF Dcb
  <2> QED BY <1>4, <2>1, <2>3
<1>17. CASE SetTrouble
  <2>1. /\ task.pc = "flag" /\ task'.at = task.at /\ task'.pc = "save"
        /\ task'.what = task.what /\ good' = good
    BY <1>0, <1>17 DEF SetTrouble, Does, history, Task
  <2>2. Same BY <1>0, <1>17 DEF SetTrouble, Dcb
  <2>3. RecoveredAnswered' BY <1>0, <1>1, <1>2, <2>1, <2>2 DEF RecoveredAnswered, At
  <2>4. GivenUp' BY <1>0, <1>1, <1>2, <2>1, <2>2 DEF GivenUp, At
  <2>5. Waiting' BY <1>0, <1>1, <1>2, <2>1, <2>2 DEF Waiting
  <2> QED BY <2>3, <2>4, <2>5 DEF AnsweredInv
<1> QED
  BY <1>3, <1>6, <1>7, <1>8, <1>9, <1>10, <1>11, <1>12, <1>13, <1>14, <1>15, <1>16, <1>17
  DEF Next, Lan485, Visit

(***************************************************************************)
(* A module is only taken for recovered after an answer of its own, and    *)
(* its return only reported while it answers: only a counter that garbled  *)
(* answers took round, the console, or a wait that ends in the very visit  *)
(* that finds it silent makes it otherwise.                                *)
(***************************************************************************)
THEOREM RecoveredAnsweredCorrect ==
  ASSUME ConstantsAssumption, AllWatched
  PROVE  Spec => []RecoveredAnswered
<1> DEFINE Inv == Typed /\ AnsweredInv
<1>1. ConstantsAssumption /\ Init => Inv BY InitTyped, InitAnswered
<1>2. Inv /\ [Next]_vars => Inv' BY NextTyped, NextAnswered
<1>3. Inv => RecoveredAnswered BY DEF AnsweredInv
<1> QED BY <1>1, <1>2, <1>3, PTL DEF Spec

-----------------------------------------------------------------------------
(* What the run checks, for every number of modules.                       *)

(***************************************************************************)
(* What is reported of a module, and what it is taken for, is what its     *)
(* answers and its silences say, through restarts, until one of the        *)
(* mishaps that the parts name.                                            *)
(***************************************************************************)
THEOREM ModulesReportedCorrect ==
  ASSUME ConstantsAssumption, AllWatched
  PROVE  Spec => []ModulesReported
<1>1. Spec => []ReportedAsStands BY ReportedAsStandsCorrect
<1>2. Spec => []TroubleStands BY TroubleStandsCorrect
<1>3. Spec => []RecoveredAnswered BY RecoveredAnsweredCorrect
<1>4. ReportedAsStands /\ TroubleStands /\ RecoveredAnswered => ModulesReported BY DEF ModulesReported
<1> QED BY <1>1, <1>2, <1>3, <1>4, PTL

(***************************************************************************)
(* An event a module sent, and a command it is to get, are kept until they *)
(* have gone where they belong, until one of the mishaps that the parts    *)
(* name.                                                                   *)
(***************************************************************************)
THEOREM ModulesServedCorrect ==
  ASSUME ConstantsAssumption, AllWatched
  PROVE  Spec => []ModulesServed
<1>1. Spec => []EventKept BY EventKeptCorrect
<1>2. Spec => []ArmKept BY ArmKeptCorrect
<1>3. EventKept /\ ArmKept => ModulesServed BY DEF ModulesServed
<1> QED BY <1>1, <1>2, <1>3, PTL

-----------------------------------------------------------------------------
(***************************************************************************)
(* The pages of the DataFlash.                                             *)
(***************************************************************************)

\* A task in the driver writes a page that exists.  The frame that is open is
\* that of a task in one, above which nobody is in the driver; until two frames
\* are mixed, a task in its second frame has it open on a chip that is ready.
Frames ==
  /\ \A t \in Tasks : pc[t] # "idle" => page[t] \in Pages
  /\ \A t \in Tasks : pc[t] = "idle" => page[t] = NoPage
  /\ cs # Nobody => pc[cs] \in {"load", "prog"} /\ CanRun(cs)
  /\ "mixed" \notin spoiled =>
       /\ \A t \in Tasks : pc[t] = "prog" => cs = t /\ chip = Ready
       /\ chip # Ready => chip.b = BufOf[chip.page]

Framed == FlashTypeOK /\ Frames

LEMMA FramedInit ==
  ASSUME DataFlashAssumption, FlashInit PROVE Framed
<1>1. /\ 0 \in Values /\ Junk \in Values /\ 0 \in 0 .. MaxWrites
  BY DEF DataFlashAssumption, Values, Junk
<1>2. buf \in [{1, 2} -> [page : Pages \cup {NoPage}, img : [Tasks -> Values]]]
  BY <1>1 DEF FlashInit
<1>3. FlashTypeOK
  BY <1>1, <1>2 DEF FlashInit, FlashTypeOK, Blank, Ready, Nobody
<1>4. Frames
  BY DEF FlashInit, Frames, Ready, Nobody
<1> QED BY <1>3, <1>4 DEF Framed

LEMMA CollideFramed ==
  ASSUME DataFlashAssumption, Framed, cs # Nobody, Collide
  PROVE  /\ cs' = Nobody /\ spoiled' = spoiled \cup {"mixed"}
         /\ chip' \in {Ready} \cup [op : {"load", "prog"}, page : Pages, b : {1, 2}]
         /\ buf' \in [{1, 2} -> [page : Pages \cup {NoPage}, img : [Tasks -> Values]]]
<1> DEFINE B == BufOf[page[cs]]
<1>1. cs \in Tasks /\ B \in {1, 2}
  BY DEF Framed, FlashTypeOK, Frames, DataFlashAssumption, Nobody
<1>2. cs' = Nobody /\ spoiled' = spoiled \cup {"mixed"}
  BY DEF Collide
<1>3. PICK p \in Pages :
        \/ /\ pc[cs] = "load"
           /\ chip' = IF chip = Ready THEN [op |-> "load", page |-> p, b |-> B] ELSE chip
           /\ UNCHANGED buf
        \/ /\ pc[cs] = "prog"
           /\ chip' = [op |-> "prog", page |-> p, b |-> B]
           /\ \E S \in SUBSET Tasks :
                buf' = [buf EXCEPT ![B].img = [u \in Tasks |-> IF u \in S THEN Junk ELSE @[u]]]
  BY DEF Collide
<1>4. CASE pc[cs] = "load"
  BY <1>1, <1>2, <1>3, <1>4 DEF Framed, FlashTypeOK
<1>5. CASE pc[cs] = "prog"
  <2>1. PICK S \in SUBSET Tasks :
          buf' = [buf EXCEPT ![B].img = [u \in Tasks |-> IF u \in S THEN Junk ELSE @[u]]]
    BY <1>3, <1>5
  <2> DEFINE I == [u \in Tasks |-> IF u \in S THEN Junk ELSE buf[B].img[u]]
  <2>2. Junk \in Values
    BY DEF DataFlashAssumption, Values, Junk
  <2>3. I \in [Tasks -> Values]
    BY <1>1, <2>2 DEF Framed, FlashTypeOK
  <2>4. buf' = [buf EXCEPT ![B].img = I]
    BY <2>1
  <2> HIDE DEF I, B
  <2>5. buf' \in [{1, 2} -> [page : Pages \cup {NoPage}, img : [Tasks -> Values]]]
    <3>1. buf \in [{1, 2} -> [page : Pages \cup {NoPage}, img : [Tasks -> Values]]]
      BY DEF Framed, FlashTypeOK
    <3> QED BY <1>1, <2>3, <2>4, <3>1
  <2>6. chip' \in [op : {"load", "prog"}, page : Pages, b : {1, 2}]
    BY <1>1, <1>3, <1>5
  <2> QED BY <1>2, <2>5, <2>6
<1> QED BY <1>1, <1>3, <1>4, <1>5

\* The type of the buffers after a program command.
LEMMA FilledTyped ==
  ASSUME DataFlashAssumption, Framed, NEW t \in Tasks, pc[t] # "idle"
  PROVE  /\ Filled(t) \in [{1, 2} -> [page : Pages \cup {NoPage}, img : [Tasks -> Values]]]
         /\ BufOf[page[t]] \in {1, 2}
         /\ \A b \in {1, 2} : Filled(t)[b].page = buf[b].page
         /\ Filled(t)[BufOf[page[t]]].img = [buf[BufOf[page[t]]].img EXCEPT ![t] = n[t]]
         /\ \A b \in {1, 2} : b # BufOf[page[t]] => Filled(t)[b] = buf[b]
<1> DEFINE B == BufOf[page[t]]
<1>1. B \in {1, 2}
  BY DEF Framed, Frames, DataFlashAssumption
<1>2. n[t] \in Values
  BY DEF Framed, FlashTypeOK, Values, Junk, DataFlashAssumption
<1>3. buf[B].img \in [Tasks -> Values] /\ buf[B].page \in Pages \cup {NoPage}
  BY <1>1 DEF Framed, FlashTypeOK
<1>4. Filled(t) = [buf EXCEPT ![B].img[t] = n[t]]
  BY DEF Filled
<1> HIDE DEF B
<1> DEFINE I == [buf[B].img EXCEPT ![t] = n[t]]
<1>5. I \in [Tasks -> Values]
  BY <1>2, <1>3
<1>6. Filled(t) = [buf EXCEPT ![B].img = I]
  BY <1>4
<1> HIDE DEF I
<1>9. buf \in [{1, 2} -> [page : Pages \cup {NoPage}, img : [Tasks -> Values]]]
  BY DEF Framed, FlashTypeOK
<1>7. Filled(t) \in [{1, 2} -> [page : Pages \cup {NoPage}, img : [Tasks -> Values]]]
  BY <1>1, <1>5, <1>6, <1>9
<1>8. Filled(t)[B].img = I /\ (\A b \in {1, 2} : Filled(t)[b].page = buf[b].page)
      /\ (\A b \in {1, 2} : b # B => Filled(t)[b] = buf[b])
  BY <1>1, <1>6, <1>9
<1> QED BY <1>1, <1>7, <1>8 DEF B, I

LEMMA FramedNext ==
  ASSUME DataFlashAssumption, Framed, [FlashNext]_flashVars PROVE Framed'
<1> USE DEF Framed
<1>1. CASE ChipLoads
  <2>1. chip.page \in Pages /\ chip.b \in {1, 2}
    BY <1>1 DEF ChipLoads, FlashTypeOK, Ready
  <2>2. mem[chip.page] \in [Tasks -> Values]
    BY <2>1 DEF FlashTypeOK
  <2>3. buf' \in [{1, 2} -> [page : Pages \cup {NoPage}, img : [Tasks -> Values]]]
    BY <1>1, <2>1, <2>2 DEF ChipLoads, FlashTypeOK
  <2>4. FlashTypeOK'
    BY <1>1, <2>3 DEF ChipLoads, FlashTypeOK
  <2>5. Frames'
    BY <1>1 DEF ChipLoads, Frames, CanRun
  <2> QED BY <2>4, <2>5
<1>2. CASE ChipPrograms
  <2>1. chip.page \in Pages /\ chip.b \in {1, 2}
    BY <1>2 DEF ChipPrograms, FlashTypeOK, Ready
  <2>2. buf[chip.b].img \in [Tasks -> Values]
    BY <2>1 DEF FlashTypeOK
  <2>4. FlashTypeOK'
    BY <1>2, <2>1, <2>2 DEF ChipPrograms, FlashTypeOK
  <2>5. Frames'
    BY <1>2 DEF ChipPrograms, Frames, CanRun
  <2> QED BY <2>4, <2>5
<1>3. ASSUME NEW t \in Tasks, NEW p \in Pages, BeginWrite(t, p) PROVE Framed'
  <2>1. /\ pc[t] = "idle" /\ CanRun(t) /\ n[t] < MaxWrites
        /\ pc' = [pc EXCEPT ![t] = "load"] /\ page' = [page EXCEPT ![t] = p]
        /\ n' = [n EXCEPT ![t] = @ + 1] /\ UNCHANGED <<mem, last>>
    BY <1>3 DEF BeginWrite
  <2>2. /\ pc' \in [Tasks -> {"idle", "load", "wait1", "prog", "wait2"}]
        /\ page' \in [Tasks -> Pages \cup {NoPage}]
    BY <2>1 DEF FlashTypeOK
  <2>3. n' \in [Tasks -> 0 .. MaxWrites]
    <3>1. n[t] + 1 \in 0 .. MaxWrites
      BY <2>1 DEF FlashTypeOK, DataFlashAssumption
    <3> QED BY <2>1, <3>1 DEF FlashTypeOK
  <2>4. /\ \A u \in Tasks : pc'[u] # "idle" => page'[u] \in Pages
        /\ \A u \in Tasks : pc'[u] = "idle" => page'[u] = NoPage
        /\ pc'[t] = "load" /\ \A u \in Tasks \ {t} : pc'[u] = pc[u]
    BY <2>1 DEF FlashTypeOK, Frames
  <2>5. CASE cs = Nobody /\ UNCHANGED <<chip, buf, spoiled>> /\ cs' \in {t, Nobody}
    <3>1. FlashTypeOK'
      BY <2>1, <2>2, <2>3, <2>5 DEF FlashTypeOK
    <3>2. CanRun(t)'
      BY <2>1, <2>4 DEF CanRun, DataFlashAssumption
    <3>3. "mixed" \notin spoiled' => \A u \in Tasks : pc'[u] # "prog"
      BY <2>4, <2>5 DEF Frames, Nobody, DataFlashAssumption
    <3>4. Frames'
      BY <2>4, <2>5, <3>2, <3>3 DEF Frames
    <3> QED BY <3>1, <3>4
  <2>6. CASE cs # Nobody /\ Collide
    <3>1. /\ cs' = Nobody /\ spoiled' = spoiled \cup {"mixed"}
          /\ chip' \in {Ready} \cup [op : {"load", "prog"}, page : Pages, b : {1, 2}]
          /\ buf' \in [{1, 2} -> [page : Pages \cup {NoPage}, img : [Tasks -> Values]]]
      BY <2>6, CollideFramed
    <3> QED BY <2>1, <2>2, <2>3, <2>4, <3>1 DEF FlashTypeOK, Frames
  <2> QED BY <1>3, <2>5, <2>6 DEF BeginWrite
<1>4. ASSUME NEW t \in Tasks, EndLoad(t) PROVE Framed'
  <2>1. /\ pc[t] = "load" /\ CanRun(t) /\ pc' = [pc EXCEPT ![t] = "wait1"] /\ cs' = Nobody
        /\ UNCHANGED <<mem, buf, page, n, last, spoiled>>
    BY <1>4 DEF EndLoad
  <2>2. /\ pc' \in [Tasks -> {"idle", "load", "wait1", "prog", "wait2"}]
        /\ pc'[t] = "wait1" /\ \A u \in Tasks \ {t} : pc'[u] = pc[u]
    BY <2>1 DEF FlashTypeOK
  <2>3. page[t] \in Pages /\ BufOf[page[t]] \in {1, 2}
    BY <2>1 DEF Frames, DataFlashAssumption
  <2>4. \/ chip' = chip
        \/ chip = Ready /\ chip' = [op |-> "load", page |-> page[t], b |-> BufOf[page[t]]]
    BY <1>4 DEF EndLoad
  <2>5. FlashTypeOK'
    BY <2>1, <2>2, <2>3, <2>4 DEF FlashTypeOK
  <2>6. "mixed" \notin spoiled => \A u \in Tasks : pc[u] # "prog"
    <3>1. SUFFICES ASSUME "mixed" \notin spoiled, NEW u \in Tasks, pc[u] = "prog" PROVE FALSE
      OBVIOUS
    <3>2. cs = u /\ CanRun(u)
      BY <3>1 DEF Frames, Nobody, DataFlashAssumption
    <3>3. u < t \/ t < u
      BY <2>1, <3>1 DEF DataFlashAssumption
    <3> QED BY <2>1, <3>1, <3>2, <3>3 DEF CanRun
  <2>7. Frames'
    BY <2>1, <2>2, <2>3, <2>4, <2>6 DEF Frames
  <2> QED BY <2>5, <2>7
<1>5. ASSUME NEW t \in Tasks, BeginProgram(t) PROVE Framed'
  <2>1. /\ pc[t] = "wait1" /\ CanRun(t) /\ chip = Ready
        /\ pc' = [pc EXCEPT ![t] = "prog"] /\ cs' = t
        /\ UNCHANGED <<mem, buf, chip, page, n, last, spoiled>>
    BY <1>5 DEF BeginProgram, Polled
  <2>2. /\ pc' \in [Tasks -> {"idle", "load", "wait1", "prog", "wait2"}]
        /\ pc'[t] = "prog" /\ \A u \in Tasks \ {t} : pc'[u] = pc[u]
    BY <2>1 DEF FlashTypeOK
  <2>3. "mixed" \notin spoiled => \A u \in Tasks : pc[u] # "prog"
    <3>1. SUFFICES ASSUME "mixed" \notin spoiled, NEW u \in Tasks, pc[u] = "prog" PROVE FALSE
      OBVIOUS
    <3>2. cs = u /\ CanRun(u)
      BY <3>1 DEF Frames, Nobody, DataFlashAssumption
    <3>3. u < t \/ t < u
      BY <2>1, <3>1 DEF DataFlashAssumption
    <3> QED BY <2>1, <3>1, <3>2, <3>3 DEF CanRun
  <2>4. CanRun(t)'
    BY <2>1, <2>2 DEF CanRun, DataFlashAssumption
  <2>5. FlashTypeOK'
    BY <2>1, <2>2 DEF FlashTypeOK
  <2>6. Frames'
    BY <2>1, <2>2, <2>3, <2>4 DEF Frames
  <2> QED BY <2>5, <2>6
<1>6. ASSUME NEW t \in Tasks, EndProgram(t) PROVE Framed'
  <2>1. /\ pc[t] = "prog" /\ CanRun(t) /\ pc' = [pc EXCEPT ![t] = "wait2"] /\ cs' = Nobody
        /\ UNCHANGED <<mem, page, n, last>>
        /\ \/ /\ cs = t /\ buf' = Filled(t)
              /\ chip' = [op |-> "prog", page |-> page[t], b |-> BufOf[page[t]]]
              /\ spoiled' \in {spoiled, spoiled \cup {"stale"}}
           \/ cs # t /\ UNCHANGED <<buf, chip, spoiled>>
    BY <1>6 DEF EndProgram
  <2>2. /\ pc' \in [Tasks -> {"idle", "load", "wait1", "prog", "wait2"}]
        /\ pc'[t] = "wait2" /\ \A u \in Tasks \ {t} : pc'[u] = pc[u]
    BY <2>1 DEF FlashTypeOK
  <2>3. page[t] \in Pages /\ BufOf[page[t]] \in {1, 2}
    BY <2>1 DEF Frames, DataFlashAssumption
  <2>4. Filled(t) \in [{1, 2} -> [page : Pages \cup {NoPage}, img : [Tasks -> Values]]]
    BY <2>1, FilledTyped
  <2>5. FlashTypeOK'
    <3>1. chip' \in {Ready} \cup [op : {"load", "prog"}, page : Pages, b : {1, 2}]
      BY <2>1, <2>3 DEF FlashTypeOK
    <3>2. /\ buf' \in [{1, 2} -> [page : Pages \cup {NoPage}, img : [Tasks -> Values]]]
          /\ spoiled' \subseteq {"mixed", "stale"}
      BY <2>1, <2>4 DEF FlashTypeOK
    <3> QED BY <2>1, <2>2, <3>1, <3>2 DEF FlashTypeOK
  <2>6. "mixed" \notin spoiled => \A u \in Tasks \ {t} : pc[u] # "prog"
    BY <2>1 DEF Frames
  <2>7. "mixed" \notin spoiled' <=> "mixed" \notin spoiled
    BY <2>1
  <2>8. Frames'
    BY <2>1, <2>2, <2>3, <2>6, <2>7 DEF Frames
  <2> QED BY <2>5, <2>8
<1>7. ASSUME NEW t \in Tasks, EndWrite(t) PROVE Framed'
  <2>1. /\ pc[t] = "wait2" /\ CanRun(t) /\ pc' = [pc EXCEPT ![t] = "idle"]
        /\ page' = [page EXCEPT ![t] = NoPage]
        /\ last' = [last EXCEPT ![page[t]][t] = n[t]]
        /\ UNCHANGED <<mem, buf, chip, cs, n, spoiled>>
    BY <1>7 DEF EndWrite
  <2>2. /\ pc' \in [Tasks -> {"idle", "load", "wait1", "prog", "wait2"}]
        /\ pc'[t] = "idle" /\ \A u \in Tasks \ {t} : pc'[u] = pc[u]
        /\ page'[t] = NoPage /\ \A u \in Tasks \ {t} : page'[u] = page[u]
        /\ page' \in [Tasks -> Pages \cup {NoPage}]
    BY <2>1 DEF FlashTypeOK
  <2>3. n[t] \in Values
    BY DEF FlashTypeOK, Values, Junk, DataFlashAssumption
  <2>4. last' \in [Pages -> [Tasks -> Values]]
    BY <2>1, <2>3 DEF FlashTypeOK
  <2>5. FlashTypeOK'
    BY <2>1, <2>2, <2>4 DEF FlashTypeOK
  <2>6. cs # Nobody => pc'[cs] = pc[cs] /\ CanRun(cs)'
    BY <2>1, <2>2 DEF Frames, FlashTypeOK, CanRun
  <2>7. Frames'
    BY <2>1, <2>2, <2>6 DEF Frames
  <2> QED BY <2>5, <2>7
<1>8. CASE UNCHANGED flashVars
  BY <1>8 DEF flashVars, FlashTypeOK, Frames, CanRun
<1> QED BY <1>1, <1>2, <1>3, <1>4, <1>5, <1>6, <1>7, <1>8 DEF FlashNext, flash0_write

THEOREM FlashTypeCorrect ==
  ASSUME DataFlashAssumption
  PROVE  FlashSpec => []FlashTypeOK
<1>1. FlashInit => Framed BY FramedInit
<1>2. Framed /\ [FlashNext]_flashVars => Framed' BY FramedNext
<1>3. Framed => FlashTypeOK BY DEF Framed
<1> QED BY <1>1, <1>2, <1>3, PTL DEF FlashSpec

-----------------------------------------------------------------------------
(* The bytes.                                                              *)

\* What page p will hold once the chip is ready.
Coming ==
  [p \in Pages |-> IF chip.op = "prog" /\ chip.page = p THEN buf[chip.b].img ELSE mem[p]]

\* The inductive invariant of Integrity: the buffer a page is written through,
\* if it was loaded from that page, is the page; every page is as its finished
\* writes left it, but for the cells of the tasks that are writing it; and who
\* waits for the end of the program will find its bytes there.
Contents ==
  spoiled = {} =>
    /\ chip.op = "prog" => buf[chip.b].page = chip.page
    /\ \A p \in Pages : buf[BufOf[p]].page = p => buf[BufOf[p]].img = Coming[p]
    /\ \A p \in Pages, t \in Tasks : page[t] # p => Coming[p][t] = last[p][t]
    /\ \A t \in Tasks : pc[t] = "wait2" => Coming[page[t]][t] = n[t]

\* With one page: once a task has ended its first frame the buffer is loaded, or
\* about to be; and one that came while the chip took its command for something
\* else has another task below it that has ended its own.
Loaded == chip.op = "load" \/ \A p \in Pages : buf[BufOf[p]].page = p
Alone ==
  "mixed" \notin spoiled =>
    /\ "stale" \notin spoiled
    /\ chip.op = "prog" => Loaded
    /\ \A t \in Tasks : pc[t] \in {"wait1", "prog", "wait2"} => Loaded
    /\ \A t \in Tasks : pc[t] = "load" /\ cs # t =>
         \E u \in Tasks : u > t /\ pc[u] \in {"wait1", "wait2"}

\* A task that none interrupts finds its bytes in the page when the program ends.
TopFinds ==
  "mixed" \notin spoiled =>
    \A t \in Tasks : pc[t] = "wait2" /\ (\A u \in Tasks : u >= t) => Coming[page[t]][t] = n[t]
LEMMA ContentsInit ==
  ASSUME DataFlashAssumption, FlashInit PROVE Contents /\ Alone /\ TopFinds
<1>1. /\ \A b \in {1, 2} : buf[b].page = NoPage
      /\ \A p \in Pages, t \in Tasks : mem[p][t] = last[p][t]
      /\ \A t \in Tasks : pc[t] = "idle"
      /\ chip.op = "ready" /\ spoiled = {}
  BY DEF FlashInit, Blank, Ready
<1>2. \A p \in Pages : BufOf[p] \in {1, 2} /\ p # NoPage
  BY DEF DataFlashAssumption, NoPage
<1> QED BY <1>1, <1>2 DEF Contents, Alone, TopFinds, Coming

\* What the chip is about to do with a page is done.
LEMMA ComingStays ==
  ASSUME DataFlashAssumption, Framed, ChipLoads \/ ChipPrograms
  PROVE  /\ \A p \in Pages : Coming'[p] = Coming[p]
         /\ chip' = Ready /\ UNCHANGED <<cs, pc, page, n, last, spoiled>>
<1>1. CASE ChipLoads
  BY <1>1 DEF ChipLoads, Coming, Ready
<1>2. CASE ChipPrograms
  <2>1. chip.page \in Pages /\ chip.b \in {1, 2}
    BY <1>2 DEF ChipPrograms, Framed, FlashTypeOK, Ready
  <2>2. \A p \in Pages : mem'[p] = IF p = chip.page THEN buf[chip.b].img ELSE mem[p]
    BY <1>2, <2>1 DEF ChipPrograms, Framed, FlashTypeOK
  <2> QED BY <1>2, <2>2 DEF ChipPrograms, Coming, Ready
<1> QED BY <1>1, <1>2

\* A second frame ends: the chip is to program the page with the cell of the task
\* new and the others as its buffer has them.
LEMMA ProgramComes ==
  ASSUME DataFlashAssumption, Framed, NEW t \in Tasks, EndProgram(t), "mixed" \notin spoiled
  PROVE  \E q \in Pages, b \in {1, 2} :
           /\ page[t] = q /\ b = BufOf[q]
           /\ chip = Ready /\ chip' = [op |-> "prog", page |-> q, b |-> b]
           /\ Coming'[q] = [buf[b].img EXCEPT ![t] = n[t]]
           /\ buf'[b].img = Coming'[q]
           /\ \A p \in Pages \ {q} : Coming'[p] = Coming[p]
           /\ \A c \in {1, 2} : buf'[c].page = buf[c].page
           /\ \A c \in {1, 2} : c # b => buf'[c] = buf[c]
           /\ "stale" \in spoiled' \/ buf[b].page = q
           /\ "stale" \in spoiled' => "stale" \in spoiled \/ buf[b].page # q
           /\ "mixed" \notin spoiled'
           /\ UNCHANGED <<mem, page, n, last>>
<1>1. pc[t] = "prog" /\ cs = t /\ chip = Ready
  BY DEF EndProgram, Framed, Frames
<1>3. PICK q \in Pages, b \in {1, 2} : page[t] = q /\ b = BufOf[q]
  BY <1>1 DEF Framed, Frames, DataFlashAssumption
<1>2. /\ buf' = Filled(t) /\ chip' = [op |-> "prog", page |-> q, b |-> b]
      /\ UNCHANGED <<mem, page, n, last>>
      /\ spoiled' = spoiled \cup (IF buf[b].page # q THEN {"stale"} ELSE {})
  BY <1>1, <1>3 DEF EndProgram
<1>4. /\ \A c \in {1, 2} : Filled(t)[c].page = buf[c].page
      /\ Filled(t)[b].img = [buf[b].img EXCEPT ![t] = n[t]]
      /\ \A c \in {1, 2} : c # b => Filled(t)[c] = buf[c]
  BY <1>1, <1>3, FilledTyped
<1>5. Coming'[q] = [buf[b].img EXCEPT ![t] = n[t]] /\ buf'[b].img = Coming'[q]
  BY <1>2, <1>4 DEF Coming
<1>6. \A p \in Pages \ {q} : Coming'[p] = Coming[p]
  BY <1>1, <1>2 DEF Coming, Ready
<1>7. /\ "stale" \in spoiled' \/ buf[b].page = q
      /\ "stale" \in spoiled' => "stale" \in spoiled \/ buf[b].page # q
      /\ "mixed" \notin spoiled'
  BY <1>2
<1> QED BY <1>1, <1>2, <1>3, <1>4, <1>5, <1>6, <1>7

LEMMA ProgramCommand ==
  ASSUME DataFlashAssumption, Framed, NEW t \in Tasks, EndProgram(t), "mixed" \notin spoiled
  PROVE  \E r \in Pages, b \in {1, 2} :
           /\ b = BufOf[r] /\ chip = Ready /\ chip' = [op |-> "prog", page |-> r, b |-> b]
           /\ \A c \in {1, 2} : buf'[c].page = buf[c].page
           /\ "stale" \in spoiled' => "stale" \in spoiled \/ buf[b].page # r
<1>1. PICK r \in Pages, b \in {1, 2} :
        /\ page[t] = r /\ b = BufOf[r]
        /\ chip = Ready /\ chip' = [op |-> "prog", page |-> r, b |-> b]
        /\ Coming'[r] = [buf[b].img EXCEPT ![t] = n[t]]
        /\ buf'[b].img = Coming'[r]
        /\ \A p \in Pages \ {r} : Coming'[p] = Coming[p]
        /\ \A c \in {1, 2} : buf'[c].page = buf[c].page
        /\ \A c \in {1, 2} : c # b => buf'[c] = buf[c]
        /\ "stale" \in spoiled' \/ buf[b].page = r
        /\ "stale" \in spoiled' => "stale" \in spoiled \/ buf[b].page # r
        /\ "mixed" \notin spoiled'
        /\ UNCHANGED <<mem, page, n, last>>
  BY ProgramComes, Zenon
<1> QED BY <1>1

\* Who runs is the only one that does; nothing is marked away.
LEMMA OthersStand ==
  ASSUME Framed, NEW t \in Tasks, flash0_write(t)
  PROVE  /\ CanRun(t) /\ spoiled \subseteq spoiled'
         /\ \A u \in Tasks \ {t} : pc'[u] = pc[u] /\ page'[u] = page[u] /\ n'[u] = n[u]
<1>1. ASSUME NEW p \in Pages, BeginWrite(t, p)
      PROVE  /\ CanRun(t) /\ spoiled \subseteq spoiled'
             /\ \A u \in Tasks \ {t} : pc'[u] = pc[u] /\ page'[u] = page[u] /\ n'[u] = n[u]
  BY <1>1 DEF BeginWrite, Collide, Framed, FlashTypeOK
<1> QED BY <1>1 DEF flash0_write, EndLoad, BeginProgram, EndProgram, EndWrite, Framed, FlashTypeOK

LEMMA ContentsNext ==
  ASSUME DataFlashAssumption, Framed, Contents, [FlashNext]_flashVars, spoiled' = {}
  PROVE  Contents'
<1>0. spoiled = {}
  BY OthersStand DEF FlashNext, ChipLoads, ChipPrograms, flashVars
<1>c. /\ chip.op = "prog" => buf[chip.b].page = chip.page
      /\ \A p \in Pages : buf[BufOf[p]].page = p => buf[BufOf[p]].img = Coming[p]
      /\ \A p \in Pages, t \in Tasks : page[t] # p => Coming[p][t] = last[p][t]
      /\ \A t \in Tasks : pc[t] = "wait2" => Coming[page[t]][t] = n[t]
  BY <1>0 DEF Contents
<1>b. \A p \in Pages : BufOf[p] \in {1, 2} /\ p # NoPage
  BY DEF DataFlashAssumption, NoPage
<1>w. \A t \in Tasks : pc[t] # "idle" => page[t] \in Pages
  BY DEF Framed, Frames
<1>1. CASE ChipLoads
  <2>1. /\ chip.page \in Pages /\ chip.b \in {1, 2} /\ chip.op = "load"
        /\ buf' = [buf EXCEPT ![chip.b] = [page |-> chip.page, img |-> mem[chip.page]]]
        /\ buf \in [{1, 2} -> [page : Pages \cup {NoPage}, img : [Tasks -> Values]]]
    BY <1>1 DEF ChipLoads, Framed, FlashTypeOK, Ready
  <2>2. /\ buf'[chip.b].page = chip.page /\ buf'[chip.b].img = Coming[chip.page]
        /\ \A b \in {1, 2} : b # chip.b => buf'[b] = buf[b]
    BY <2>1 DEF Coming
  <2>3. ASSUME NEW p \in Pages, buf'[BufOf[p]].page = p PROVE buf'[BufOf[p]].img = Coming[p]
    BY <1>b, <1>c, <2>2, <2>3
  <2>4. chip'.op # "prog"
    BY <1>1 DEF ChipLoads, Ready
  <2> QED BY <1>1, <1>c, <1>w, <2>3, <2>4, ComingStays DEF Contents
<1>2. CASE ChipPrograms
  <2>1. chip'.op # "prog" /\ buf' = buf
    BY <1>2 DEF ChipPrograms, Ready
  <2> QED BY <1>2, <1>c, <1>w, <2>1, ComingStays DEF Contents
<1>3. ASSUME NEW t \in Tasks, NEW p \in Pages, BeginWrite(t, p) PROVE Contents'
  <2>1. /\ pc[t] = "idle" /\ pc' = [pc EXCEPT ![t] = "load"] /\ page' = [page EXCEPT ![t] = p]
        /\ n' = [n EXCEPT ![t] = @ + 1] /\ UNCHANGED <<mem, last>>
    BY <1>3 DEF BeginWrite
  <2>2. UNCHANGED <<chip, buf>>
    BY <1>3 DEF BeginWrite, Collide
  <2>3. /\ pc'[t] = "load" /\ page[t] = NoPage
        /\ \A u \in Tasks \ {t} : pc'[u] = pc[u] /\ page'[u] = page[u] /\ n'[u] = n[u]
    BY <2>1 DEF Framed, FlashTypeOK, Frames
  <2>4. \A q \in Pages : Coming'[q] = Coming[q]
    BY <2>1, <2>2 DEF Coming
  <2> QED BY <1>b, <1>c, <1>w, <2>1, <2>2, <2>3, <2>4 DEF Contents
<1>4. ASSUME NEW t \in Tasks, EndLoad(t) PROVE Contents'
  <2>1. /\ pc[t] = "load" /\ pc' = [pc EXCEPT ![t] = "wait1"]
        /\ UNCHANGED <<mem, buf, page, n, last>>
        /\ chip' = chip \/ (chip = Ready /\ chip'.op = "load")
    BY <1>4 DEF EndLoad
  <2>2. /\ pc'[t] = "wait1" /\ \A u \in Tasks \ {t} : pc'[u] = pc[u]
    BY <2>1 DEF Framed, FlashTypeOK
  <2>3. \A q \in Pages : Coming'[q] = Coming[q]
    BY <2>1 DEF Coming, Ready
  <2> QED BY <1>c, <1>w, <2>1, <2>2, <2>3 DEF Contents
<1>5. ASSUME NEW t \in Tasks, BeginProgram(t) PROVE Contents'
  <2>1. /\ pc' = [pc EXCEPT ![t] = "prog"] /\ UNCHANGED <<mem, buf, chip, page, n, last>>
    BY <1>5 DEF BeginProgram
  <2>2. /\ pc'[t] = "prog" /\ \A u \in Tasks \ {t} : pc'[u] = pc[u]
    BY <2>1 DEF Framed, FlashTypeOK
  <2>3. \A q \in Pages : Coming'[q] = Coming[q]
    BY <2>1 DEF Coming
  <2> QED BY <1>c, <1>w, <2>1, <2>2, <2>3 DEF Contents
<1>6. ASSUME NEW t \in Tasks, EndProgram(t) PROVE Contents'
  <2>1. PICK q \in Pages, B \in {1, 2} :
          /\ page[t] = q /\ B = BufOf[q]
          /\ chip' = [op |-> "prog", page |-> q, b |-> B]
          /\ Coming'[q] = [buf[B].img EXCEPT ![t] = n[t]] /\ buf'[B].img = Coming'[q]
          /\ \A p \in Pages \ {q} : Coming'[p] = Coming[p]
          /\ \A b \in {1, 2} : buf'[b].page = buf[b].page
          /\ \A b \in {1, 2} : b # B => buf'[b] = buf[b]
          /\ buf[B].page = q
    BY <1>0, <1>6, ProgramComes
  <2>2. /\ pc' = [pc EXCEPT ![t] = "wait2"] /\ UNCHANGED <<mem, page, n, last>>
    BY <1>6 DEF EndProgram
  <2>3. \A u \in Tasks \ {t} : pc'[u] = pc[u]
    BY <2>2 DEF Framed, FlashTypeOK
  <2>4. buf[B].img = Coming[q] /\ buf[B].img \in [Tasks -> Values]
    BY <1>c, <2>1 DEF Framed, FlashTypeOK
  <2>5. Coming'[q][t] = n[t] /\ \A u \in Tasks \ {t} : Coming'[q][u] = Coming[q][u]
    BY <2>1, <2>4
  <2>6. \A p \in Pages : buf'[BufOf[p]].page = p => buf'[BufOf[p]].img = Coming'[p]
    BY <1>b, <1>c, <2>1
  <2>7. ASSUME NEW p \in Pages, NEW u \in Tasks, page[u] # p PROVE Coming'[p][u] = last[p][u]
    <3>1. Coming[p][u] = last[p][u]
      BY <1>c, <2>7
    <3>2. CASE p = q
      BY <2>1, <2>5, <2>7, <3>1, <3>2
    <3>3. CASE p # q
      BY <2>1, <3>1, <3>3
    <3> QED BY <3>2, <3>3
  <2>8. \A p \in Pages, u \in Tasks : pc'[u] = "wait2" /\ p = page[u] => Coming'[p][u] = n[u]
    <3>1. SUFFICES ASSUME NEW p \in Pages, NEW u \in Tasks, pc'[u] = "wait2", p = page[u]
                   PROVE  Coming'[p][u] = n[u]
      OBVIOUS
    <3>2. CASE u = t
      BY <2>1, <2>5, <3>1, <3>2
    <3>3. CASE u # t
      <4>1. Coming[p][u] = n[u]
        BY <1>c, <2>3, <3>1, <3>3
      <4>2. CASE p = q
        BY <2>5, <3>3, <4>1, <4>2
      <4>3. CASE p # q
        BY <2>1, <4>1, <4>3
      <4> QED BY <4>2, <4>3
    <3> QED BY <3>2, <3>3
  <2>9. \A u \in Tasks : pc'[u] = "wait2" => page[u] \in Pages
    BY <1>w, <2>1, <2>3
  <2>10. \A u \in Tasks : pc'[u] = "wait2" => Coming'[page[u]][u] = n[u]
    BY <2>2, <2>8, <2>9
  <2>11. chip'.op = "prog" => buf'[chip'.b].page = chip'.page
    BY <2>1
  <2> QED BY <2>2, <2>6, <2>7, <2>10, <2>11 DEF Contents
<1>7. ASSUME NEW t \in Tasks, EndWrite(t) PROVE Contents'
  <2>1. /\ pc[t] = "wait2" /\ pc' = [pc EXCEPT ![t] = "idle"]
        /\ page' = [page EXCEPT ![t] = NoPage]
        /\ last' = [last EXCEPT ![page[t]][t] = n[t]]
        /\ UNCHANGED <<mem, buf, chip, n>>
    BY <1>7 DEF EndWrite
  <2>2. /\ pc'[t] = "idle" /\ \A u \in Tasks \ {t} : pc'[u] = pc[u] /\ page'[u] = page[u]
    BY <2>1 DEF Framed, FlashTypeOK
  <2>3. \A p \in Pages : Coming'[p] = Coming[p]
    BY <2>1 DEF Coming
  <2>4. \A p \in Pages, u \in Tasks :
          last'[p][u] = IF p = page[t] /\ u = t THEN n[t] ELSE last[p][u]
    BY <2>1 DEF Framed, FlashTypeOK
  <2>5. \A p \in Pages, u \in Tasks : page'[u] # p => Coming'[p][u] = last'[p][u]
    <3>1. ASSUME NEW p \in Pages, NEW u \in Tasks, page'[u] # p PROVE Coming[p][u] = last'[p][u]
      <4>1. CASE u = t /\ p = page[t]
        BY <1>c, <2>1, <2>4, <4>1
      <4>2. CASE ~(u = t /\ p = page[t])
        BY <1>c, <2>2, <2>4, <3>1, <4>2
      <4> QED BY <4>1, <4>2
    <3> QED BY <2>3, <3>1
  <2> QED BY <1>c, <1>w, <2>1, <2>2, <2>3, <2>5 DEF Contents
<1>8. CASE UNCHANGED flashVars
  BY <1>8, <1>c DEF flashVars, Contents, Coming
<1> QED BY <1>1, <1>2, <1>3, <1>4, <1>5, <1>6, <1>7, <1>8 DEF FlashNext, flash0_write

(***************************************************************************)
(* What a task has written stays in its page, whatever others write around *)
(* it: until a page is programmed through the buffer of another, or two    *)
(* frames are mixed, the pages are what the finished writes left, for any  *)
(* tasks and any layout of the buffers.                                    *)
(***************************************************************************)
THEOREM IntegrityCorrect ==
  ASSUME DataFlashAssumption
  PROVE  FlashSpec => []Integrity
<1>1. FlashInit => Framed /\ Contents BY FramedInit, ContentsInit
<1>2. Framed /\ Contents /\ [FlashNext]_flashVars => Framed' /\ Contents'
  <2>1. Contents' \/ spoiled' = {} BY DEF Contents
  <2> QED BY <2>1, FramedNext, ContentsNext
<1>3. Framed /\ Contents => Integrity
  <2>1. chip = Ready => \A p \in Pages : Coming[p] = mem[p] BY DEF Coming, Ready
  <2> QED BY <2>1 DEF Contents, Integrity
<1> QED BY <1>1, <1>2, <1>3, PTL DEF FlashSpec

-----------------------------------------------------------------------------
(* One page.                                                               *)

LEMMA AloneNext ==
  ASSUME DataFlashAssumption, NEW q, Pages = {q}, Framed, Alone, [FlashNext]_flashVars,
         "mixed" \notin spoiled'
  PROVE  Alone'
<1>0. "mixed" \notin spoiled
  BY OthersStand DEF FlashNext, ChipLoads, ChipPrograms, flashVars
<1>c. /\ "stale" \notin spoiled
      /\ chip.op = "prog" => Loaded
      /\ \A t \in Tasks : pc[t] \in {"wait1", "prog", "wait2"} => Loaded
      /\ \A t \in Tasks : pc[t] = "load" /\ cs # t =>
           \E u \in Tasks : u > t /\ pc[u] \in {"wait1", "wait2"}
  BY <1>0 DEF Alone
<1>b. BufOf[q] \in {1, 2} /\ (Loaded <=> chip.op = "load" \/ buf[BufOf[q]].page = q)
  BY DEF DataFlashAssumption, Loaded
<1>l. Loaded' <=> chip'.op = "load" \/ buf'[BufOf[q]].page = q
  BY DEF Loaded
<1>n. Nobody \notin Tasks
  BY DEF DataFlashAssumption, Nobody
<1>1. CASE ChipLoads
  <2>1. /\ chip.page = q /\ chip.b = BufOf[q]
        /\ buf' = [buf EXCEPT ![chip.b] = [page |-> chip.page, img |-> mem[chip.page]]]
        /\ buf \in [{1, 2} -> [page : Pages \cup {NoPage}, img : [Tasks -> Values]]]
    BY <1>0, <1>1 DEF ChipLoads, Framed, FlashTypeOK, Frames, Ready
  <2>2. buf'[BufOf[q]].page = q
    BY <1>b, <2>1
  <2> QED BY <1>1, <1>c, <1>l, <2>2, ComingStays DEF Alone
<1>2. CASE ChipPrograms
  <2>1. buf' = buf /\ chip.op = "prog"
    BY <1>2 DEF ChipPrograms
  <2>2. buf'[BufOf[q]].page = q
    BY <1>b, <1>c, <2>1
  <2> QED BY <1>2, <1>c, <1>l, <2>2, ComingStays DEF Alone
<1>3. ASSUME NEW t \in Tasks, NEW p \in Pages, BeginWrite(t, p) PROVE Alone'
  <2>1. /\ pc[t] = "idle" /\ pc' = [pc EXCEPT ![t] = "load"]
        /\ cs = Nobody /\ (cs' = t \/ (cs' = Nobody /\ InStatus(t)))
        /\ UNCHANGED <<chip, buf, spoiled>>
    BY <1>3 DEF BeginWrite, Collide
  <2>2. pc'[t] = "load" /\ \A u \in Tasks \ {t} : pc'[u] = pc[u]
    BY <2>1 DEF Framed, FlashTypeOK
  <2>3. ASSUME NEW v \in Tasks, pc'[v] = "load", cs' # v
        PROVE  \E u \in Tasks : u > v /\ pc'[u] \in {"wait1", "wait2"}
    <3>1. PICK u \in Tasks : u > v /\ pc[u] \in {"wait1", "wait2"}
      BY <1>c, <1>n, <2>1, <2>2, <2>3 DEF InStatus
    <3> QED BY <2>1, <2>2, <3>1
  <2>4. Loaded' <=> Loaded
    BY <1>b, <1>l, <2>1
  <2> QED BY <1>c, <2>1, <2>2, <2>3, <2>4 DEF Alone
<1>4. ASSUME NEW t \in Tasks, EndLoad(t) PROVE Alone'
  <2>1. /\ pc[t] = "load" /\ CanRun(t) /\ pc' = [pc EXCEPT ![t] = "wait1"] /\ cs' = Nobody
        /\ chip' = IF cs = t /\ chip = Ready
                     THEN [op |-> "load", page |-> page[t], b |-> BufOf[page[t]]] ELSE chip
        /\ UNCHANGED <<buf, spoiled>>
    BY <1>4 DEF EndLoad
  <2>2. pc'[t] = "wait1" /\ \A u \in Tasks \ {t} : pc'[u] = pc[u]
    BY <2>1 DEF Framed, FlashTypeOK
  <2>3. Loaded'
    <3>1. CASE cs = t /\ chip = Ready
      BY <1>l, <2>1, <3>1
    <3>2. CASE cs = t /\ chip # Ready
      <4>1. chip.op = "load" \/ chip.op = "prog"
        BY <3>2 DEF Framed, FlashTypeOK
      <4> QED BY <1>b, <1>c, <1>l, <2>1, <3>2, <4>1
    <3>3. CASE cs # t
      BY <1>b, <1>c, <1>l, <2>1, <3>3
    <3> QED BY <3>1, <3>2, <3>3
  <2>4. ASSUME NEW v \in Tasks, pc'[v] = "load"
        PROVE  \E u \in Tasks : u > v /\ pc'[u] \in {"wait1", "wait2"}
    <3>1. v # t /\ pc[v] = "load"
      BY <2>2, <2>4
    <3>2. cs # v
      <4>1. SUFFICES ASSUME cs = v PROVE FALSE
        OBVIOUS
      <4>2. CanRun(v)
        BY <1>n, <4>1 DEF Framed, Frames
      <4>3. v < t \/ t < v
        BY <3>1 DEF DataFlashAssumption
      <4> QED BY <2>1, <3>1, <4>2, <4>3 DEF CanRun
    <3>3. PICK u \in Tasks : u > v /\ pc[u] \in {"wait1", "wait2"}
      BY <1>c, <3>1, <3>2
    <3> QED BY <2>1, <2>2, <3>3
  <2> QED BY <1>c, <2>1, <2>3, <2>4 DEF Alone
<1>5. ASSUME NEW t \in Tasks, BeginProgram(t) PROVE Alone'
  <2>1. /\ pc[t] = "wait1" /\ CanRun(t) /\ pc' = [pc EXCEPT ![t] = "prog"] /\ cs' = t
        /\ UNCHANGED <<buf, chip, spoiled>>
    BY <1>5 DEF BeginProgram
  <2>2. pc'[t] = "prog" /\ \A u \in Tasks \ {t} : pc'[u] = pc[u]
    BY <2>1 DEF Framed, FlashTypeOK
  <2>3. Loaded'
    BY <1>b, <1>c, <1>l, <2>1
  <2>4. ASSUME NEW v \in Tasks, pc'[v] = "load"
        PROVE  \E u \in Tasks : u > v /\ pc'[u] \in {"wait1", "wait2"}
    <3>1. v # t /\ pc[v] = "load"
      BY <2>2, <2>4
    <3>2. t < v
      <4>1. v < t => pc[v] = "idle"
        BY <2>1 DEF CanRun
      <4> QED BY <3>1, <4>1 DEF DataFlashAssumption
    <3>3. cs # v
      <4>1. SUFFICES ASSUME cs = v PROVE FALSE
        OBVIOUS
      <4>2. CanRun(v)
        BY <1>n, <4>1 DEF Framed, Frames
      <4> QED BY <2>1, <3>2, <4>2 DEF CanRun
    <3>4. PICK u \in Tasks : u > v /\ pc[u] \in {"wait1", "wait2"}
      BY <1>c, <3>1, <3>3
    <3>5. u # t
      BY <3>2, <3>4 DEF DataFlashAssumption
    <3> QED BY <2>2, <3>4, <3>5
  <2> QED BY <1>c, <2>1, <2>3, <2>4 DEF Alone
<1>6. ASSUME NEW t \in Tasks, EndProgram(t) PROVE Alone'
  <2>0. PICK r \in Pages, B \in {1, 2} :
          /\ B = BufOf[r] /\ chip = Ready /\ chip' = [op |-> "prog", page |-> r, b |-> B]
          /\ \A c \in {1, 2} : buf'[c].page = buf[c].page
          /\ "stale" \in spoiled' => "stale" \in spoiled \/ buf[B].page # r
    BY <1>0, <1>6, ProgramCommand
  <2>1. /\ chip.op = "ready" /\ chip'.op = "prog"
        /\ \A b \in {1, 2} : buf'[b].page = buf[b].page
        /\ "stale" \in spoiled' => "stale" \in spoiled \/ buf[BufOf[q]].page # q
    BY <2>0 DEF Ready
  <2>2. /\ pc[t] = "prog" /\ CanRun(t) /\ pc' = [pc EXCEPT ![t] = "wait2"] /\ cs' = Nobody
    BY <1>6 DEF EndProgram
  <2>3. pc'[t] = "wait2" /\ \A u \in Tasks \ {t} : pc'[u] = pc[u]
    BY <2>2 DEF Framed, FlashTypeOK
  <2>4. buf[BufOf[q]].page = q
    BY <1>b, <1>c, <2>1, <2>2
  <2>5. cs = t
    BY <1>0, <2>2 DEF Framed, Frames
  <2>6. ASSUME NEW v \in Tasks, pc'[v] = "load"
        PROVE  \E u \in Tasks : u > v /\ pc'[u] \in {"wait1", "wait2"}
    <3>1. v # t /\ pc[v] = "load"
      BY <2>3, <2>6
    <3>2. PICK u \in Tasks : u > v /\ pc[u] \in {"wait1", "wait2"}
      BY <1>c, <2>5, <3>1
    <3> QED BY <2>2, <2>3, <3>2
  <2> QED BY <1>b, <1>c, <1>l, <2>1, <2>4, <2>6 DEF Alone
<1>7. ASSUME NEW t \in Tasks, EndWrite(t) PROVE Alone'
  <2>1. /\ pc[t] = "wait2" /\ CanRun(t) /\ pc' = [pc EXCEPT ![t] = "idle"]
        /\ UNCHANGED <<buf, chip, cs, spoiled>>
    BY <1>7 DEF EndWrite
  <2>2. pc'[t] = "idle" /\ \A u \in Tasks \ {t} : pc'[u] = pc[u]
    BY <2>1 DEF Framed, FlashTypeOK
  <2>3. ASSUME NEW v \in Tasks, pc'[v] = "load", cs' # v
        PROVE  \E u \in Tasks : u > v /\ pc'[u] \in {"wait1", "wait2"}
    <3>1. v # t /\ pc[v] = "load"
      BY <2>2, <2>3
    <3>2. PICK u \in Tasks : u > v /\ pc[u] \in {"wait1", "wait2"}
      BY <1>c, <2>1, <2>3, <3>1
    <3>3. u # t
      <4>1. v < t => pc[v] = "idle"
        BY <2>1 DEF CanRun
      <4> QED BY <3>1, <3>2, <4>1
    <3> QED BY <2>2, <3>2, <3>3
  <2>4. Loaded' <=> Loaded
    BY <1>b, <1>l, <2>1
  <2> QED BY <1>c, <2>1, <2>2, <2>3, <2>4 DEF Alone
<1>8. CASE UNCHANGED flashVars
  <2>1. Loaded' <=> Loaded
    BY <1>8, <1>b, <1>l DEF flashVars
  <2> QED BY <1>8, <1>c, <2>1 DEF flashVars, Alone
<1> QED BY <1>1, <1>2, <1>3, <1>4, <1>5, <1>6, <1>7, <1>8 DEF FlashNext, flash0_write

(***************************************************************************)
(* Where there is one page, whoever writes it, it is always programmed     *)
(* through a buffer that holds it, unless two frames were mixed: what the  *)
(* records of the event log lose to each other is lost to other pages.     *)
(***************************************************************************)
THEOREM OnePageSafeCorrect ==
  ASSUME DataFlashAssumption, NEW q, Pages = {q}
  PROVE  FlashSpec => []OnePageSafe
<1>1. FlashInit => Framed /\ Alone BY FramedInit, ContentsInit
<1>2. Framed /\ Alone /\ [FlashNext]_flashVars => Framed' /\ Alone'
  <2>1. Alone' \/ "mixed" \notin spoiled' BY DEF Alone
  <2> QED BY <2>1, FramedNext, AloneNext
<1>3. Alone => OnePageSafe BY DEF Alone, OnePageSafe
<1> QED BY <1>1, <1>2, <1>3, PTL DEF FlashSpec

-----------------------------------------------------------------------------
(* The task of the highest priority.                                       *)

LEMMA TopFindsNext ==
  ASSUME DataFlashAssumption, Framed, TopFinds, [FlashNext]_flashVars,
         "mixed" \notin spoiled', NEW t \in Tasks, \A u \in Tasks : u >= t, pc'[t] = "wait2"
  PROVE  Coming'[page'[t]][t] = n'[t]
<1>0. "mixed" \notin spoiled
  BY OthersStand DEF FlashNext, ChipLoads, ChipPrograms, flashVars
<1>1. CASE ChipLoads \/ ChipPrograms
  <2>1. pc[t] = "wait2" /\ page[t] \in Pages
    BY <1>1, ComingStays DEF Framed, Frames
  <2> QED BY <1>0, <1>1, <2>1, ComingStays DEF TopFinds
<1>2. ASSUME NEW u \in Tasks, flash0_write(u) PROVE Coming'[page'[t]][t] = n'[t]
  <2>1. CASE u # t
    <3>1. CanRun(u) /\ pc'[t] = pc[t]
      BY <1>2, <2>1, OthersStand
    <3>2. t < u
      BY <2>1 DEF DataFlashAssumption
    <3> QED BY <3>1, <3>2 DEF CanRun
  <2>2. CASE u = t
    <3>1. EndProgram(t)
      <4>1. ASSUME NEW p \in Pages, BeginWrite(t, p) PROVE pc'[t] = "load"
        BY <4>1 DEF BeginWrite, Framed, FlashTypeOK
      <4>2. EndLoad(t) => pc'[t] = "wait1"
        BY DEF EndLoad, Framed, FlashTypeOK
      <4>3. BeginProgram(t) => pc'[t] = "prog"
        BY DEF BeginProgram, Framed, FlashTypeOK
      <4>4. EndWrite(t) => pc'[t] = "idle"
        BY DEF EndWrite, Framed, FlashTypeOK
      <4> QED BY <1>2, <2>2, <4>1, <4>2, <4>3, <4>4 DEF flash0_write
    <3>2. PICK q \in Pages, b \in {1, 2} :
            /\ page[t] = q /\ UNCHANGED <<page, n>>
            /\ Coming'[q] = [buf[b].img EXCEPT ![t] = n[t]]
      BY <1>0, <3>1, ProgramComes
    <3>3. buf[b].img \in [Tasks -> Values]
      BY DEF Framed, FlashTypeOK
    <3> QED BY <3>2, <3>3
  <2> QED BY <2>1, <2>2
<1>3. CASE UNCHANGED flashVars
  BY <1>0, <1>3 DEF flashVars, TopFinds, Coming
<1> QED BY <1>1, <1>2, <1>3 DEF FlashNext

(***************************************************************************)
(* When flash0_write returns to a task that none has interrupted, its      *)
(* bytes are in the page, whatever was lost of the rest: reading them back *)
(* does not show the loss.                                                 *)
(***************************************************************************)
THEOREM OwnBytesCorrect ==
  ASSUME DataFlashAssumption
  PROVE  FlashSpec => OwnBytesWritten
<1>1. FlashInit => Framed /\ TopFinds BY FramedInit, ContentsInit
<1>2. Framed /\ TopFinds /\ [FlashNext]_flashVars => Framed' /\ TopFinds'
  <2>1. Framed /\ TopFinds /\ [FlashNext]_flashVars => TopFinds'
    BY TopFindsNext DEF TopFinds
  <2> QED BY <2>1, FramedNext
<1>3. Framed /\ TopFinds /\ [FlashNext]_flashVars => [ReturnsWritten]_flashVars
  <2>1. SUFFICES ASSUME Framed, TopFinds, FlashNext PROVE ReturnsWritten
    BY DEF ReturnsWritten
  <2>2. SUFFICES ASSUME NEW t \in Tasks, pc[t] = "wait2", pc'[t] = "idle",
                        \A u \in Tasks : u >= t, "mixed" \notin spoiled
                 PROVE  mem[page[t]][t] = n[t]
    BY DEF ReturnsWritten
  <2>3. Coming[page[t]][t] = n[t] /\ page[t] \in Pages
    BY <2>1, <2>2 DEF TopFinds, Framed, Frames
  <2>4. chip = Ready
    <3>1. ~ChipLoads /\ ~ChipPrograms
      BY <2>2 DEF ChipLoads, ChipPrograms
    <3>2. PICK u \in Tasks : flash0_write(u)
      BY <2>1, <3>1 DEF FlashNext
    <3>3. u = t
      BY <2>1, <2>2, <3>2, OthersStand
    <3>4. EndWrite(t)
      BY <2>2, <3>2, <3>3 DEF flash0_write, BeginWrite, EndLoad, BeginProgram, EndProgram
    <3> QED BY <3>4 DEF EndWrite, Polled
  <2> QED BY <2>3, <2>4 DEF Coming, Ready
<1> QED BY <1>1, <1>2, <1>3, PTL DEF FlashSpec, OwnBytesWritten

(***************************************************************************)
(* The driver of the EEPROM.                                               *)
(***************************************************************************)

\* The callers wait for the chip, or the task looks at the bus in time.  With neither
\* the refusal of an address may pass unseen, and the read is not tried again.
InTime == Paced \/ ~Preempted

\* What the driver is asked for: nothing yet, a read or a write inside the chip.
Calls ==
    [kind : {"none"}, addr : {0}, data : {<<>>}, len : {0}]
      \cup [kind : {"read"}, addr : Addr, data : {<<>>}, len : 1 .. MaxRead]
      \cup [kind : {"write"}, addr : Addr, data : Seq(Bytes), len : {0}]

CallInside ==
    /\ call \in Calls
    /\ call.kind = "read" => call.addr + call.len <= Size
    /\ call.kind = "write" => /\ Len(call.data) \in 1 .. MaxWrite
                              /\ call.addr + Len(call.data) <= Size

\* The bytes of a read that have come, and none after them.
Come(k) == in = [i \in 1 .. MaxRead |-> IF i <= k THEN cells[call.addr + i - 1] ELSE 0]

\* The bytes of a write that the chip has taken: latch holds the first k.
Latched(k) == Len(latch) = k /\ \A i \in 1 .. k : latch[i] = call.data[i]

Landed == \A i \in 1 .. Len(call.data) : cells[call.addr + i - 1] = call.data[i]

\* The driver is in a call and its transfer is over.
Over == at \in {"starting", "waiting"} /\ ~sta /\ fly = "none"

\* Where the task is and what the bus does.
PhaseInv ==
    /\ at # "idle" => call.kind # "none"
    /\ BusAtRest
    /\ sta => at = "starting" /\ fly = "none" /\ state = "IDLE"
    /\ fly # "none" => state = "PENDING"
    /\ Over => state \in Terminal
    /\ Over /\ at = "starting" => Preempted
    /\ at = "ended" => result \in {"0"} \cup Terminal
    /\ at = "ended" /\ result = "0" => Preempted

\* Callers that wait for the chip are never refused.
PacedInv ==
    Paced => /\ at = "engine" \/ sta \/ fly # "none" => ~busy
             /\ Over => state # "SLA_NACK"
             /\ at = "ended" => result # "SLA_NACK"

\* How far the transfer has come.
BusInv ==
    /\ sta => RdIndex = 0
    /\ fly = "slaW" => WrIndex = 1 /\ Latched(0) /\ RdIndex = 0
    /\ fly = "data" => /\ WrIndex \in 2 .. I2CWriteLength
                       /\ WrIndex > 2 => ptr = call.addr
                       /\ Latched(IF WrIndex > Header THEN WrIndex - Header - 1 ELSE 0)
                       /\ RdIndex = 0
    /\ fly \in {"rep", "slaR", "rdata"} => call.kind = "read" /\ latch = <<>>
    /\ fly = "rep" => WrIndex = Header
    /\ fly \in {"rep", "slaR"} => ptr = call.addr /\ RdIndex = 0
    /\ fly = "rdata" => /\ RdIndex < call.len /\ ptr = call.addr + RdIndex
                        /\ aa <=> RdIndex < call.len - 1

\* What a read has got.
ReadInv ==
    call.kind = "read" =>
        /\ at = "engine" \/ sta \/ fly \in {"slaW", "data", "rep", "slaR"} => Come(0)
        /\ fly = "rdata" => Come(RdIndex)
        /\ Over => IF state = "ACK" THEN Come(call.len) ELSE Come(0)
        /\ at = "ended" => IF result = "SLA_NACK" THEN Come(0) ELSE InTime => Come(call.len)
        /\ at = "idle" /\ InTime => Come(call.len)

\* What a write has done.
WriteInv == call.kind = "write" /\ Paced /\ (at \in {"ended", "idle"} \/ Over) => Landed

EepromInv == EepromTypeOK /\ CallInside /\ PhaseInv /\ PacedInv /\ BusInv /\ ReadInv /\ WriteInv

LEMMA EepromConstants ==
  ASSUME EepromAssumption
  PROVE  /\ Size \in Nat /\ Size >= 1 /\ Bytes \subseteq Nat \ {0} /\ 0 \in Addr
         /\ MaxRead \in Nat /\ MaxRead >= 1 /\ MaxWrite \in Nat /\ MaxWrite >= 1
         /\ Paced \in BOOLEAN /\ Preempted \in BOOLEAN
  BY DEF EepromAssumption, Addr

\* What is known of the call.
LEMMA CallFacts ==
  ASSUME EepromAssumption, CallInside
  PROVE  /\ call.kind \in {"none", "read", "write"} /\ call.addr \in Nat /\ call.addr \in Addr
         /\ call.kind = "read" => /\ call.len \in 1 .. MaxRead /\ call.data = <<>>
                                  /\ call.addr + call.len <= Size
         /\ call.kind = "write" => /\ call.len = 0 /\ call.data \in Seq(Bytes)
                                   /\ Len(call.data) \in 1 .. MaxWrite
                                   /\ call.addr + Len(call.data) <= Size
         /\ call.kind = "none" => call.len = 0
  BY EepromConstants DEF CallInside, Calls, Addr

LEMMA NoBytes == <<>> \in Seq(Bytes) /\ Len(<<>>) = 0
  OBVIOUS

LEMMA Offset == \A i, p, k \in Nat : i >= p /\ i - p < k => i - p + 1 \in 1 .. k
  OBVIOUS

LEMMA EepromInitInv == EepromAssumption /\ EepromInit => EepromInv
<1> SUFFICES ASSUME EepromAssumption, EepromInit PROVE EepromInv OBVIOUS
<1> USE EepromConstants
<1>1. EepromTypeOK BY DEF EepromInit, EepromTypeOK, Cleared, Header, Terminal
<1>2. CallInside BY DEF EepromInit, CallInside, Calls
<1>3. PhaseInv BY DEF EepromInit, PhaseInv, BusAtRest, Over
<1>4. PacedInv BY DEF EepromInit, PacedInv, Over
<1>5. BusInv BY DEF EepromInit, BusInv
<1>6. ReadInv BY DEF EepromInit, ReadInv
<1>7. WriteInv BY DEF EepromInit, WriteInv
<1> QED BY <1>1, <1>2, <1>3, <1>4, <1>5, <1>6, <1>7 DEF EepromInv

LEMMA StartInv ==
  ASSUME EepromAssumption, EepromInv, Start
  PROVE  EepromInv'
<1> USE EepromConstants DEF EepromInv, Start, memory, bus, Looked
<1>1. EepromTypeOK' BY DEF EepromTypeOK, Header, Terminal
<1>2. CallInside' BY DEF CallInside
<1>3. PhaseInv' BY DEF PhaseInv, BusAtRest, Over, Terminal
<1>4. PacedInv' BY DEF PacedInv, PhaseInv, BusAtRest, Over, Terminal
<1>5. BusInv' BY DEF BusInv, Latched, PhaseInv, BusAtRest, Header, I2CWriteLength, I2CReadLength
<1>6. ReadInv' BY DEF ReadInv, PhaseInv, BusAtRest, Over, Come, BusInv, EepromTypeOK, Terminal
<1>7. WriteInv' BY DEF WriteInv, Landed, PhaseInv, BusAtRest, Over, Terminal
<1> QED BY <1>1, <1>2, <1>3, <1>4, <1>5, <1>6, <1>7

LEMMA StartedInv ==
  ASSUME EepromAssumption, EepromInv, Started
  PROVE  EepromInv'
<1> USE EepromConstants DEF EepromInv, Started, memory, bus, Looked
<1>1. EepromTypeOK' BY DEF EepromTypeOK, Header, Terminal
<1>2. CallInside' BY DEF CallInside
<1>3. PhaseInv' BY DEF PhaseInv, BusAtRest, Over, Terminal
<1>4. PacedInv' BY DEF PacedInv, PhaseInv, BusAtRest, Over, Terminal
<1>5. BusInv' BY DEF BusInv, Latched, PhaseInv, BusAtRest, Header, I2CWriteLength, I2CReadLength
<1>6. ReadInv' BY DEF ReadInv, PhaseInv, BusAtRest, Over, Come, BusInv, EepromTypeOK, Terminal
<1>7. WriteInv' BY DEF WriteInv, Landed, PhaseInv, BusAtRest, Over, Terminal
<1> QED BY <1>1, <1>2, <1>3, <1>4, <1>5, <1>6, <1>7

LEMMA TimedOutInv ==
  ASSUME EepromAssumption, EepromInv, TimedOut
  PROVE  EepromInv'
<1> USE EepromConstants DEF EepromInv, TimedOut, memory, bus, Looked
<1>1. EepromTypeOK' BY DEF EepromTypeOK, Header, Terminal
<1>2. CallInside' BY DEF CallInside
<1>3. PhaseInv' BY DEF PhaseInv, BusAtRest, Over, Terminal
<1>4. PacedInv' BY DEF PacedInv, PhaseInv, BusAtRest, Over, Terminal
<1>5. BusInv' BY DEF BusInv, Latched, PhaseInv, BusAtRest, Header, I2CWriteLength, I2CReadLength
<1>6. ReadInv'
  <2>1. at = "starting" /\ ~sta /\ fly = "none" /\ state \in Terminal /\ Preempted
    BY DEF PhaseInv, Over
  <2>2. at' = "ended" /\ result' = "0" /\ fly' = "none" /\ ~sta' /\ call' = call BY <2>1
  <2>3. InTime => state = "ACK" BY <2>1 DEF PacedInv, Over, InTime, Terminal
  <2>4. Come(call.len)' <=> Come(call.len) BY DEF Come
  <2>5. call.kind = "read" /\ state = "ACK" => Come(call.len) BY <2>1 DEF ReadInv, Over
  <2> QED BY <2>2, <2>3, <2>4, <2>5 DEF ReadInv, Over, InTime
<1>7. WriteInv' BY DEF WriteInv, Landed, PhaseInv, BusAtRest, Over, Terminal
<1> QED BY <1>1, <1>2, <1>3, <1>4, <1>5, <1>6, <1>7

LEMMA EndedInv ==
  ASSUME EepromAssumption, EepromInv, Ended
  PROVE  EepromInv'
<1> USE EepromConstants DEF EepromInv, Ended, memory, bus, Looked
<1>1. EepromTypeOK' BY DEF EepromTypeOK, Header, Terminal
<1>2. CallInside' BY DEF CallInside
<1>3. PhaseInv' BY DEF PhaseInv, BusAtRest, Over, Terminal
<1>4. PacedInv' BY DEF PacedInv, PhaseInv, BusAtRest, Over, Terminal
<1>5. BusInv' BY DEF BusInv, Latched, PhaseInv, BusAtRest, Header, I2CWriteLength, I2CReadLength
<1>6. ReadInv' BY DEF ReadInv, PhaseInv, BusAtRest, Over, Come, BusInv, EepromTypeOK, Terminal
<1>7. WriteInv' BY DEF WriteInv, Landed, PhaseInv, BusAtRest, Over, Terminal
<1> QED BY <1>1, <1>2, <1>3, <1>4, <1>5, <1>6, <1>7

LEMMA ReturnInv ==
  ASSUME EepromAssumption, EepromInv, Return
  PROVE  EepromInv'
<1> USE EepromConstants DEF EepromInv, Return, memory, bus, Looked
<1>1. EepromTypeOK' BY DEF EepromTypeOK, Header, Terminal
<1>2. CallInside' BY DEF CallInside
<1>3. PhaseInv' BY DEF PhaseInv, BusAtRest, Over, Terminal
<1>4. PacedInv' BY DEF PacedInv, PhaseInv, BusAtRest, Over, Terminal
<1>5. BusInv' BY DEF BusInv, Latched, PhaseInv, BusAtRest, Header, I2CWriteLength, I2CReadLength
<1>6. ReadInv' BY DEF ReadInv, PhaseInv, BusAtRest, Over, Come, BusInv, EepromTypeOK, Terminal
<1>7. WriteInv' BY DEF WriteInv, Landed, PhaseInv, BusAtRest, Over, Terminal
<1> QED BY <1>1, <1>2, <1>3, <1>4, <1>5, <1>6, <1>7

LEMMA Isr08Inv ==
  ASSUME EepromAssumption, EepromInv, Isr08
  PROVE  EepromInv'
<1> USE EepromConstants DEF EepromInv, Isr08, memory, bus, Looked
<1>1. EepromTypeOK'
  <2>1. WrIndex' \in 0 .. Header + MaxWrite BY DEF Header
  <2>2. latch' \in Seq(Bytes) /\ Len(latch') <= MaxWrite BY NoBytes
  <2> QED BY <2>1, <2>2 DEF EepromTypeOK
<1>2. CallInside' BY DEF CallInside
<1>3. PhaseInv' BY DEF PhaseInv, BusAtRest, Over, Terminal
<1>4. PacedInv' BY DEF PacedInv, PhaseInv, BusAtRest, Over, Terminal
<1>5. BusInv' BY NoBytes DEF BusInv, Latched, PhaseInv, EepromTypeOK
<1>6. ReadInv' BY DEF ReadInv, PhaseInv, BusAtRest, Over, Come, BusInv, EepromTypeOK, Terminal
<1>7. WriteInv' BY DEF WriteInv, Landed, PhaseInv, BusAtRest, Over, Terminal
<1> QED BY <1>1, <1>2, <1>3, <1>4, <1>5, <1>6, <1>7

LEMMA Isr10Inv ==
  ASSUME EepromAssumption, EepromInv, Isr10
  PROVE  EepromInv'
<1> USE EepromConstants DEF EepromInv, Isr10, memory, bus, Looked
<1>1. EepromTypeOK'
  <2>1. WrIndex' = Header + 1 BY DEF BusInv
  <2>2. WrIndex' \in 0 .. Header + MaxWrite /\ RdIndex' \in 0 .. MaxRead BY <2>1 DEF Header
  <2> QED BY <2>2 DEF EepromTypeOK
<1>2. CallInside' BY DEF CallInside
<1>3. PhaseInv' BY DEF PhaseInv, BusAtRest, Over, Terminal
<1>4. PacedInv' BY DEF PacedInv, PhaseInv, BusAtRest, Over, Terminal
<1>5. BusInv' BY DEF BusInv, Latched, PhaseInv, BusAtRest, Header, I2CWriteLength, I2CReadLength
<1>6. ReadInv' BY DEF ReadInv, PhaseInv, BusAtRest, Over, Come, BusInv, EepromTypeOK, Terminal
<1>7. WriteInv' BY DEF WriteInv, Landed, PhaseInv, BusAtRest, Over, Terminal
<1> QED BY <1>1, <1>2, <1>3, <1>4, <1>5, <1>6, <1>7

LEMMA Isr18Inv ==
  ASSUME EepromAssumption, EepromInv, Isr18
  PROVE  EepromInv'
<1> USE EepromConstants DEF EepromInv, Isr18, memory, bus, Looked
<1>1. EepromTypeOK'
  <2>1. WrIndex' = 2 BY DEF BusInv
  <2>2. WrIndex' \in 0 .. Header + MaxWrite BY <2>1 DEF Header
  <2> QED BY <2>2 DEF EepromTypeOK
<1>2. CallInside' BY DEF CallInside
<1>3. PhaseInv' BY DEF PhaseInv, BusAtRest, Over, Terminal
<1>4. PacedInv' BY DEF PacedInv, PhaseInv, BusAtRest, Over, Terminal
<1>5. BusInv' BY DEF BusInv, Latched, PhaseInv, BusAtRest, Header, I2CWriteLength, I2CReadLength
<1>6. ReadInv' BY DEF ReadInv, PhaseInv, BusAtRest, Over, Come, BusInv, EepromTypeOK, Terminal
<1>7. WriteInv' BY DEF WriteInv, Landed, PhaseInv, BusAtRest, Over, Terminal
<1> QED BY <1>1, <1>2, <1>3, <1>4, <1>5, <1>6, <1>7

LEMMA Isr20Inv ==
  ASSUME EepromAssumption, EepromInv, Isr20
  PROVE  EepromInv'
<1> USE EepromConstants DEF EepromInv, Isr20, memory, bus, Looked
<1>1. EepromTypeOK' BY DEF EepromTypeOK, Header, Terminal
<1>2. CallInside' BY DEF CallInside
<1>3. PhaseInv' BY DEF PhaseInv, BusAtRest, Over, Terminal
<1>4. PacedInv' BY DEF PacedInv, PhaseInv, BusAtRest, Over, Terminal
<1>5. BusInv' BY DEF BusInv, Latched, PhaseInv, BusAtRest, Header, I2CWriteLength, I2CReadLength
<1>6. ReadInv' BY DEF ReadInv, PhaseInv, BusAtRest, Over, Come, BusInv, EepromTypeOK, Terminal
<1>7. WriteInv' BY DEF WriteInv, PacedInv
<1> QED BY <1>1, <1>2, <1>3, <1>4, <1>5, <1>6, <1>7

LEMMA Isr28Inv ==
  ASSUME EepromAssumption, EepromInv, Isr28
  PROVE  EepromInv'
<1> USE EepromConstants DEF EepromInv
<1> DEFINE more == WrIndex < I2CWriteLength
<1>1. /\ fly = "data" /\ ~sta /\ state = "PENDING" /\ at \in {"starting", "waiting"}
      /\ WrIndex \in 2 .. I2CWriteLength /\ RdIndex = 0 /\ call.kind \in {"read", "write"}
      /\ UNCHANGED <<call, at, result, RdIndex, sta, aa, in, error>>
  BY CallFacts DEF Isr28, ByteTaken, PhaseInv, BusAtRest, BusInv, EepromTypeOK
<1>2. call.kind = "read" => I2CWriteLength = Header /\ I2CReadLength # 0
  BY CallFacts DEF I2CWriteLength, I2CReadLength
<1>3. call.kind = "write" => I2CWriteLength = Header + Len(call.data) /\ I2CReadLength = 0
  BY CallFacts DEF I2CWriteLength, I2CReadLength
<1>4. /\ ptr' = call.addr
      /\ latch' \in Seq(Bytes)
      /\ Len(latch') = IF WrIndex > Header THEN WrIndex - Header ELSE 0
      /\ \A i \in 1 .. Len(latch') : latch'[i] = call.data[i]
      /\ WrIndex > Header => call.kind = "write"
  <2>1. CASE WrIndex > Header
    <3>1. call.kind = "write" BY <1>1, <1>2, <2>1 DEF Header
    <3>2. /\ WrIndex - Header \in 1 .. Len(call.data) /\ call.data \in Seq(Bytes)
          /\ Len(call.data) \in Nat
      BY <1>1, <1>3, <2>1, <3>1, CallFacts DEF Header
    <3>3. call.data[WrIndex - Header] \in Bytes BY <3>2
    <3>4. latch' = Append(latch, call.data[WrIndex - Header]) /\ ptr' = ptr
      BY <2>1 DEF Isr28, ByteTaken, ChipTakes
    <3>5. /\ latch \in Seq(Bytes) /\ Len(latch) = WrIndex - Header - 1
          /\ \A i \in 1 .. Len(latch) : latch[i] = call.data[i]
          /\ ptr = call.addr
      BY <1>1, <2>1 DEF BusInv, Latched, EepromTypeOK, Header
    <3>6. /\ latch' \in Seq(Bytes) /\ Len(latch') = WrIndex - Header
          /\ \A i \in 1 .. Len(latch') : latch'[i] = call.data[i]
      <4>1. latch' \in Seq(Bytes) /\ Len(latch') = Len(latch) + 1 BY <3>3, <3>4, <3>5
      <4>2. Len(latch') = WrIndex - Header
        <5>1. WrIndex - Header - 1 \in Nat /\ WrIndex - Header \in Nat /\ WrIndex \in Nat
          BY <1>1, <3>2 DEF Header
        <5> QED BY <3>5, <4>1, <5>1 DEF Header
      <4>3. ASSUME NEW i \in 1 .. Len(latch') PROVE latch'[i] = call.data[i]
        <5>1. CASE i = Len(latch')
          <6>1. latch'[i] = call.data[WrIndex - Header] BY <3>3, <3>4, <3>5, <4>1, <5>1
          <6> QED BY <4>2, <5>1, <6>1
        <5>2. CASE i # Len(latch')
          <6>1. i \in 1 .. Len(latch) BY <3>5, <4>1, <5>2
          <6>2. latch'[i] = latch[i] BY <3>3, <3>4, <3>5, <6>1
          <6> QED BY <3>5, <6>1, <6>2
        <5> QED BY <5>1, <5>2
      <4> QED BY <4>1, <4>2, <4>3
    <3> QED BY <2>1, <3>1, <3>4, <3>5, <3>6
  <2>2. CASE ~(WrIndex > Header)
    <3>1. latch' = latch /\ ptr' = call.addr BY <2>2 DEF Isr28, ByteTaken, ChipTakes
    <3>2. latch \in Seq(Bytes) /\ Len(latch) = 0 BY <1>1, <2>2 DEF BusInv, Latched, EepromTypeOK
    <3> QED BY <2>2, <3>1, <3>2
  <2> QED BY <2>1, <2>2
<1>5. CASE more
  <2>1. WrIndex' = WrIndex + 1 /\ UNCHANGED <<cells, busy, state, fly>>
    BY <1>5 DEF Isr28, ByteTaken
  <2>2. WrIndex' \in 3 .. I2CWriteLength /\ I2CWriteLength \in Nat /\ I2CWriteLength <= Header + MaxWrite
    BY <1>1, <1>2, <1>3, <1>5, <2>1, CallFacts DEF Header
  <2>3. EepromTypeOK'
    <3>1. ptr' \in Addr BY <1>4, CallFacts
    <3>2. WrIndex' \in 0 .. Header + MaxWrite BY <2>2 DEF Header
    <3>3. Len(latch') <= MaxWrite BY <1>1, <1>4, <2>1, <2>2 DEF Header
    <3> QED BY <1>1, <1>4, <2>1, <3>1, <3>2, <3>3 DEF EepromTypeOK
  <2>4. CallInside' BY <1>1 DEF CallInside
  <2>5. PhaseInv' BY <1>1, <2>1 DEF PhaseInv, BusAtRest, Over
  <2>6. PacedInv' BY <1>1, <2>1 DEF PacedInv, Over
  <2>7. BusInv'
    <3>1. I2CWriteLength' = I2CWriteLength BY <1>1 DEF I2CWriteLength
    <3>2. Latched(IF WrIndex > Header THEN WrIndex - Header - 1 ELSE 0)'
      <4>1. (IF WrIndex > Header THEN WrIndex - Header - 1 ELSE 0)' = Len(latch')
        BY <1>1, <1>4, <2>1, <2>2 DEF Header
      <4> QED BY <1>1, <1>4, <4>1 DEF Latched
    <3> QED BY <1>1, <1>4, <2>1, <2>2, <3>1, <3>2 DEF BusInv
  <2>8. ReadInv' BY <1>1, <2>1 DEF ReadInv, Come, Over
  <2>9. WriteInv' BY <1>1, <2>1 DEF WriteInv, Over
  <2> QED BY <2>3, <2>4, <2>5, <2>6, <2>7, <2>8, <2>9
<1>6. CASE ~more /\ call.kind = "read"
  <2>1. fly' = "rep" /\ UNCHANGED <<cells, busy, state, WrIndex>>
    BY <1>2, <1>6 DEF Isr28, ByteTaken
  <2>2. WrIndex = Header /\ Len(latch') = 0 /\ latch' = <<>>
    BY <1>1, <1>2, <1>4, <1>6 DEF Header
  <2>3. EepromTypeOK' BY <1>1, <1>4, <2>1, <2>2, CallFacts DEF EepromTypeOK
  <2>4. CallInside' BY <1>1 DEF CallInside
  <2>5. PhaseInv' BY <1>1, <2>1 DEF PhaseInv, BusAtRest, Over
  <2>6. PacedInv' BY <1>1, <2>1 DEF PacedInv, Over
  <2>7. BusInv' BY <1>1, <1>4, <1>6, <2>1, <2>2 DEF BusInv
  <2>8. ReadInv' BY <1>1, <2>1 DEF ReadInv, Come, Over
  <2>9. WriteInv' BY <1>1, <1>6 DEF WriteInv
  <2> QED BY <2>3, <2>4, <2>5, <2>6, <2>7, <2>8, <2>9
<1>7. CASE ~more /\ call.kind = "write"
  <2>1. /\ Looked /\ state' = "ACK" /\ fly' = "none" /\ WrIndex' = WrIndex
        /\ cells' = [i \in Addr |->
               IF i >= ptr' /\ i - ptr' < Len(latch') THEN latch'[i - ptr' + 1] ELSE cells[i]]
        /\ busy' = (latch' # <<>>)
    BY <1>3, <1>7 DEF Isr28, ByteTaken
  <2>2. /\ WrIndex = Header + Len(call.data) /\ Len(call.data) \in 1 .. MaxWrite
        /\ call.addr \in Nat /\ call.addr + Len(call.data) <= Size
    BY <1>1, <1>3, <1>7, CallFacts DEF Header
  <2>3. Len(latch') = Len(call.data) BY <1>4, <2>2 DEF Header
  <2>4. EepromTypeOK'
    <3>1. cells' \in [Addr -> Bytes]
      <4>1. SUFFICES ASSUME NEW i \in Addr, i >= ptr', i - ptr' < Len(latch')
                     PROVE  latch'[i - ptr' + 1] \in Bytes
        BY <2>1 DEF EepromTypeOK
      <4>2. i \in Nat /\ ptr' \in Nat /\ Len(latch') \in Nat /\ i >= ptr' /\ i - ptr' < Len(latch')
        BY <1>4, <2>2, <2>3, <4>1 DEF Addr
      <4>3. i - ptr' + 1 \in 1 .. Len(latch') BY <4>2, Offset
      <4> QED BY <1>4, <4>3
    <3>2. ptr' \in Addr BY <1>4, CallFacts
    <3>3. Len(latch') <= MaxWrite BY <2>2, <2>3
    <3>4. busy' \in BOOLEAN /\ state' \in {"IDLE", "PENDING"} \cup Terminal BY <2>1 DEF Terminal
    <3> QED BY <1>1, <1>4, <2>1, <3>1, <3>2, <3>3, <3>4 DEF EepromTypeOK
  <2>5. CallInside' BY <1>1 DEF CallInside
  <2>6. PhaseInv' BY <1>1, <2>1 DEF PhaseInv, BusAtRest, Over, Terminal, Looked
  <2>7. PacedInv' BY <1>1, <2>1 DEF PacedInv, Over, BusAtRest, PhaseInv
  <2>8. BusInv' BY <2>1 DEF BusInv
  <2>9. ReadInv' BY <1>1, <1>7 DEF ReadInv
  <2>10. Landed'
    <3>1. SUFFICES ASSUME NEW i \in 1 .. Len(call.data)
                   PROVE  cells'[call.addr + i - 1] = call.data[i]
      BY <1>1 DEF Landed
    <3>2. /\ call.addr + i - 1 \in Addr /\ call.addr + i - 1 >= ptr'
          /\ (call.addr + i - 1) - ptr' + 1 = i /\ (call.addr + i - 1) - ptr' < Len(latch')
      <4>1. /\ i \in 1 .. Len(call.data) /\ Len(call.data) \in Nat /\ ptr' = call.addr
            /\ call.addr \in Nat /\ Size \in Nat /\ call.addr + Len(call.data) <= Size
            /\ Len(latch') = Len(call.data)
        BY <1>4, <2>2, <2>3, <3>1
      <4> QED BY ONLY <4>1 DEF Addr
    <3> QED BY <1>4, <2>1, <2>3, <3>2
  <2>11. WriteInv' BY <2>10 DEF WriteInv
  <2> QED BY <2>4, <2>5, <2>6, <2>7, <2>8, <2>9, <2>11
<1> QED BY <1>1, <1>5, <1>6, <1>7

LEMMA Isr40Inv ==
  ASSUME EepromAssumption, EepromInv, Isr40
  PROVE  EepromInv'
<1> USE EepromConstants DEF EepromInv, Isr40, memory, bus, Looked
<1>1. EepromTypeOK' BY DEF EepromTypeOK, Header, Terminal
<1>2. CallInside' BY DEF CallInside
<1>3. PhaseInv' BY DEF PhaseInv, BusAtRest, Over, Terminal
<1>4. PacedInv' BY DEF PacedInv, PhaseInv, BusAtRest, Over, Terminal
<1>5. BusInv'
  <2>1. call.kind = "read" /\ latch = <<>> /\ ptr = call.addr /\ RdIndex = 0 BY DEF BusInv
  <2>2. call.len \in Nat /\ 0 < call.len BY <2>1, CallFacts
  <2>3. aa' <=> RdIndex' < call'.len - 1
    <3>1. aa' = (call.len # 1) /\ call' = call /\ RdIndex' = RdIndex BY DEF I2CReadLength
    <3>2. aa' <=> call.len # 1 BY <3>1, Zenon
    <3> QED BY <2>1, <2>2, <3>1, <3>2
  <2> QED BY <2>1, <2>2, <2>3, CallFacts DEF BusInv
<1>6. ReadInv' BY DEF ReadInv, PhaseInv, BusAtRest, Over, Come, BusInv, EepromTypeOK, Terminal
<1>7. WriteInv' BY DEF WriteInv, Landed, PhaseInv, BusAtRest, Over, Terminal
<1> QED BY <1>1, <1>2, <1>3, <1>4, <1>5, <1>6, <1>7

\* The byte that comes is the next one of the read.
LEMMA OneMore ==
  ASSUME RdIndex \in Nat, RdIndex + 1 \in 1 .. MaxRead, MaxRead \in Nat,
         call.addr \in Nat, ptr = call.addr + RdIndex, Received,
         in = [i \in 1 .. MaxRead |-> IF i <= RdIndex THEN cells[call.addr + i - 1] ELSE 0]
  PROVE  in' = [i \in 1 .. MaxRead |-> IF i <= RdIndex + 1 THEN cells[call.addr + i - 1] ELSE 0]
<1>1. in' = [in EXCEPT ![RdIndex + 1] = cells[ptr]] BY DEF Received
<1>2. ASSUME NEW i \in 1 .. MaxRead
      PROVE  in'[i] = IF i <= RdIndex + 1 THEN cells[call.addr + i - 1] ELSE 0
  <2>1. CASE i = RdIndex + 1
    <3>1. call.addr + i - 1 = ptr BY <2>1
    <3> QED BY <1>1, <2>1, <3>1
  <2>2. CASE i # RdIndex + 1
    <3>1. in'[i] = in[i] BY <1>1, <2>2
    <3>2. i <= RdIndex + 1 <=> i <= RdIndex BY <2>2
    <3> QED BY <3>1, <3>2
  <2> QED BY <2>1, <2>2
<1>3. DOMAIN in' = 1 .. MaxRead BY <1>1
<1> QED BY <1>1, <1>2, <1>3

LEMMA Isr50Inv ==
  ASSUME EepromAssumption, EepromInv, Isr50
  PROVE  EepromInv'
<1> USE EepromConstants DEF EepromInv, Isr50, Received, memory, bus, Looked
<1>0. /\ call.kind = "read" /\ RdIndex < call.len /\ ptr = call.addr + RdIndex
      /\ aa <=> RdIndex < call.len - 1 /\ call.len \in 1 .. MaxRead /\ call.addr \in Nat
      /\ call.addr + call.len <= Size /\ RdIndex \in Nat /\ RdIndex + 1 \in 1 .. MaxRead
  BY CallFacts DEF BusInv, EepromTypeOK
<1>1. EepromTypeOK'
  <2>1. cells[ptr] \in Bytes \cup {0} BY DEF EepromTypeOK
  <2>2. in' \in [1 .. MaxRead -> Bytes \cup {0}] BY <2>1 DEF EepromTypeOK
  <2>3. ptr' \in Addr
    <3>1. ptr \in 0 .. Size - 1 /\ Size \in Nat /\ Size >= 1 BY DEF EepromTypeOK, Addr
    <3>2. ptr' = IF ptr + 1 = Size THEN 0 ELSE ptr + 1 OBVIOUS
    <3>3. ptr' \in 0 .. Size - 1 BY ONLY <3>1, <3>2
    <3> QED BY <3>3 DEF Addr
  <2>4. RdIndex' \in 0 .. MaxRead BY <1>0
  <2> QED BY <2>2, <2>3, <2>4 DEF EepromTypeOK
<1>2. CallInside' BY DEF CallInside
<1>3. PhaseInv' BY DEF PhaseInv, BusAtRest, Over, Terminal
<1>4. PacedInv' BY DEF PacedInv, PhaseInv, BusAtRest, Over, Terminal
<1>5. BusInv'
  <2>1. RdIndex + 1 < call.len BY <1>0
  <2>2. ptr' = call.addr + RdIndex' BY <1>0, <2>1
  <2>3. aa' <=> RdIndex' < call'.len - 1
    <3>1. aa' = (RdIndex' < call.len - 1) /\ call' = call BY DEF I2CReadLength
    <3> QED BY <3>1, Zenon
  <2>4. ~sta' BY DEF PhaseInv
  <2> QED BY <1>0, <2>1, <2>2, <2>3, <2>4 DEF BusInv
<1>6. ReadInv'
  <2>1. in = [i \in 1 .. MaxRead |-> IF i <= RdIndex THEN cells[call.addr + i - 1] ELSE 0]
    BY <1>0 DEF ReadInv, Come
  <2>2. Come(RdIndex)'
    <3>1. in' = [i \in 1 .. MaxRead |-> IF i <= RdIndex + 1 THEN cells[call.addr + i - 1] ELSE 0]
      BY <1>0, <2>1, OneMore
    <3> QED BY <1>0, <3>1 DEF Come
  <2>3. fly' = "rdata" /\ ~sta' /\ at' \in {"starting", "waiting"}
    BY DEF PhaseInv, BusAtRest, EepromTypeOK
  <2> QED BY <2>2, <2>3 DEF ReadInv, Over
<1>7. WriteInv' BY DEF WriteInv, Landed, PhaseInv, BusAtRest, Over, Terminal
<1> QED BY <1>1, <1>2, <1>3, <1>4, <1>5, <1>6, <1>7

LEMMA Isr58Inv ==
  ASSUME EepromAssumption, EepromInv, Isr58
  PROVE  EepromInv'
<1> USE EepromConstants DEF EepromInv, Isr58, Received, memory, bus, Looked
<1>0. /\ call.kind = "read" /\ RdIndex + 1 = call.len /\ ptr = call.addr + RdIndex
      /\ call.len \in 1 .. MaxRead /\ call.addr \in Nat
      /\ call.addr + call.len <= Size /\ RdIndex \in Nat /\ RdIndex + 1 \in 1 .. MaxRead
  <2>1. /\ call.kind = "read" /\ RdIndex < call.len /\ ~(RdIndex < call.len - 1)
        /\ ptr = call.addr + RdIndex /\ RdIndex \in Nat
    BY DEF BusInv, EepromTypeOK
  <2>2. call.len \in 1 .. MaxRead /\ call.addr \in Nat /\ call.addr + call.len <= Size
    BY <2>1, CallFacts
  <2>3. MaxRead \in Nat OBVIOUS
  <2> QED BY ONLY <2>1, <2>2, <2>3
<1>1. EepromTypeOK'
  <2>1. cells[ptr] \in Bytes \cup {0} BY DEF EepromTypeOK
  <2>2. in' \in [1 .. MaxRead -> Bytes \cup {0}] BY <2>1 DEF EepromTypeOK
  <2>3. ptr' \in Addr
    <3>1. ptr \in 0 .. Size - 1 /\ Size \in Nat /\ Size >= 1 BY DEF EepromTypeOK, Addr
    <3>2. ptr' = IF ptr + 1 = Size THEN 0 ELSE ptr + 1 OBVIOUS
    <3>3. ptr' \in 0 .. Size - 1 BY ONLY <3>1, <3>2
    <3> QED BY <3>3 DEF Addr
  <2>4. RdIndex' \in 0 .. MaxRead BY <1>0
  <2> QED BY <2>2, <2>3, <2>4 DEF EepromTypeOK, Terminal
<1>2. CallInside' BY DEF CallInside
<1>3. PhaseInv' BY DEF PhaseInv, BusAtRest, Over, Terminal
<1>4. PacedInv' BY DEF PacedInv, PhaseInv, BusAtRest, Over, Terminal
<1>5. BusInv' BY DEF BusInv, Latched, PhaseInv, BusAtRest, Header, I2CWriteLength, I2CReadLength
<1>6. ReadInv'
  <2>1. in = [i \in 1 .. MaxRead |-> IF i <= RdIndex THEN cells[call.addr + i - 1] ELSE 0]
    BY <1>0 DEF ReadInv, Come
  <2>2. Come(call.len)'
    <3>1. in' = [i \in 1 .. MaxRead |-> IF i <= RdIndex + 1 THEN cells[call.addr + i - 1] ELSE 0]
      BY <1>0, <2>1, OneMore
    <3>2. call' = call /\ cells' = cells /\ call.len = RdIndex + 1 BY <1>0
    <3> QED BY ONLY <3>1, <3>2 DEF Come
  <2>3. fly' = "none" /\ ~sta' /\ state' = "ACK" /\ at' \in {"starting", "waiting"}
    BY DEF PhaseInv, BusAtRest, EepromTypeOK
  <2> QED BY <2>2, <2>3 DEF ReadInv
<1>7. WriteInv' BY <1>0 DEF WriteInv
<1> QED BY <1>1, <1>2, <1>3, <1>4, <1>5, <1>6, <1>7

LEMMA ChipDoneInv ==
  ASSUME EepromAssumption, EepromInv, ChipDone
  PROVE  EepromInv'
<1> USE DEF EepromInv
<1>0. /\ busy' = FALSE
      /\ UNCHANGED <<cells, ptr, latch, call, at, state, WrIndex, RdIndex, sta, aa, fly, result, in, error>>
  BY DEF ChipDone, bus
<1>1. EepromTypeOK'
  <2>1. busy' \in BOOLEAN BY <1>0
  <2> QED BY <1>0, <2>1 DEF EepromTypeOK
<1>2. CallInside' BY <1>0 DEF CallInside
<1>3. PhaseInv' BY <1>0 DEF PhaseInv, BusAtRest, Over
<1>4. PacedInv' BY <1>0 DEF PacedInv, Over
<1>5. BusInv' BY <1>0 DEF BusInv, Latched, I2CWriteLength
<1>6. ReadInv' BY <1>0 DEF ReadInv, Over, Come, InTime
<1>7. WriteInv' BY <1>0 DEF WriteInv, Over, Landed
<1> QED BY <1>1, <1>2, <1>3, <1>4, <1>5, <1>6, <1>7

LEMMA CallInv ==
  ASSUME EepromAssumption, EepromInv, Call
  PROVE  EepromInv'
<1> USE EepromConstants DEF EepromInv
<1>1. CASE \E a \in Addr, k \in 1 .. MaxRead : a + k <= Size /\ EepromRead(a, k)
  <2>1. PICK a \in Addr, k \in 1 .. MaxRead : a + k <= Size /\ EepromRead(a, k) BY <1>1
  <2> USE DEF EepromRead, memory, bus
  <2>2. call' = [kind |-> "read", addr |-> a, data |-> <<>>, len |-> k] BY <2>1
  <2>3. call'.kind = "read" /\ call'.addr = a /\ call'.data = <<>> /\ call'.len = k BY <2>2
  <2>4. EepromTypeOK' BY <2>1, <2>3 DEF EepromTypeOK, Cleared
  <2>5. CallInside' BY <2>1, <2>2, <2>3 DEF CallInside, Calls
  <2>6. PhaseInv' BY <2>1, <2>3 DEF PhaseInv, BusAtRest, Over
  <2>7. PacedInv' BY <2>1 DEF PacedInv, PhaseInv, BusAtRest, Over
  <2>8. BusInv' BY <2>1 DEF BusInv, PhaseInv, BusAtRest
  <2>9. Come(0)' BY <2>1 DEF Come, Cleared
  <2>10. ReadInv' BY <2>1, <2>9 DEF ReadInv, PhaseInv, BusAtRest, Over
  <2>11. WriteInv' BY <2>3 DEF WriteInv
  <2> QED BY <2>4, <2>5, <2>6, <2>7, <2>8, <2>10, <2>11
<1>2. CASE \E a \in Addr, k \in 1 .. MaxWrite : \E d \in [1 .. k -> Bytes] :
             a + k <= Size /\ EepromWrite(a, d)
  <2>1. PICK a \in Addr, k \in 1 .. MaxWrite : \E d \in [1 .. k -> Bytes] :
             a + k <= Size /\ EepromWrite(a, d)
    BY <1>2
  <2>2. PICK d \in [1 .. k -> Bytes] : a + k <= Size /\ EepromWrite(a, d) BY <2>1
  <2> USE DEF EepromWrite, memory, bus
  <2>3. call' = [kind |-> "write", addr |-> a, data |-> d, len |-> 0] BY <2>2
  <2>4. call'.kind = "write" /\ call'.addr = a /\ call'.data = d /\ call'.len = 0 BY <2>3
  <2>5. k \in Nat /\ d \in Seq(Bytes) /\ Len(d) = k
    BY <2>2
  <2>6. EepromTypeOK' BY <2>2, <2>4 DEF EepromTypeOK
  <2>7. CallInside' BY <2>2, <2>3, <2>4, <2>5 DEF CallInside, Calls
  <2>8. PhaseInv' BY <2>2, <2>4 DEF PhaseInv, BusAtRest, Over
  <2>9. PacedInv' BY <2>2 DEF PacedInv, PhaseInv, BusAtRest, Over
  <2>10. BusInv' BY <2>2 DEF BusInv, PhaseInv, BusAtRest
  <2>11. ReadInv' BY <2>4 DEF ReadInv
  <2>12. WriteInv' BY <2>2 DEF WriteInv, PhaseInv, BusAtRest, Over
  <2> QED BY <2>6, <2>7, <2>8, <2>9, <2>10, <2>11, <2>12
<1> QED BY <1>1, <1>2 DEF Call

LEMMA EepromStutterInv ==
  ASSUME EepromInv, UNCHANGED eepromVars
  PROVE  EepromInv'
  BY DEF eepromVars, EepromInv, EepromTypeOK, CallInside, PhaseInv, BusAtRest, Over, PacedInv,
     BusInv, Latched, I2CWriteLength, ReadInv, Come, WriteInv, Landed

LEMMA EepromStepInv ==
  ASSUME EepromAssumption, EepromInv, [EepromNext]_eepromVars
  PROVE  EepromInv'
  BY StartInv, StartedInv, TimedOutInv, EndedInv, ReturnInv, Isr08Inv, Isr10Inv, Isr18Inv,
     Isr20Inv, Isr28Inv, Isr40Inv, Isr50Inv, Isr58Inv, ChipDoneInv, CallInv, EepromStutterInv
     DEF EepromNext, Driver, Isr

LEMMA EepromInvariant == EepromAssumption /\ EepromSpec => []EepromInv
<1> SUFFICES ASSUME EepromAssumption PROVE EepromSpec => []EepromInv OBVIOUS
<1>1. EepromInit => EepromInv BY EepromInitInv
<1>2. EepromInv /\ [EepromNext]_eepromVars => EepromInv' BY EepromStepInv
<1> QED BY <1>1, <1>2, PTL DEF EepromSpec

\* The variables of the driver of the EEPROM keep their types (I2C1_IRQHandler): no
\* index leaves the buffers of a transfer.
THEOREM EepromTypeCorrect == EepromAssumption /\ EepromSpec => []EepromTypeOK
<1>1. EepromInv => EepromTypeOK BY DEF EepromInv
<1> QED BY <1>1, EepromInvariant, PTL

\* Calls that return have done what they were asked to (EepromRead*, EepromWrite*), if
\* the callers wait for the chip or the task looks at the bus in time.
THEOREM CallsRightCorrect == EepromAssumption /\ InTime /\ EepromSpec => []CallsRight
<1> SUFFICES ASSUME EepromAssumption, InTime PROVE EepromSpec => []CallsRight OBVIOUS
<1>1. EepromInv => CallsRight
  <2> SUFFICES ASSUME EepromInv PROVE CallsRight OBVIOUS
  <2> USE DEF EepromInv
  <2>1. BusAtRest BY DEF PhaseInv
  <2>2. ReadRight BY DEF ReadRight, ReadInv, Come
  <2>3. Paced => WriteLands BY DEF WriteLands, WriteInv, Landed
  <2> QED BY <2>1, <2>2, <2>3 DEF CallsRight
<1> QED BY <1>1, EepromInvariant, PTL

LEMMA OnlyWritten ==
  ASSUME EepromAssumption, EepromInv, [EepromNext]_eepromVars
  PROVE  LeavesOthers
<1> SUFFICES ASSUME NEW i \in Addr, cells'[i] # cells[i]
             PROVE  call.kind = "write" /\ i >= call.addr /\ i < call.addr + Len(call.data)
  BY DEF LeavesOthers
<1> USE EepromConstants DEF EepromInv
<1>1. Isr28
  BY DEF EepromNext, eepromVars, memory, Driver, Isr, Call, EepromRead, EepromWrite, Start, Started,
     TimedOut, Ended, Return, Isr08, Isr10, Isr18, Isr20, Isr40, Isr50, Isr58, Received, ChipDone
<1>2. /\ fly = "data" /\ ~(WrIndex < I2CWriteLength) /\ I2CReadLength = 0 /\ ChipTakes
      /\ cells' = [j \in Addr |->
             IF j >= ptr' /\ j - ptr' < Len(latch') THEN latch'[j - ptr' + 1] ELSE cells[j]]
  BY <1>1 DEF Isr28, ByteTaken
<1>3. call.kind = "write" BY <1>2, CallFacts DEF I2CReadLength, PhaseInv, BusAtRest
<1>4. i >= ptr' /\ i - ptr' < Len(latch') BY <1>2
<1>5. /\ WrIndex = Header + Len(call.data) /\ Len(call.data) \in Nat /\ Len(call.data) >= 1
      /\ call.addr \in Nat /\ call.data \in Seq(Bytes)
  BY <1>2, <1>3, CallFacts DEF BusInv, I2CWriteLength, Header
<1>6. latch' = Append(latch, call.data[WrIndex - Header]) /\ ptr' = ptr /\ ptr = call.addr
  <2>1. WrIndex > Header /\ WrIndex > 2 BY <1>5 DEF Header
  <2> QED BY <1>2, <2>1 DEF ChipTakes, BusInv
<1>7. latch \in Seq(Bytes) /\ Len(latch) = Len(call.data) - 1
  <2>1. (IF WrIndex > Header THEN WrIndex - Header - 1 ELSE 0) = Len(call.data) - 1
    BY <1>5 DEF Header
  <2>2. Len(latch) = Len(call.data) - 1 BY <1>2, <2>1 DEF BusInv, Latched
  <2> QED BY <2>2 DEF EepromTypeOK
<1>8. Len(latch') = Len(call.data)
  <2>1. call.data[WrIndex - Header] \in Bytes BY <1>5 DEF Header
  <2> QED BY <1>5, <1>6, <1>7, <2>1
<1> QED BY <1>3, <1>4, <1>5, <1>6, <1>8 DEF Addr

\* A write changes the bytes it was told to and no other, and nothing else changes any
\* (I2C1_IRQHandler).
THEOREM OthersKeptCorrect == EepromAssumption /\ EepromSpec => OthersKept
<1> SUFFICES ASSUME EepromAssumption PROVE EepromSpec => OthersKept OBVIOUS
<1>1. EepromInv /\ [EepromNext]_eepromVars => [LeavesOthers]_eepromVars BY OnlyWritten
<1> QED BY <1>1, EepromInvariant, PTL DEF EepromSpec, OthersKept

(***************************************************************************)
(* The receive ring of a serial port.                                      *)
(***************************************************************************)

\* One of the readers, counted when it has been let in by the semaphore.
In(r) == IF r \in Readers /\ reader[r] = "granted" THEN 1 ELSE 0

AtSem(r) == r \in Readers /\ reader[r] = "pending"

\* The counter and the semaphore.  A reader waits only at a semaphore with nothing
\* to give; App_Task_1 goes there only for a character that is in the ring, so it
\* does not find FsmLedsTask waiting there, nor the other way round.
CountInv ==
    /\ sem <= coming
    /\ Clearing => /\ step \in {0, 1} => sem + In("app") <= stored
                   /\ step # 0 => reader["app"] = "sleep"
    /\ ~Clearing => /\ sem + In("app") + In("leds") = stored
                    /\ step = 0
                    /\ AtSem("app") \/ AtSem("leds") => sem = 0
                    /\ reader["app"] = "get" => stored > 0
                    /\ AtSem("app") => Testing /\ reader["leds"] \notin {"get", "pending"}

\* The place of the k-th character of the ring.
Place(k) == IF tail + k >= RxSize THEN tail + k - RxSize ELSE tail + k

\* Characters the readers have taken, on a port that is not cleared.
Gone == Len(accepted) - stored

\* The ring holds the last of the accepted characters; those before are shared out.
RingInv ==
    ~Clearing =>
        /\ Gone \in Nat
        /\ head = Place(stored)
        /\ \A k \in 0 .. stored - 1 : rx[Place(k)] = accepted[Gone + 1 + k]
        /\ \A j \in 1 .. Len(accepted) : accepted[j] \in 1 .. coming
        /\ \A j, k \in 1 .. Len(accepted) : j < k => accepted[j] < accepted[k]
        /\ \A r \in Readers : \A i \in 1 .. Len(taken[r]) :
               \E j \in 1 .. Gone : taken[r][i] = accepted[j]

RxInv == RxTypeOK /\ CountInv /\ RingInv /\ (~Clearing => Shared)

LEMMA RxConstants ==
  ASSUME SerialRxAssumption
  PROVE  /\ Testing \in BOOLEAN /\ Clearing \in BOOLEAN /\ (Clearing => ~Testing)
         /\ RxSize \in Nat /\ RxSize >= 1 /\ MaxIn \in Nat
  BY DEF SerialRxAssumption

LEMMA ReadersAre ==
  /\ "app" \in Readers
  /\ \A r \in Readers : r = "app" \/ (r = "leds" /\ Testing)
  /\ Testing => "leds" \in Readers
  /\ ~Testing => "leds" \notin Readers
  BY DEF Readers

\* The set counts as its two members do.
LEMMA GivenIs == Given = In("app") + In("leds")
<1> DEFINE G == {r \in Readers : reader[r] = "granted"}
<1>1. G \subseteq {"app", "leds"} BY ReadersAre
<1>2. "app" \in G <=> In("app") = 1 BY DEF In
<1>3. "leds" \in G <=> In("leds") = 1 BY DEF In
<1>4. In("app") \in {0, 1} /\ In("leds") \in {0, 1} BY DEF In
<1>5. Cardinality({}) = 0 /\ Cardinality({"app"}) = 1 /\ Cardinality({"leds"}) = 1
  BY FS_EmptySet, FS_Singleton
<1>6. Cardinality({"app", "leds"}) = 2
  <2>1. IsFiniteSet({"app"}) /\ "leds" \notin {"app"} BY FS_Singleton
  <2>2. Cardinality({"app"} \cup {"leds"}) = 2 BY <1>5, <2>1, FS_AddElement
  <2>3. {"app"} \cup {"leds"} = {"app", "leds"} OBVIOUS
  <2> QED BY <2>2, <2>3
<1>7. G = {} \/ G = {"app"} \/ G = {"leds"} \/ G = {"app", "leds"} BY <1>1
<1>8. Cardinality(G) = In("app") + In("leds")
  <2>1. CASE G = {} BY <1>2, <1>3, <1>4, <1>5, <2>1
  <2>2. CASE G = {"app"} BY <1>2, <1>3, <1>4, <1>5, <2>2
  <2>3. CASE G = {"leds"} BY <1>2, <1>3, <1>4, <1>5, <2>3
  <2>4. CASE G = {"app", "leds"} BY <1>2, <1>3, <1>4, <1>6, <2>4
  <2> QED BY <1>7, <2>1, <2>2, <2>3, <2>4
<1> QED BY <1>8 DEF Given

LEMMA RxInitInv == SerialRxAssumption /\ RxInit => RxInv
<1> SUFFICES ASSUME SerialRxAssumption, RxInit PROVE RxInv OBVIOUS
<1> USE RxConstants, ReadersAre DEF RxInit
<1>1. RxTypeOK BY DEF RxTypeOK, States
<1>2. CountInv BY DEF CountInv, In, AtSem
<1>3. RingInv BY DEF RingInv, Gone, Place
<1>4. Shared BY DEF Shared
<1> QED BY <1>1, <1>2, <1>3, <1>4 DEF RxInv

\* Steps that leave the ring alone.
LEMMA RingRests ==
  ASSUME RxInv, UNCHANGED <<rx, head, tail, stored, taken, accepted>>, coming' = coming
  PROVE  RingInv' /\ (~Clearing => Shared)'
  BY DEF RxInv, RingInv, Shared, Gone, Place

LEMMA WakeInv ==
  ASSUME SerialRxAssumption, RxInv, NEW r \in Readers, Wake(r)
  PROVE  RxInv'
<1> USE RxConstants, ReadersAre DEF RxInv, Wake, MayRun, Waits, ring
<1>1. RxTypeOK' BY DEF RxTypeOK, States
<1>2. CountInv' BY DEF CountInv, In, AtSem, RxTypeOK, States
<1>3. RingInv' /\ (~Clearing => Shared)' BY RingRests
<1> QED BY <1>1, <1>2, <1>3

LEMMA CheckInv ==
  ASSUME SerialRxAssumption, RxInv, NEW r \in Readers, Check(r)
  PROVE  RxInv'
<1> USE RxConstants, ReadersAre DEF RxInv, Check, MayRun, Waits, ring
<1>1. RxTypeOK' BY DEF RxTypeOK, States
<1>2. CountInv' BY DEF CountInv, In, AtSem, RxTypeOK, States
<1>3. RingInv' /\ (~Clearing => Shared)' BY RingRests
<1> QED BY <1>1, <1>2, <1>3

LEMMA GiveUpInv ==
  ASSUME SerialRxAssumption, RxInv, NEW r \in Readers, GiveUp(r)
  PROVE  RxInv'
<1> USE RxConstants, ReadersAre DEF RxInv, GiveUp, MayRun, Waits, ring
<1>1. RxTypeOK' BY DEF RxTypeOK, States
<1>2. CountInv' BY DEF CountInv, In, AtSem, RxTypeOK, States
<1>3. RingInv' /\ (~Clearing => Shared)' BY RingRests
<1> QED BY <1>1, <1>2, <1>3

LEMMA PendInv ==
  ASSUME SerialRxAssumption, RxInv, NEW r \in Readers, Pend(r)
  PROVE  RxInv'
<1> USE RxConstants, ReadersAre DEF RxInv
<1>1. /\ MayRun(r) /\ reader[r] = "get" /\ UNCHANGED <<rx, head, tail, stored, taken, coming, accepted, step>>
      /\ IF sem > 0
           THEN sem' = sem - 1 /\ reader' = [reader EXCEPT ![r] = "granted"]
           ELSE sem' = sem /\ reader' = [reader EXCEPT ![r] = "pending"]
  BY DEF Pend, ring
<1>2. sem \in 0 .. MaxIn /\ reader \in [Readers -> States] BY DEF RxTypeOK
<1>3. RxTypeOK'
  <2>1. sem' \in 0 .. MaxIn BY <1>1, <1>2
  <2>2. reader' \in [Readers -> States] BY <1>1, <1>2 DEF States
  <2> QED BY <1>1, <2>1, <2>2 DEF RxTypeOK
<1>4. CountInv'
  <2>1. CASE sem > 0 BY <1>1, <1>2, <2>1, SMTT(30) DEF CountInv, In, AtSem, RxTypeOK, States
  <2>2. CASE ~(sem > 0) BY <1>1, <1>2, <2>2, SMTT(30) DEF CountInv, In, AtSem, RxTypeOK, States, MayRun
  <2> QED BY <2>1, <2>2
<1>5. RingInv' /\ (~Clearing => Shared)' BY <1>1, RingRests
<1> QED BY <1>3, <1>4, <1>5

LEMMA TimeoutInv ==
  ASSUME SerialRxAssumption, RxInv, NEW r \in Readers, Timeout(r)
  PROVE  RxInv'
<1> USE RxConstants, ReadersAre DEF RxInv, Timeout, MayRun, Waits, ring
<1>1. RxTypeOK' BY DEF RxTypeOK, States
<1>2. CountInv' BY DEF CountInv, In, AtSem, RxTypeOK, States
<1>3. RingInv' /\ (~Clearing => Shared)' BY RingRests
<1> QED BY <1>1, <1>2, <1>3

LEMMA GetBuffInv ==
  ASSUME SerialRxAssumption, RxInv, GetBuff
  PROVE  RxInv'
<1> USE RxConstants, ReadersAre DEF RxInv, GetBuff, MayRun, Waits, ring
<1>1. RxTypeOK' BY DEF RxTypeOK, States
<1>2. CountInv' BY DEF CountInv, In, AtSem, RxTypeOK, States
<1>3. RingInv' /\ (~Clearing => Shared)' BY RingRests
<1> QED BY <1>1, <1>2, <1>3

LEMMA ClearInv ==
  ASSUME SerialRxAssumption, RxInv, Clear
  PROVE  RxInv'
<1> USE RxConstants, ReadersAre DEF RxInv, Clear, MayRun, Waits, ring
<1>1. RxTypeOK' BY DEF RxTypeOK, States
<1>2. CountInv' BY DEF CountInv, In, AtSem, RxTypeOK, States
<1>3. RingInv' /\ (~Clearing => Shared)' BY RingRests
<1> QED BY <1>1, <1>2, <1>3

LEMMA ClearStepInv ==
  ASSUME SerialRxAssumption, RxInv, ClearStep
  PROVE  RxInv'
<1> USE RxConstants, ReadersAre DEF RxInv, ClearStep, ring
<1>1. Clearing /\ step \in 1 .. 4 BY DEF CountInv, RxTypeOK
<1>2. /\ stored' = IF step = 1 THEN 0 ELSE stored
      /\ head' = IF step = 2 THEN 0 ELSE head
      /\ tail' = IF step = 3 THEN 0 ELSE tail
      /\ sem' = IF step = 4 THEN 0 ELSE sem
      /\ step' = IF step = 4 THEN 0 ELSE step + 1
  BY <1>1 DEF ClearOrder
<1>3. RxTypeOK' BY <1>1, <1>2 DEF RxTypeOK
<1>4. CountInv' BY <1>1, <1>2 DEF CountInv, In, AtSem, RxTypeOK
<1>5. RingInv' /\ (~Clearing => Shared)' BY <1>1 DEF RingInv
<1> QED BY <1>3, <1>4, <1>5

\* The steps round the ring.
LEMMA PlaceTypes ==
  ASSUME SerialRxAssumption, RxTypeOK, NEW k \in 0 .. RxSize
  PROVE  Place(k) \in 0 .. RxSize - 1
  BY RxConstants DEF Place, RxTypeOK

LEMMA PlacesDiffer ==
  ASSUME SerialRxAssumption, RxTypeOK, NEW j \in 0 .. RxSize, NEW k \in 0 .. RxSize,
         j < k, k - j < RxSize
  PROVE  Place(j) # Place(k)
<1>1. tail \in 0 .. RxSize - 1 /\ RxSize \in Nat BY RxConstants DEF RxTypeOK
<1>2. j \in 0 .. RxSize /\ k \in 0 .. RxSize /\ j < k /\ k - j < RxSize OBVIOUS
<1> QED BY ONLY <1>1, <1>2 DEF Place

LEMMA ReceiveInv ==
  ASSUME SerialRxAssumption, RxInv, Receive
  PROVE  RxInv'
<1> USE RxConstants, ReadersAre DEF RxInv
<1>0. RxTypeOK OBVIOUS
<1>1. /\ coming < MaxIn /\ coming' = coming + 1 /\ coming \in Nat /\ coming' \in 0 .. MaxIn
      /\ UNCHANGED <<tail, taken, step>>
  BY DEF Receive, RxTypeOK
<1>2. CASE ~Room
  <2>1. UNCHANGED <<ring, sem, reader, accepted>> BY <1>2 DEF Receive
  <2>2. RxTypeOK' BY <1>1, <2>1 DEF RxTypeOK, ring
  <2>3. CountInv' BY <1>1, <2>1 DEF CountInv, In, AtSem, ring, RxTypeOK
  <2>4. RingInv' /\ (~Clearing => Shared)'
    BY <1>1, <2>1 DEF RingInv, Shared, Gone, Place, ring
  <2> QED BY <2>2, <2>3, <2>4
<1>3. CASE Room
  <2>1. /\ stored < RxSize /\ stored' = stored + 1
        /\ rx' = [rx EXCEPT ![head] = coming + 1] /\ head' = Succ(head)
        /\ accepted' = Append(accepted, coming + 1)
        /\ IF Pending = {}
             THEN sem' = sem + 1 /\ reader' = reader
             ELSE /\ sem' = sem
                  /\ reader' = [r \in Readers |-> IF r \in Pending THEN "granted" ELSE reader[r]]
    BY <1>3 DEF Receive, Room
  <2>2. /\ Pending = {} => reader' = reader
        /\ \A r \in Readers : reader'[r] = IF AtSem(r) THEN "granted" ELSE reader[r]
        /\ reader' \in [Readers -> States]
        /\ Pending # {} <=> AtSem("app") \/ AtSem("leds")
    BY <2>1 DEF Pending, AtSem, RxTypeOK, States
  <2>3. RxTypeOK'
    <3>1. head' \in 0 .. RxSize - 1 BY <2>1 DEF RxTypeOK, Succ
    <3>2. rx' \in [0 .. RxSize - 1 -> 0 .. MaxIn] BY <1>1, <2>1 DEF RxTypeOK
    <3>3. accepted' \in Seq(0 .. MaxIn) BY <1>1, <2>1 DEF RxTypeOK
    <3>4. sem' \in 0 .. MaxIn BY <1>1, <2>1 DEF RxTypeOK, CountInv
    <3>5. stored' \in 0 .. RxSize BY <2>1 DEF RxTypeOK
    <3> QED BY ONLY <1>0, <1>1, <2>2, <3>1, <3>2, <3>3, <3>4, <3>5 DEF RxTypeOK
  <2>4. CountInv'
    <3>1. sem' <= coming' BY <1>1, <2>1 DEF CountInv, RxTypeOK
    <3>2. CASE Pending = {}
      BY <1>1, <2>1, <2>2, <3>1, <3>2 DEF CountInv, In, AtSem, RxTypeOK
    <3>3. CASE Pending # {}
      <4>1. /\ sem' = sem /\ stored' = stored + 1 /\ step' = step /\ sem \in Nat /\ stored \in Nat
            /\ In("app") \in {0, 1} /\ In("leds") \in {0, 1}
        BY <1>1, <2>1, <3>3 DEF RxTypeOK, In
      <4>2. /\ reader'["app"] = IF reader["app"] = "pending" THEN "granted" ELSE reader["app"]
            /\ Testing => reader'["leds"] = IF reader["leds"] = "pending" THEN "granted" ELSE reader["leds"]
            /\ ~AtSem("app")' /\ ~AtSem("leds")'
        BY <2>2 DEF AtSem
      <4>3. /\ In("app")' = In("app") + (IF AtSem("app") THEN 1 ELSE 0)
            /\ In("leds")' = In("leds") + (IF AtSem("leds") THEN 1 ELSE 0)
        BY <4>2 DEF In, AtSem
      <4>4. Clearing => ~AtSem("leds") BY DEF AtSem
      <4>5. ~Clearing => ~(AtSem("app") /\ AtSem("leds")) BY DEF CountInv, AtSem
      <4>6. AtSem("app") \/ AtSem("leds") BY <2>2, <3>3
      <4>7. /\ Clearing => /\ step' \in {0, 1} => sem' + In("app")' <= stored'
                           /\ step' # 0 => reader'["app"] = "sleep"
        BY <4>1, <4>2, <4>3, <4>4 DEF CountInv
      <4>8. ~Clearing => sem' + In("app")' + In("leds")' = stored' /\ step' = 0
        BY <4>1, <4>3, <4>5, <4>6 DEF CountInv
      <4>9. ~Clearing /\ reader'["app"] = "get" => stored' > 0 BY <4>1
      <4> QED BY <3>1, <4>2, <4>7, <4>8, <4>9 DEF CountInv
    <3> QED BY <3>2, <3>3
  <2>5. ASSUME ~Clearing PROVE RingInv' /\ Shared'
    <3> DEFINE m == Len(accepted)
    <3>1. /\ m \in Nat /\ accepted \in Seq(0 .. MaxIn) /\ stored \in Nat /\ Gone \in Nat
          /\ m = Gone + stored /\ head = Place(stored) /\ RxSize \in Nat
      BY <2>5 DEF RingInv, Gone, RxTypeOK
    <3>2. /\ Len(accepted') = m + 1 /\ accepted'[m + 1] = coming + 1
          /\ \A j \in 1 .. m : accepted'[j] = accepted[j]
      BY <1>1, <2>1, <3>1
    <3>3. Gone' = Gone BY <2>1, <3>1, <3>2 DEF Gone
    <3>4. \A k \in Nat : Place(k)' = Place(k) BY <1>1 DEF Place
    <3>5. head' = Place(stored')
      BY <2>1, <3>1, <1>1 DEF Place, Succ, RxTypeOK
    <3>6. ASSUME NEW k \in 0 .. stored' - 1 PROVE rx'[Place(k)'] = accepted'[Gone' + 1 + k]
      <4>1. CASE k = stored
        <5>1. rx'[head] = coming + 1 BY <2>1 DEF RxTypeOK
        <5> QED BY <3>1, <3>2, <3>3, <3>4, <4>1, <5>1
      <4>2. CASE k # stored
        <5>1. k \in 0 .. stored - 1 BY <2>1, <3>1, <3>6, <4>2
        <5>a. k \in 0 .. RxSize /\ stored \in 0 .. RxSize /\ k < stored /\ stored - k < RxSize
          BY <2>1, <3>1, <5>1
        <5>2. Place(k) # Place(stored) BY <5>a, PlacesDiffer
        <5>3. Place(k) \in 0 .. RxSize - 1 BY <5>a, PlaceTypes
        <5>4. rx'[Place(k)] = rx[Place(k)] BY <2>1, <3>1, <5>2, <5>3 DEF RxTypeOK
        <5>5. rx[Place(k)] = accepted[Gone + 1 + k] BY <2>5, <5>1 DEF RingInv
        <5>6. Gone + 1 + k \in 1 .. m BY <3>1, <5>1
        <5> QED BY <3>2, <3>3, <3>4, <5>1, <5>4, <5>5, <5>6
      <4> QED BY <4>1, <4>2
    <3>7. \A j \in 1 .. Len(accepted') : accepted'[j] \in 1 .. coming'
      <4>1. SUFFICES ASSUME NEW j \in 1 .. m + 1 PROVE accepted'[j] \in 1 .. coming + 1
        BY <1>1, <3>2
      <4>2. CASE j = m + 1 BY <1>1, <3>2, <4>2
      <4>3. CASE j # m + 1
        <5>1. j \in 1 .. m BY <3>1, <4>3
        <5>2. accepted[j] \in 1 .. coming BY <2>5, <5>1 DEF RingInv
        <5> QED BY <1>1, <3>2, <5>1, <5>2
      <4> QED BY <4>2, <4>3
    <3>8. \A j, k \in 1 .. Len(accepted') : j < k => accepted'[j] < accepted'[k]
      <4>1. SUFFICES ASSUME NEW j \in 1 .. m + 1, NEW k \in 1 .. m + 1, j < k
                     PROVE  accepted'[j] < accepted'[k]
        BY <3>2
      <4>2. j \in 1 .. m BY <3>1, <4>1
      <4>3. CASE k = m + 1
        <5>1. accepted[j] \in 1 .. coming BY <2>5, <4>2 DEF RingInv
        <5> QED BY <1>1, <3>2, <4>2, <4>3, <5>1
      <4>4. CASE k # m + 1
        <5>1. k \in 1 .. m BY <3>1, <4>4
        <5> QED BY <2>5, <3>2, <4>1, <4>2, <5>1 DEF RingInv
      <4> QED BY <4>3, <4>4
    <3>9. ASSUME NEW r \in Readers, NEW i \in 1 .. Len(taken'[r])
          PROVE  \E j \in 1 .. Gone' : taken'[r][i] = accepted'[j]
      <4>1. PICK j \in 1 .. Gone : taken[r][i] = accepted[j] BY <1>1, <2>5, <3>9 DEF RingInv
      <4>2. j \in 1 .. m BY <3>1, <4>1
      <4> QED BY <1>1, <3>2, <3>3, <4>1, <4>2
    <3>10. RingInv'
      <4>1. \A k \in 0 .. stored' - 1 : rx'[Place(k)'] = accepted'[Gone' + 1 + k] BY <3>6
      <4>2. \A r \in Readers : \A i \in 1 .. Len(taken'[r]) :
                \E j \in 1 .. Gone' : taken'[r][i] = accepted'[j]
        BY <3>9
      <4>3. Gone' \in Nat /\ head' = Place(stored)' BY <1>1, <3>1, <3>3, <3>5 DEF Place
      <4> QED BY <3>7, <3>8, <4>1, <4>2, <4>3 DEF RingInv
    <3>11. Shared'
      <4>1. \A r \in Readers : \A i \in 1 .. Len(taken'[r]) :
                \E j \in 1 .. Len(accepted') : taken'[r][i] = accepted'[j]
        <5>1. SUFFICES ASSUME NEW r \in Readers, NEW i \in 1 .. Len(taken'[r])
                       PROVE  \E j \in 1 .. Len(accepted') : taken'[r][i] = accepted'[j]
          OBVIOUS
        <5>2. PICK j \in 1 .. Gone' : taken'[r][i] = accepted'[j] BY <3>9
        <5>3. j \in 1 .. Len(accepted') BY <3>1, <3>2, <3>3, <5>2
        <5> QED BY <5>2, <5>3
      <4>2. Shared BY <2>5
      <4> QED BY <1>1, <4>1, <4>2 DEF Shared
    <3> QED BY <3>10, <3>11
  <2> QED BY <2>3, <2>4, <2>5 DEF RingInv
<1> QED BY <1>2, <1>3

LEMMA TakeInv ==
  ASSUME SerialRxAssumption, RxInv, NEW r \in Readers, Take(r)
  PROVE  RxInv'
<1> USE RxConstants, ReadersAre DEF RxInv
<1>0. RxTypeOK OBVIOUS
<1>1. /\ MayRun(r) /\ reader[r] = "granted" /\ step = 0
      /\ stored' = stored - 1 /\ tail' = Succ(tail)
      /\ taken' = [taken EXCEPT ![r] = Append(@, rx[tail])]
      /\ \/ reader' = [reader EXCEPT ![r] = "check"]
         \/ Clearing /\ reader' = [reader EXCEPT ![r] = "get"]
      /\ UNCHANGED <<rx, head, sem, coming, accepted, step>>
  BY DEF Take, MayRun
<1>2. stored >= 1 /\ stored \in 1 .. RxSize /\ tail \in 0 .. RxSize - 1
  BY <1>1 DEF CountInv, In, RxTypeOK
<1>3. RxTypeOK'
  <2>1. rx[tail] \in 0 .. MaxIn BY DEF RxTypeOK
  <2>2. taken' \in [Readers -> Seq(0 .. MaxIn)] BY <1>1, <2>1 DEF RxTypeOK
  <2>3. tail' \in 0 .. RxSize - 1 BY <1>1, <1>2 DEF Succ
  <2>4. reader' \in [Readers -> States] BY <1>1 DEF RxTypeOK, States
  <2>5. stored' \in 0 .. RxSize BY <1>1, <1>2
  <2> QED BY ONLY <1>0, <1>1, <2>2, <2>3, <2>4, <2>5 DEF RxTypeOK
<1>4. CountInv' BY <1>1, <1>2 DEF CountInv, In, AtSem, RxTypeOK, States, MayRun
<1>5. ASSUME ~Clearing PROVE RingInv' /\ Shared'
  <2> DEFINE m == Len(accepted)
  <2>1. /\ m \in Nat /\ accepted \in Seq(0 .. MaxIn) /\ stored \in Nat /\ Gone \in Nat
        /\ m = Gone + stored /\ head = Place(stored) /\ RxSize \in Nat
    BY <1>5 DEF RingInv, Gone, RxTypeOK
  <2>2. Gone' = Gone + 1 /\ Gone' \in 1 .. m BY <1>1, <1>2, <2>1 DEF Gone
  <2>3. ASSUME NEW k \in 0 .. RxSize - 1 PROVE Place(k)' = Place(k + 1)
    BY <1>1, <1>2, <2>1 DEF Place, Succ
  <2>4. rx[tail] = accepted[Gone']
    <3>1. Place(0) = tail BY <1>2, <2>1 DEF Place
    <3>2. rx[Place(0)] = accepted[Gone + 1 + 0] BY <1>2, <1>5 DEF RingInv
    <3> QED BY <2>1, <2>2, <3>1, <3>2
  <2>5. head' = Place(stored)' BY <1>1, <1>2, <2>1, <2>3
  <2>6. ASSUME NEW k \in 0 .. stored' - 1 PROVE rx'[Place(k)'] = accepted'[Gone' + 1 + k]
    <3>1. k \in 0 .. RxSize - 1 /\ k + 1 \in 0 .. stored - 1 BY <1>1, <1>2, <2>1
    <3>2. rx[Place(k + 1)] = accepted[Gone + 1 + (k + 1)] BY <1>5, <3>1 DEF RingInv
    <3>3. Gone' + 1 + k = Gone + 1 + (k + 1) BY <2>1, <2>2
    <3>4. Place(k)' = Place(k + 1) BY <2>3, <3>1
    <3> QED BY <1>1, <3>2, <3>3, <3>4
  <2>7. ASSUME NEW s \in Readers
        PROVE  /\ taken[s] \in Seq(0 .. MaxIn) /\ Len(taken[s]) \in Nat
               /\ s # r => taken'[s] = taken[s]
               /\ s = r => /\ Len(taken'[s]) = Len(taken[s]) + 1
                           /\ \A i \in 1 .. Len(taken[s]) : taken'[s][i] = taken[s][i]
                           /\ taken'[s][Len(taken[s]) + 1] = accepted[Gone']
    <3>1. taken[s] \in Seq(0 .. MaxIn) /\ rx[tail] \in 0 .. MaxIn BY DEF RxTypeOK
    <3>2. taken'[s] = IF s = r THEN Append(taken[s], rx[tail]) ELSE taken[s]
      BY <1>1 DEF RxTypeOK
    <3> QED BY <2>4, <3>1, <3>2
  <2>a. ASSUME NEW s \in Readers, NEW i \in 1 .. Len(taken'[s]), i \notin 1 .. Len(taken[s])
        PROVE  s = r /\ i = Len(taken[s]) + 1 /\ taken'[s][i] = accepted[Gone']
    <3>1. s = r BY <2>7, <2>a
    <3>2. Len(taken'[s]) = Len(taken[s]) + 1 /\ Len(taken[s]) \in Nat BY <2>7, <3>1
    <3>3. i = Len(taken[s]) + 1 BY <2>a, <3>2
    <3> QED BY <2>7, <3>1, <3>3
  \* What was taken before is less than what is taken now.
  <2>8. ASSUME NEW s \in Readers, NEW i \in 1 .. Len(taken[s])
        PROVE  (\E j \in 1 .. Gone : taken[s][i] = accepted[j]) /\ taken[s][i] < accepted[Gone']
    <3>1. PICK j \in 1 .. Gone : taken[s][i] = accepted[j] BY <1>5, <2>8 DEF RingInv
    <3>2. j \in 1 .. m /\ j < Gone' BY <2>1, <2>2, <3>1
    <3>3. accepted[j] < accepted[Gone'] BY <1>5, <2>2, <3>2 DEF RingInv
    <3> QED BY <3>1, <3>3
  <2>9. ASSUME NEW s \in Readers, NEW i \in 1 .. Len(taken'[s])
        PROVE  \E j \in 1 .. Gone' : taken'[s][i] = accepted[j]
    <3>1. CASE i \in 1 .. Len(taken[s])
      <4>1. taken'[s][i] = taken[s][i] BY <2>7, <3>1
      <4>2. PICK j \in 1 .. Gone : taken[s][i] = accepted[j] BY <2>8, <3>1
      <4> QED BY <2>1, <2>2, <4>1, <4>2
    <3>2. CASE i \notin 1 .. Len(taken[s])
      <4>1. taken'[s][i] = accepted[Gone'] BY <2>a, <3>2
      <4> QED BY <2>2, <4>1
    <3> QED BY <3>1, <3>2
  <2>10. RingInv'
    <3>1. \A k \in 0 .. stored' - 1 : rx'[Place(k)'] = accepted'[Gone' + 1 + k] BY <2>6
    <3>2. \A s \in Readers : \A i \in 1 .. Len(taken'[s]) :
              \E j \in 1 .. Gone' : taken'[s][i] = accepted'[j]
      BY <1>1, <2>9
    <3>3. /\ \A j \in 1 .. Len(accepted') : accepted'[j] \in 1 .. coming'
          /\ \A j, k \in 1 .. Len(accepted') : j < k => accepted'[j] < accepted'[k]
      BY <1>1, <1>5 DEF RingInv
    <3>4. Gone' \in Nat BY <2>1, <2>2
    <3> QED BY <2>5, <3>1, <3>2, <3>3, <3>4 DEF RingInv
  <2>11. Shared'
    <3>1. \A s \in Readers : \A i \in 1 .. Len(taken'[s]) :
              \E j \in 1 .. Len(accepted') : taken'[s][i] = accepted'[j]
      <4>1. SUFFICES ASSUME NEW s \in Readers, NEW i \in 1 .. Len(taken'[s])
                     PROVE  \E j \in 1 .. Len(accepted') : taken'[s][i] = accepted'[j]
        OBVIOUS
      <4>2. PICK j \in 1 .. Gone' : taken'[s][i] = accepted[j] BY <2>9
      <4>3. j \in 1 .. Len(accepted') BY <1>1, <2>1, <2>2, <4>2
      <4> QED BY <1>1, <4>2, <4>3
    <3>2. ASSUME NEW s \in Readers, NEW i \in 1 .. Len(taken'[s]), NEW j \in 1 .. Len(taken'[s]),
                 i < j
          PROVE  taken'[s][i] < taken'[s][j]
      <4>0. i \in Nat /\ j \in Nat /\ 1 <= i /\ i < j /\ j <= Len(taken'[s])
            /\ Len(taken'[s]) \in {Len(taken[s]), Len(taken[s]) + 1} /\ Len(taken[s]) \in Nat
        <5>1. Len(taken'[s]) \in {Len(taken[s]), Len(taken[s]) + 1} /\ Len(taken[s]) \in Nat
          BY <2>7
        <5> QED BY <3>2, <5>1
      <4>a. i \in 1 .. Len(taken[s]) BY ONLY <4>0
      <4>1. i \in 1 .. Len(taken[s]) /\ taken'[s][i] = taken[s][i] BY <2>7, <4>a
      <4>2. CASE j \in 1 .. Len(taken[s])
        <5>1. taken'[s][j] = taken[s][j] BY <2>7, <4>2
        <5> QED BY <1>5, <3>2, <4>1, <4>2, <5>1 DEF Shared
      <4>3. CASE j \notin 1 .. Len(taken[s])
        <5>1. taken'[s][j] = accepted[Gone'] BY <2>a, <4>3
        <5> QED BY <2>8, <4>1, <5>1
      <4> QED BY <4>2, <4>3
    <3>3. ASSUME NEW s \in Readers, NEW t \in Readers \ {s}, NEW i \in 1 .. Len(taken'[s]),
                 NEW j \in 1 .. Len(taken'[t])
          PROVE  taken'[s][i] # taken'[t][j]
      <4>1. CASE s = r /\ i \notin 1 .. Len(taken[s])
        <5>1. taken'[s][i] = accepted[Gone'] BY <2>a, <4>1
        <5>2. taken'[t] = taken[t] BY <2>7, <3>3, <4>1
        <5>3. taken[t][j] < accepted[Gone'] BY <2>8, <3>3, <5>2
        <5>4. taken[t][j] \in Int BY <2>7, <3>3, <5>2
        <5> QED BY <5>1, <5>2, <5>3, <5>4
      <4>2. CASE t = r /\ j \notin 1 .. Len(taken[t])
        <5>1. taken'[t][j] = accepted[Gone'] BY <2>a, <4>2
        <5>2. taken'[s] = taken[s] BY <2>7, <3>3, <4>2
        <5>3. taken[s][i] < accepted[Gone'] BY <2>8, <3>3, <5>2
        <5>4. taken[s][i] \in Int BY <2>7, <3>3, <5>2
        <5> QED BY <5>1, <5>2, <5>3, <5>4
      <4>3. CASE i \in 1 .. Len(taken[s]) /\ j \in 1 .. Len(taken[t])
        <5>1. taken'[s][i] = taken[s][i] /\ taken'[t][j] = taken[t][j] BY <2>7, <4>3
        <5> QED BY <1>5, <4>3, <5>1 DEF Shared
      <4> QED BY <2>7, <3>3, <4>1, <4>2, <4>3
    <3> QED BY <3>1, <3>2, <3>3 DEF Shared
  <2> QED BY <2>10, <2>11
<1> QED BY <1>3, <1>4, <1>5 DEF RingInv

LEMMA RxStutterInv ==
  ASSUME RxInv, UNCHANGED rxVars
  PROVE  RxInv'
  BY DEF rxVars, ring, RxInv, RxTypeOK, CountInv, In, AtSem, RingInv, Gone, Place, Shared

LEMMA RxInvariant == SerialRxAssumption /\ RxSpec => []RxInv
<1> SUFFICES ASSUME SerialRxAssumption PROVE RxSpec => []RxInv OBVIOUS
<1>1. RxInit => RxInv BY RxInitInv
<1>2. RxInv /\ [RxNext]_rxVars => RxInv'
  BY WakeInv, CheckInv, GiveUpInv, PendInv, TimeoutInv, GetBuffInv, ClearInv, ClearStepInv,
     ReceiveInv, TakeInv, RxStutterInv
     DEF RxNext, Read
<1> QED BY <1>1, <1>2, PTL DEF RxSpec

\* The variables of the receive ring keep their types (CommPutRxChar, CommGetChar,
\* CommInit): its counter stays within the ring and its pointers too.
THEOREM RxTypeCorrect == SerialRxAssumption /\ RxSpec => []RxTypeOK
<1>1. RxInv => RxTypeOK BY DEF RxInv
<1> QED BY <1>1, RxInvariant, PTL

\* A reader let in by the semaphore finds a character, and each character goes to one
\* reader, once and in order (CommPutRxChar, CommGetChar, CommInit).
THEOREM EachOnceCorrect == SerialRxAssumption /\ RxSpec => []EachOnce
<1> SUFFICES ASSUME SerialRxAssumption PROVE RxSpec => []EachOnce OBVIOUS
<1>1. RxInv => EachOnce
  <2> SUFFICES ASSUME RxInv PROVE EachOnce OBVIOUS
  <2>1. Clearing => In("leds") = 0 BY RxConstants, ReadersAre DEF In
  <2>2. In("app") \in {0, 1} /\ In("leds") \in {0, 1} BY DEF In
  <2>3. sem \in Nat /\ stored \in Nat BY RxConstants DEF RxInv, RxTypeOK
  <2>4. Clearing => Covered BY <2>1, <2>2, <2>3, GivenIs DEF Covered, RxInv, CountInv
  <2>5. ~Clearing => Agree BY <2>2, <2>3, GivenIs DEF Agree, RxInv, CountInv
  <2> QED BY <2>4, <2>5 DEF EachOnce, Promised, RxInv
<1> QED BY <1>1, RxInvariant, PTL

(***************************************************************************)
(* The transmit ring of a serial port.                                     *)
(***************************************************************************)

\* The transmitter is busy exactly while it has a character or an interrupt to come;
\* and the ring is either full of characters, old and new, or has not been round yet.
TxInv ==
    /\ txIn \in 0 .. TxSize - 1 /\ txOut \in 0 .. TxSize - 1 /\ waiting \in Nat
    /\ tx \in [0 .. TxSize - 1 -> Char \cup {None}]
    /\ put \in [Writers -> 0 .. MaxPut]
    /\ sending \in BOOLEAN /\ irq \in BOOLEAN
    /\ \A w \in Writers : writer[w] # "idle" => put[w] < MaxPut
    /\ writer \in [Writers -> {"idle", "pending", "granted"}]
    /\ sending <=> thr # None \/ irq
    /\ irq => thr = None
    /\ ~sending => waiting = 0
    /\ \/ \A i \in 0 .. TxSize - 1 : tx[i] # None
       \/ txOut + waiting = txIn /\ \A i \in 0 .. txIn - 1 : tx[i] # None

LEMMA TxConstants == SerialTxAssumption => TxSize \in Nat /\ TxSize >= 1 /\ MaxPut \in Nat
  BY DEF SerialTxAssumption

LEMMA NotNone == \A a, b : <<a, b>> # None
  BY DEF None

LEMMA TxInitInv == SerialTxAssumption /\ TxInit => TxInv
<1> SUFFICES ASSUME SerialTxAssumption, TxInit PROVE TxInv OBVIOUS
<1>1. tx \in [0 .. TxSize - 1 -> Char \cup {None}] BY DEF TxInit
<1>2. ~sending /\ ~irq /\ thr = None /\ sending \in BOOLEAN /\ irq \in BOOLEAN BY DEF TxInit
<1>3. /\ txIn = 0 /\ txOut = 0 /\ waiting = 0 /\ put \in [Writers -> 0 .. MaxPut]
      /\ writer \in [Writers -> {"idle", "pending", "granted"}]
      /\ \A w \in Writers : writer[w] = "idle"
  BY TxConstants DEF TxInit
<1> QED BY TxConstants, <1>1, <1>2, <1>3 DEF TxInv

LEMMA PostTypes ==
  ASSUME NEW p \in [Writers -> {"idle", "pending", "granted"}], Post(p), TxInv,
         \A w \in Writers : p[w] # "idle" => put'[w] < MaxPut,
         \A w \in Writers : writer[w] = "pending" => put'[w] < MaxPut
  PROVE  /\ writer' \in [Writers -> {"idle", "pending", "granted"}]
         /\ \A w \in Writers : writer'[w] # "idle" => put'[w] < MaxPut
  BY DEF Post, TxPending, TxInv

LEMMA TxPendInv ==
  ASSUME SerialTxAssumption, TxInv, NEW w \in Writers, TxPend(w)
  PROVE  TxInv'
  BY TxConstants DEF TxInv, TxPend, txRing, hard

LEMMA SendInv ==
  ASSUME SerialTxAssumption, TxInv, Send
  PROVE  TxInv'
  BY TxConstants DEF TxInv, Send, txRing

LEMMA InterruptInv ==
  ASSUME SerialTxAssumption, TxInv, Interrupt
  PROVE  TxInv'
<1> USE TxConstants
<1>1. irq /\ ~irq' /\ thr = None /\ sending /\ UNCHANGED <<tx, txIn, put, wire>>
  BY DEF Interrupt, TxInv
<1>2. CASE NonEmpty
  <2>1. /\ waiting > 0 /\ waiting' = waiting - 1 /\ txOut' = Advance(txOut) /\ thr' = tx[txOut]
        /\ Post(writer) /\ sending' = sending
    BY <1>2 DEF Interrupt, NonEmpty
  <2>2. tx[txOut] # None BY <2>1 DEF TxInv
  <2>3. txOut' \in 0 .. TxSize - 1 BY <2>1 DEF Advance, TxInv
  <2>4. \/ \A i \in 0 .. TxSize - 1 : tx[i] # None
        \/ txOut' + waiting' = txIn /\ \A i \in 0 .. txIn - 1 : tx[i] # None
    BY <2>1 DEF Advance, TxInv
  <2>5. /\ writer' \in [Writers -> {"idle", "pending", "granted"}]
        /\ \A w \in Writers : writer'[w] # "idle" => put'[w] < MaxPut
    BY <1>1, <2>1, PostTypes DEF TxInv
  <2>6. sending' /\ thr' # None /\ sending' \in BOOLEAN /\ irq' \in BOOLEAN
    BY <1>1, <2>1, <2>2 DEF Interrupt, TxInv
  <2>7. waiting' \in Nat BY <2>1 DEF TxInv
  <2>8. txIn' = txIn /\ tx' = tx /\ put' = put BY <1>1
  <2> QED BY <1>1, <2>3, <2>4, <2>5, <2>6, <2>7, <2>8 DEF TxInv
<1>3. CASE ~NonEmpty
  <2>1. sending' = FALSE /\ UNCHANGED <<waiting, txOut, thr, places, writer>>
    BY <1>3 DEF Interrupt, IdleAfter
  <2>2. waiting = 0 BY <1>3 DEF NonEmpty, TxInv
  <2>3. ~sending' /\ thr' = None /\ irq' = FALSE BY <1>1, <2>1 DEF Interrupt
  <2> QED BY <1>1, <2>1, <2>2, <2>3 DEF TxInv
<1> QED BY <1>2, <1>3

LEMMA InsertInv ==
  ASSUME SerialTxAssumption, TxInv, NEW w \in Writers, Insert(w)
  PROVE  TxInv'
<1> USE TxConstants
<1> DEFINE c == <<w, put[w] + 1>>
           done == [writer EXCEPT ![w] = "idle"]
<1>1. /\ writer[w] = "granted" /\ tx' = [tx EXCEPT ![txIn] = c] /\ txIn' = Advance(txIn)
      /\ put' = [put EXCEPT ![w] = @ + 1] /\ irq' = irq
  BY DEF Insert
<1>2. put[w] < MaxPut /\ put[w] \in 0 .. MaxPut BY <1>1 DEF TxInv
<1>3. put' \in [Writers -> 0 .. MaxPut]
  BY <1>1, <1>2 DEF TxInv
<1>4. c \in Char /\ c # None BY <1>2, NotNone DEF Char
<1>5. /\ tx' \in [0 .. TxSize - 1 -> Char \cup {None}]
      /\ \A i \in 0 .. TxSize - 1 : tx'[i] = IF i = txIn THEN c ELSE tx[i]
  BY <1>1, <1>4 DEF TxInv
<1>6. txIn' \in 0 .. TxSize - 1 BY <1>1 DEF TxInv, Advance
<1>7. done \in [Writers -> {"idle", "pending", "granted"}] BY DEF TxInv
<1>8. /\ \A v \in Writers : done[v] # "idle" => put'[v] < MaxPut
      /\ \A v \in Writers : writer[v] = "pending" => put'[v] < MaxPut
  BY <1>1 DEF TxInv
<1>9. \A i \in 0 .. TxSize - 1 : tx[i] # None => tx'[i] # None BY <1>4, <1>5
<1>10. \/ \A i \in 0 .. TxSize - 1 : tx'[i] # None
       \/ txOut + waiting = txIn /\ txIn' = txIn + 1 /\ \A i \in 0 .. txIn : tx'[i] # None
  <2>1. CASE \A i \in 0 .. TxSize - 1 : tx[i] # None BY <1>9, <2>1
  <2>2. CASE txOut + waiting = txIn /\ \A i \in 0 .. txIn - 1 : tx[i] # None
    <3>1. \A i \in 0 .. txIn : tx'[i] # None BY <1>4, <1>5, <2>2 DEF TxInv
    <3>2. CASE txIn + 1 = TxSize
      <4>1. txIn = TxSize - 1 BY <3>2 DEF TxInv
      <4> QED BY <3>1, <4>1
    <3>3. CASE txIn + 1 # TxSize BY <1>1, <2>2, <3>1, <3>3 DEF Advance
    <3> QED BY <3>2, <3>3
  <2> QED BY <2>1, <2>2 DEF TxInv
<1>11. CASE Starts
  <2>1. /\ waiting' = waiting /\ txOut' = Advance(txOut) /\ sending'
        /\ thr' = tx'[txOut] /\ Post(done)
    BY <1>11 DEF Insert
  <2>2. ~sending /\ waiting = 0 /\ ~irq /\ thr = None BY <1>11 DEF Starts, TxInv
  <2>3. tx'[txOut] # None BY <1>4, <1>5, <2>2 DEF TxInv
  <2>4. txOut' \in 0 .. TxSize - 1 BY <2>1 DEF TxInv, Advance
  <2>5. \/ \A i \in 0 .. TxSize - 1 : tx'[i] # None
        \/ txOut' + waiting' = txIn' /\ \A i \in 0 .. txIn' - 1 : tx'[i] # None
    <3>1. CASE \A i \in 0 .. TxSize - 1 : tx[i] # None BY <1>9, <3>1
    <3>2. CASE txOut + waiting = txIn /\ \A i \in 0 .. txIn - 1 : tx[i] # None
      <4>1. txIn' = txOut' BY <1>1, <2>1, <2>2, <3>2 DEF TxInv
      <4> QED BY <1>1, <1>10, <2>1, <2>2, <3>2, <4>1 DEF TxInv
    <3> QED BY <3>1, <3>2 DEF TxInv
  <2>6. /\ writer' \in [Writers -> {"idle", "pending", "granted"}]
        /\ \A v \in Writers : writer'[v] # "idle" => put'[v] < MaxPut
    BY <1>7, <1>8, <2>1, PostTypes
  <2> QED BY <1>1, <1>3, <1>5, <1>6, <2>1, <2>2, <2>3, <2>4, <2>5, <2>6 DEF TxInv
<1>12. CASE ~Starts
  <2>1. /\ waiting' = waiting + 1 /\ UNCHANGED <<txOut, sending, thr, places>> /\ writer' = done
    BY <1>12 DEF Insert
  <2>2. sending BY <1>12 DEF Starts, TxInv
  <2>3. \/ \A i \in 0 .. TxSize - 1 : tx'[i] # None
        \/ txOut' + waiting' = txIn' /\ \A i \in 0 .. txIn' - 1 : tx'[i] # None
    <3>1. CASE txOut + waiting = txIn /\ txIn' = txIn + 1 /\ \A i \in 0 .. txIn : tx'[i] # None
      <4>1. txIn' - 1 = txIn /\ txOut + (waiting + 1) = txIn + 1 BY <3>1 DEF TxInv
      <4> QED BY <2>1, <3>1, <4>1
    <3> QED BY <1>10, <3>1
  <2> QED BY <1>1, <1>3, <1>5, <1>6, <1>7, <1>8, <2>1, <2>2, <2>3 DEF TxInv
<1> QED BY <1>11, <1>12

LEMMA TxStutterInv == TxInv /\ UNCHANGED txVars => TxInv'
  BY DEF TxInv, txVars, txRing, hard

LEMMA TxInvariant == SerialTxAssumption /\ TxSpec => []TxInv
<1> SUFFICES ASSUME SerialTxAssumption PROVE TxSpec => []TxInv OBVIOUS
<1>1. TxInit => TxInv BY TxInitInv
<1>2. TxInv /\ [TxNext]_txVars => TxInv'
  BY TxPendInv, InsertInv, InterruptInv, SendInv, TxStutterInv DEF TxNext, Writing
<1> QED BY <1>1, <1>2, PTL DEF TxSpec

\* What waits in the transmit ring is on its way out (CommPutChar, CommGetTxChar).
THEOREM OnTheWayCorrect == SerialTxAssumption /\ TxSpec => []OnTheWay
<1>1. TxInv => OnTheWay BY DEF TxInv, OnTheWay
<1> QED BY <1>1, TxInvariant, PTL

\* No character is written over one that has not been sent (CommPutChar, CommGetTxChar).
THEOREM FirstSentCorrect == SerialTxAssumption /\ TxSpec => FirstSent
<1>1. TxInv /\ [TxNext]_txVars => [KeepsThr]_txVars
  BY DEF TxInv, TxNext, Writing, TxPend, Insert, Interrupt, Send, Starts, KeepsThr, txVars, hard
<1> QED BY <1>1, TxInvariant, PTL DEF TxSpec, FirstSent
=============================================================================
