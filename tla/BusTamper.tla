----------------------------- MODULE BusTamper -----------------------------
(***************************************************************************)
(* The tamper machines of the RS-485 bus and of the alarm panels behind it *)
(* (fsm_roturaRele485, fsm_rotura485, fsm_roturaEVO, run by                *)
(* AlarmDetectTask every 100 ms), the watchdog of each panel that feeds    *)
(* them (fsm_wdog_evo, run by LAN485_Task), and what the two tasks share:  *)
(* the word Rot485_flag, the byte FSM_FLAG_1 and its copy in flash, the    *)
(* record of the modules in flash, and the supply of the peripherals.      *)
(*                                                                         *)
(* AlarmDetectTask (priority 7) preempts LAN485_Task (10), so a pass of    *)
(* the machines may fall between the load and the store of any word        *)
(* LAN485_Task modifies, or between its filling a buffer and its writing   *)
(* it to flash.  The tasks that set the clock (App_Task_1 4, LogT_Task 5)  *)
(* preempt both; they clear ROTEVO_FLAG with fsm_wdog_evo(99, 0).          *)
(*                                                                         *)
(* A module that is P485_IDLE is in neither ng nor trouble, one that is    *)
(* P485_NG is in both, one in P485_WAIT in trouble alone; when it gets     *)
(* from one to the next is Lan485Poll's matter, and so are the special     *)
(* modules, to which only a restart gives COMM_TROUBLE.                    *)
(***************************************************************************)
EXTENDS Integers, Sequences, FiniteSets, FiniteSetsExt

CONSTANTS
  Kinds,     \* the kind of each module fitted: "cid" (240-242), "rele" (230-235), "ptm"
  Panels,    \* panels supervised by fsm_wdog_evo, a subset of 0..2
  OffSecs,   \* seconds without supply (2)
  SettleSecs,\* seconds for the peripherals to start (10)
  CommSecs,  \* seconds of a module's trouble before it is a tamper (90)
  EvoSecs,   \* the same for a panel (20 minutes)
  MaxResets, \* bound: clock settings and restarts
  Watched    \* the mishaps that are told apart, a subset of Races

ConstantsAssumption ==
  /\ Kinds \in Seq({"cid", "rele", "ptm"}) /\ Panels \subseteq 0..2
  /\ OffSecs \in Nat /\ SettleSecs \in Nat /\ CommSecs \in Nat /\ EvoSecs \in Nat
  /\ MaxResets \in Nat

Modules == DOMAIN Kinds

VARIABLES
  ng,       \* modules whose state485 is P485_NG
  trouble,  \* modules whose COMM_TROUBLE is set
  base,     \* what the machines read and write: see Base
  panel,    \* fsmwdogevo_state[]
  hist1,    \* FSM_FLAG_1 in flash
  histPtm,  \* the modules' record in flash: those in P485_NG, and the machine in ROT
  lan,      \* the read-modify-write LAN485_Task is in
  resets,   \* clock settings and restarts so far
  raced     \* history: the races that have happened

lanVars == <<ng, trouble, panel, lan>>
vars == <<base, lanVars, hist1, histPtm, resets, raced>>

Machines == {"rele", "r485", "evo"}
Flags == {"ROT485", "CID", "PTM", "RELE", "ROTEVO", "NOZSCAN", "CIDRESET"}
Rot943 == 5 \* its bit in FSM_FLAG_1; those of the panels are 0 to 2

(***************************************************************************)
(* "word": LAN485_Task wrote back flags that had changed since it loaded   *)
(* them.  "flag1", "byte", "record": the same with FSM_FLAG_1, with its    *)
(* copy in flash and with the modules' record.  "overlap": one machine cut *)
(* the supply while the other one's cycle was not over.  "shared": a panel *)
(* was restored while another was in alarm; they share ROTEVO_FLAG.        *)
(* "clock": the clock was set, which clears that flag whatever the panels  *)
(* do.  "orphan": a panel's entry, or a restart, read from flash a tamper  *)
(* none of whose panels is in alarm.  "torn": a panel's entry read from    *)
(* flash a tamper, which takes fsm_roturaEVO to ROT out of its cycle.      *)
(* Those not in Watched are not noted.                                     *)
(***************************************************************************)
Races == {"word", "flag1", "byte", "record", "overlap", "shared", "clock", "orphan", "torn"}
Race(kind, cond) == IF cond /\ kind \in Watched THEN {kind} ELSE {}

\* ROT491_FLAG, the echo's, is left out of the word: only its writing counts.
Idle == [pc |-> "poll", flag |-> "ROT491", on |-> FALSE, who |-> 0,
         word |-> {}, byte |-> {}, rec |-> [ng |-> {}, rot |-> FALSE]]

(***************************************************************************)
(* flags: Rot485_flag.  power: PERIFPWR.  mach: fsm_rotrele485_state,      *)
(* fsm_rot485_state, fsm_rotEVO_state.  age: seconds since the timer of    *)
(* each was set.  gen, alarm: the ROTU bits of SysFlag_AP_GenAlarm and of  *)
(* BaseAlarmPkt_alarm.  flag1: FSM_FLAG_1, the panels in alarm and Rot943. *)
(***************************************************************************)
Base == [flags : SUBSET Flags, power : BOOLEAN,
         mach : [rele : {"IDLE", "WAIT", "ROT"},
                 r485 : {"IDLE", "PWAIT1", "PWAIT2", "WAIT", "ROT"},
                 evo  : {"ENTRY", "IDLE", "PWAIT1", "PWAIT2", "WAIT", "ROT"}],
         age : [Machines -> Nat], gen : BOOLEAN, alarm : BOOLEAN,
         flag1 : SUBSET (Panels \cup {Rot943})]

Patience == [rele |-> CommSecs, r485 |-> CommSecs, evo |-> EvoSecs]
Oldest(m) == 1 + Max({Patience[m], OffSecs, SettleSecs})

Init ==
  /\ ng = {} /\ trouble = {}
  /\ base = [flags |-> {}, power |-> TRUE, age |-> [m \in Machines |-> 0],
             mach |-> [rele |-> "IDLE", r485 |-> "IDLE", evo |-> "ENTRY"],
             gen |-> FALSE, alarm |-> FALSE, flag1 |-> {}]
  /\ panel = [p \in Panels |-> "ENTRY"]
  /\ hist1 = {} /\ histPtm = [ng |-> {}, rot |-> FALSE]
  /\ lan = Idle /\ resets = 0 /\ raced = {}

-----------------------------------------------------------------------------
(* A pass of AlarmDetectTask: each machine takes the base b to another.    *)

Go(b, m, st) == [b EXCEPT !.mach[m] = st]
StartTimer(b, m, st) == [Go(b, m, st) EXCEPT !.age[m] = 0]

Trips(m) == CASE Kinds[m] = "cid" -> {"ROT485", "CID"} [] Kinds[m] = "ptm" -> {"ROT485", "PTM"}
              [] Kinds[m] = "rele" -> {"RELE"}

\* The flags of the bus are cleared and set again from COMM_TROUBLE.
Recompute(b) ==
  [b EXCEPT !.flags = (@ \ {"ROT485", "CID", "PTM", "RELE"}) \cup UNION {Trips(m) : m \in trouble}]

\* Mutant: the wait of the other two machines, whose states have the same names.
RoturaRele485_Copied(b) ==
  IF b.mach["rele"] = "IDLE" /\ "RELE" \in b.flags THEN StartTimer(b, "rele", "PWAIT1") ELSE b

\* fsm_roturaRele485.
RoturaRele485(b) ==
  LET st == b.mach["rele"]  bad == "RELE" \in b.flags IN
  CASE st = "IDLE" /\ bad -> StartTimer(b, "rele", "WAIT")
    [] st # "IDLE" /\ ~bad -> Go(b, "rele", "IDLE")
    [] st = "WAIT" /\ bad /\ b.age["rele"] > CommSecs -> Go(b, "rele", "ROT")
    [] OTHER -> b

\* Mutant: the zones are scanned all the same.
CutSupply_Scanned(b, m) == [StartTimer(b, m, "PWAIT1") EXCEPT !.power = FALSE]

\* The supply is cut, and the zones are not scanned, while the peripherals
\* of one machine start again.
CutSupply(b, m) == [StartTimer(b, m, "PWAIT1") EXCEPT !.flags = @ \cup {"NOZSCAN"}, !.power = FALSE]

\* Mutant: the supply is not given back.
GiveSupply_Off(b, m) ==
  [StartTimer(b, m, "PWAIT2") EXCEPT !.flags = IF m = "r485" THEN @ \cup {"CIDRESET"} ELSE @]

GiveSupply(b, m) ==
  [StartTimer(b, m, "PWAIT2") EXCEPT !.power = TRUE,
                                     !.flags = IF m = "r485" THEN @ \cup {"CIDRESET"} ELSE @]

\* Mutant: the zones stay unscanned.
EndCycle_Blind(b, m) == StartTimer(b, m, "WAIT")

EndCycle(b, m) == [StartTimer(b, m, "WAIT") EXCEPT !.flags = @ \ {"NOZSCAN"}]

\* The states both machines of the supply have in common.
Cycle(b, m) ==
  CASE b.mach[m] = "PWAIT1" /\ b.age[m] > OffSecs -> GiveSupply(b, m)
    [] b.mach[m] = "PWAIT2" /\ b.age[m] > SettleSecs -> EndCycle(b, m)
    [] OTHER -> b

\* Mutant: the ninety seconds start again in every pass.
Rotura485_Restarts(b) ==
  LET st == b.mach["r485"]  bad == "ROT485" \in b.flags IN
  CASE st = "IDLE" /\ bad /\ "CID" \in b.flags -> CutSupply(b, "r485")
    [] bad /\ st \in {"IDLE", "WAIT"} -> StartTimer(b, "r485", "WAIT")
    [] st = "WAIT" /\ ~bad -> Go(b, "r485", "IDLE")
    [] OTHER -> Cycle(b, "r485")

\* fsm_rotura485 (of a version other than 111).
Rotura485(b) ==
  LET st == b.mach["r485"]  bad == "ROT485" \in b.flags IN
  CASE st = "IDLE" /\ bad /\ "CID" \in b.flags -> CutSupply(b, "r485")
    [] st = "IDLE" /\ bad /\ "CID" \notin b.flags -> StartTimer(b, "r485", "WAIT")
    [] st \in {"WAIT", "ROT"} /\ ~bad -> Go(b, "r485", "IDLE")
    [] st = "WAIT" /\ bad /\ b.age["r485"] > CommSecs ->
         [Go(b, "r485", "ROT") EXCEPT !.gen = TRUE, !.flags = @ \ {"CIDRESET"}]
    [] st = "ROT" /\ bad -> [b EXCEPT !.gen = TRUE, !.alarm = TRUE]
    [] OTHER -> Cycle(b, "r485")

\* FSM_ReadHistory; the ROTU bit, which the same record may hold, is set or
\* left.
ReadHistory(b, rotu) ==
  [b EXCEPT !.flag1 = hist1, !.alarm = @ \/ rotu \/ Rot943 \in hist1,
            !.mach["evo"] = IF Rot943 \in hist1 THEN "ROT" ELSE @]

Evo943(b) == IF Rot943 \in hist1 THEN [b EXCEPT !.flags = @ \cup {"ROTEVO"}] ELSE b

\* Mutant: the twenty minutes start again in every pass.
RoturaEVO_Restarts(b, rotu) ==
  LET st == b.mach["evo"]  bad == "ROTEVO" \in b.flags IN
  CASE st = "ENTRY" -> Go(Evo943(ReadHistory(b, rotu)), "evo", "IDLE")
    [] st = "IDLE" /\ bad -> CutSupply(b, "evo")
    [] st = "WAIT" -> IF bad THEN StartTimer(b, "evo", "WAIT") ELSE Go(b, "evo", "IDLE")
    [] OTHER -> Cycle(b, "evo")

\* fsm_roturaEVO.
RoturaEVO(b, rotu) ==
  LET st == b.mach["evo"]  bad == "ROTEVO" \in b.flags IN
  CASE st = "ENTRY" -> Go(Evo943(ReadHistory(b, rotu)), "evo", "IDLE")
    [] st = "IDLE" /\ Rot943 \in b.flag1 -> [Go(b, "evo", "ROT") EXCEPT !.gen = TRUE]
    [] st = "IDLE" /\ Rot943 \notin b.flag1 /\ bad -> CutSupply(b, "evo")
    [] st = "WAIT" /\ ~bad -> Go(b, "evo", "IDLE")
    [] st = "WAIT" /\ bad /\ b.age["evo"] > EvoSecs ->
         [Go(b, "evo", "ROT") EXCEPT !.gen = TRUE, !.flag1 = @ \cup {Rot943}]
    [] st = "ROT" /\ ~bad -> [Go(b, "evo", "IDLE") EXCEPT !.flag1 = @ \ {Rot943}]
    [] st = "ROT" /\ bad -> [b EXCEPT !.gen = TRUE, !.alarm = TRUE]
    [] OTHER -> Cycle(b, "evo")

\* fsm_deteccion_rotura takes the request, unless the zones are not scanned.
DeteccionRotura(b) ==
  IF b.gen /\ "NOZSCAN" \notin b.flags THEN [b EXCEPT !.gen = FALSE, !.alarm = TRUE] ELSE b

\* Mutant: the flash is not told that a tamper is over.
SaveTamper_Once(b, rot) == rot /\ b.mach["r485"] # "ROT"

\* fsm_rotura485 calls PTM485NG_HistoryWrite when it enters and leaves ROT: a
\* module in P485_WAIT is recorded as one that is well.
SaveTamper(b, rot) == rot # (b.mach["r485"] = "ROT")

\* fsm_roturaEVO calls FSM_WriteHistory when it enters ROT from WAIT and
\* when it leaves ROT.
SaveByte(b, next) ==
  \/ b.mach["evo"] = "WAIT" /\ next.mach["evo"] = "ROT"
  \/ b.mach["evo"] = "ROT" /\ next.mach["evo"] = "IDLE"

InCycle(b, m) == b.mach[m] \in {"PWAIT1", "PWAIT2"}

\* The bases the machines leave one after the other.
PassTo(rele, one, two) ==
  /\ base' = DeteccionRotura(two)
  /\ histPtm' = LET rot == one.mach["r485"] = "ROT" IN
                IF SaveTamper(rele, rot) THEN [ng |-> ng, rot |-> rot] ELSE histPtm
  /\ hist1' = IF SaveByte(one, two) THEN two.flag1 ELSE hist1
  /\ raced' = raced
       \cup Race("overlap", \E m, n \in {"r485", "evo"} :
                   /\ m # n /\ ~InCycle(rele, m) /\ InCycle(two, m)
                   /\ InCycle(rele, n) \/ InCycle(two, n))
       \cup Race("orphan", one.mach["evo"] = "ENTRY" /\ Rot943 \in hist1
                             /\ hist1 \cap Panels = {})
  /\ UNCHANGED <<lanVars, resets>>

Pass ==
  \E clean \in {Recompute(base)} : \E rele \in {RoturaRele485(clean)} :
    \E one \in {Rotura485(rele)}, rotu \in BOOLEAN : \E two \in {RoturaEVO(one, rotu)} :
      PassTo(rele, one, two)

-----------------------------------------------------------------------------
(* LAN485_Task, one step between two passes.                               *)

\* It has loaded Rot485_flag to set or to clear a flag in it; next says what
\* follows the store: nothing, the change of FSM_FLAG_1 for a panel, or the
\* wait of a module.
LoadWord(word, flag, on, next, p) ==
  lan' = [Idle EXCEPT !.pc = next, !.flag = flag, !.on = on, !.who = p, !.word = word]

\* LAN485_Send compares what it sent with its echo.
SendEcho ==
  /\ lan.pc = "poll" /\ LoadWord(base.flags, "ROT491", FALSE, "word", 0)
  /\ UNCHANGED <<base, ng, trouble, panel, hist1, histPtm, resets, raced>>

\* A module is given up: from P485_IDLE after the report, from P485_WAIT without.
GivenUp(m) ==
  /\ lan.pc = "poll" /\ m \notin ng /\ ng' = ng \cup {m}
  /\ lan' = [Idle EXCEPT !.pc = "flag", !.who = m]
  /\ UNCHANGED <<base, trouble, panel, hist1, histPtm, resets, raced>>

SetTrouble ==
  /\ lan.pc = "flag" /\ trouble' = trouble \cup {lan.who}
  /\ lan' = [lan EXCEPT !.pc = "fill"]
  /\ UNCHANGED <<base, ng, panel, hist1, histPtm, resets, raced>>

\* One that answers again begins its wait, which the mark the machine left when
\* it cut the supply makes short: the module takes the mark.
Answers(m) ==
  /\ lan.pc = "poll" /\ m \in ng
  /\ IF "CIDRESET" \in base.flags THEN LoadWord(base.flags, "CIDRESET", FALSE, "wordwait", m)
     ELSE lan' = [Idle EXCEPT !.pc = "wait", !.who = m]
  /\ UNCHANGED <<base, ng, trouble, panel, hist1, histPtm, resets, raced>>

BeginWait ==
  /\ lan.pc = "wait" /\ ng' = ng \ {lan.who} /\ lan' = Idle
  /\ UNCHANGED <<base, trouble, panel, hist1, histPtm, resets, raced>>

\* The end of the wait: COMM_TROUBLE goes, and the report holds the task up
\* before it is P485_IDLE and the record is made.
Recovers(m) ==
  /\ lan.pc = "poll" /\ m \in trouble \ ng /\ trouble' = trouble \ {m}
  /\ lan' = [Idle EXCEPT !.pc = "fill", !.who = m]
  /\ UNCHANGED <<base, ng, panel, hist1, histPtm, resets, raced>>

\* PTM485NG_HistoryWrite fills its buffer, which it then writes.
FillPtmHistory ==
  /\ lan.pc = "fill"
  /\ lan' = [lan EXCEPT !.pc = "ptm", !.rec = [ng |-> ng, rot |-> base.mach["r485"] = "ROT"]]
  /\ UNCHANGED <<base, ng, trouble, panel, hist1, histPtm, resets, raced>>

\* fsm_wdog_evo of panel p: the entry of the machine.
PanelEntry(p) ==
  /\ lan.pc = "poll" /\ panel[p] = "ENTRY"
  /\ \E rotu \in BOOLEAN : base' = ReadHistory(base, rotu)
  /\ panel' = [panel EXCEPT ![p] = IF p \in hist1 THEN "ALARM" ELSE "IDLE"]
  /\ IF p \in hist1 \/ Rot943 \in hist1
     THEN LoadWord(base.flags, "ROTEVO", TRUE, "word", p) ELSE UNCHANGED lan
  /\ raced' = raced \cup Race("orphan", Rot943 \in hist1 /\ hist1 \cap Panels = {})
                    \cup Race("torn", Rot943 \in hist1 /\ InCycle(base, "evo"))
  /\ UNCHANGED <<ng, trouble, hist1, histPtm, resets>>

\* Nothing was heard of the panel until its deadline.
PanelLost(p) ==
  /\ lan.pc = "poll" /\ panel[p] = "IDLE"
  /\ panel' = [panel EXCEPT ![p] = "ALARM"]
  /\ LoadWord(base.flags, "ROTEVO", TRUE, "wordthen", p)
  /\ UNCHANGED <<base, ng, trouble, hist1, histPtm, resets, raced>>

\* It is heard again.
PanelBack(p) ==
  /\ lan.pc = "poll" /\ panel[p] = "ALARM"
  /\ panel' = [panel EXCEPT ![p] = "IDLE"]
  /\ LoadWord(base.flags, "ROTEVO", FALSE, "wordthen", p)
  /\ raced' = raced \cup Race("shared", \E q \in Panels \ {p} : panel[q] = "ALARM")
  /\ UNCHANGED <<base, ng, trouble, hist1, histPtm, resets>>

\* At a quarter past three a panel in alarm sets its flag again.
PanelNight(p) ==
  /\ lan.pc = "poll" /\ panel[p] = "ALARM"
  /\ LoadWord(base.flags, "ROTEVO", TRUE, "word", p)
  /\ UNCHANGED <<base, ng, trouble, panel, hist1, histPtm, resets, raced>>

\* Mutant: the flag is set whatever was to be done with it.
Changed_Sets(set, x, on) == IF x = "ROT491" THEN set ELSE set \cup {x}

\* Mutant: it is cleared.
Changed_Clears(set, x, on) == set \ {x}

Changed(set, x, on) ==
  IF x = "ROT491" THEN set ELSE IF on THEN set \cup {x} ELSE set \ {x}

\* Mutant: a panel that comes back stays marked.
ChangedByte_Sticky(set, x, on) == set \cup {x}

ChangedByte(set, x, on) == IF on THEN set \cup {x} ELSE set \ {x}

\* The word goes back to memory; FSM_FLAG_1 is loaded for the panel.
StoreWord ==
  /\ lan.pc \in {"word", "wordthen", "wordwait"}
  /\ base' = [base EXCEPT !.flags = Changed(lan.word, lan.flag, lan.on)]
  /\ raced' = raced \cup Race("word", lan.word # base.flags)
  /\ lan' = CASE lan.pc = "word" -> Idle
              [] lan.pc = "wordwait" -> [Idle EXCEPT !.pc = "wait", !.who = lan.who]
              [] lan.pc = "wordthen" -> [lan EXCEPT !.pc = "byte", !.word = {}, !.byte = base.flag1]
  /\ UNCHANGED <<ng, trouble, panel, hist1, histPtm, resets>>

\* FSM_FLAG_1 goes back; FSM_WriteHistory fills its buffer.
StoreByte ==
  /\ lan.pc = "byte"
  /\ LET byte == ChangedByte(lan.byte, lan.who, lan.on) IN
     /\ base' = [base EXCEPT !.flag1 = byte]
     /\ lan' = [lan EXCEPT !.pc = "saving", !.byte = byte]
  /\ raced' = raced \cup Race("flag1", lan.byte # base.flag1)
  /\ UNCHANGED <<ng, trouble, panel, hist1, histPtm, resets>>

WriteHistory ==
  /\ lan.pc = "saving"
  /\ hist1' = lan.byte /\ lan' = Idle
  /\ raced' = raced \cup Race("byte", lan.byte # base.flag1)
  /\ UNCHANGED <<base, ng, trouble, panel, histPtm, resets>>

WritePtmHistory ==
  /\ lan.pc = "ptm"
  /\ histPtm' = lan.rec /\ lan' = Idle
  /\ raced' = raced \cup Race("record", lan.rec.rot # (base.mach["r485"] = "ROT"))
  /\ UNCHANGED <<base, ng, trouble, panel, hist1, resets>>

LanStores == \/ StoreWord \/ StoreByte \/ WriteHistory
             \/ SetTrouble \/ BeginWait \/ FillPtmHistory \/ WritePtmHistory

Lan == \/ SendEcho \/ LanStores
       \/ \E m \in Modules : GivenUp(m) \/ Answers(m) \/ Recovers(m)
       \/ \E p \in Panels : PanelEntry(p) \/ PanelLost(p) \/ PanelBack(p) \/ PanelNight(p)

-----------------------------------------------------------------------------
(* The time, the other tasks, and the supply of the base.                  *)

Timing(m) == base.mach[m] \in {"PWAIT1", "PWAIT2", "WAIT"} /\ base.age[m] < Oldest(m)

Tick ==
  /\ \E m \in Machines : Timing(m)
  /\ base' = [base EXCEPT !.age = [m \in Machines |-> IF Timing(m) THEN @[m] + 1 ELSE @[m]]]
  /\ UNCHANGED <<lanVars, hist1, histPtm, resets, raced>>

\* ROTU_bit is reset: by a command, or by autoreset_logo3d outside a tamper.
AlarmReset ==
  /\ base.alarm /\ base' = [base EXCEPT !.alarm = FALSE]
  /\ UNCHANGED <<lanVars, hist1, histPtm, resets, raced>>

\* The clock is set, to an earlier time perhaps: then no timer runs out
\* before SEC_TIMER passes it again.  If a pass was between the load and the
\* store of a flag, it puts ROTEVO_FLAG back.
SetClock ==
  /\ resets < MaxResets /\ resets' = resets + 1
  /\ panel' = [p \in Panels |-> "ENTRY"]
  /\ \E flags \in {base.flags, base.flags \ {"ROTEVO"}},
        age \in {base.age, [m \in Machines |-> 0], [m \in Machines |-> Oldest(m)]} :
       base' = [base EXCEPT !.flags = flags, !.age = age]
  /\ raced' = raced \cup Race("clock", TRUE)
  /\ UNCHANGED <<ng, trouble, lan, hist1, histPtm>>

\* The base starts again: FSM_ReadHistory and PTM485NG_HistoryRead, which takes
\* for well every module that is not recorded as P485_NG.
Reboot ==
  /\ resets < MaxResets /\ resets' = resets + 1
  /\ ng' = histPtm.ng /\ trouble' = histPtm.ng
  /\ LET rot943 == Rot943 \in hist1 IN
     /\ base' = [flags |-> (IF rot943 THEN {"ROTEVO"} ELSE {})
                             \cup (IF histPtm.rot THEN {"ROT485"} ELSE {}),
                 power |-> TRUE, age |-> [m \in Machines |-> 0],
                 mach |-> [rele |-> "IDLE", r485 |-> IF histPtm.rot THEN "ROT" ELSE "IDLE",
                           evo |-> IF rot943 THEN "ROT" ELSE "ENTRY"],
                 gen |-> FALSE, alarm |-> rot943, flag1 |-> hist1]
     /\ raced' = raced \cup Race("orphan", rot943 /\ hist1 \cap Panels = {})
  /\ panel' = [p \in Panels |-> "ENTRY"] /\ lan' = Idle
  /\ UNCHANGED <<hist1, histPtm>>

Next == Pass \/ Lan \/ Tick \/ AlarmReset \/ SetClock \/ Reboot

Spec == Init /\ [][Next]_vars

\* The passes and the time go on, and LAN485_Task ends what it began and
\* visits every panel.
Fairness == /\ WF_vars(Pass) /\ WF_vars(Tick) /\ WF_vars(LanStores)
            /\ \A p \in Panels : SF_vars(PanelEntry(p))
FairSpec == Spec /\ Fairness

-----------------------------------------------------------------------------
(* Properties.                                                             *)

Bytes == SUBSET (Panels \cup {Rot943})
Records == [ng : SUBSET Modules, rot : BOOLEAN]
Steps == [pc : {"poll", "word", "wordthen", "wordwait", "byte", "saving",
                "flag", "wait", "fill", "ptm"},
          flag : {"ROT491", "CIDRESET", "ROTEVO"}, on : BOOLEAN,
          who : Panels \cup Modules \cup {0}, word : SUBSET Flags, byte : Bytes, rec : Records]

\* Every variable has its type.
TypeOK ==
  /\ ng \subseteq Modules /\ trouble \subseteq Modules
  /\ base \in Base /\ \A m \in Machines : base.age[m] <= Oldest(m)
  /\ panel \in [Panels -> {"ENTRY", "IDLE", "ALARM"}]
  /\ hist1 \in Bytes /\ histPtm \in Records
  /\ lan \in Steps
  /\ resets \in 0..MaxResets /\ raced \subseteq Races

Cutting == \E m \in Machines : base.mach[m] = "PWAIT1"
Cycling == \E m \in Machines : InCycle(base, m)

\* The peripherals are without supply only while a machine that cut it counts
\* its two seconds (fsm_rotura485, fsm_roturaEVO share PERIFPWR).
SupplyOwned == ~base.power => Cutting \/ "torn" \in raced

\* While they are, the zones are not scanned: unless the other machine's
\* cycle ended in the meantime, or LAN485_Task wrote an old word back.
NoBlindScan == ~base.power => "NOZSCAN" \in base.flags \/ raced \cap {"overlap", "word"} # {}

\* The zones are left unscanned only while one of the machines is in its
\* cycle: unless LAN485_Task put NOZSCAN_FLAG back, after which nothing
\* clears it.
BlindOwned == "NOZSCAN" \in base.flags => Cycling \/ raced \cap {"word", "torn"} # {}

\* ROTEVO_FLAG has a panel in alarm behind it once no word is being
\* modified, or one whose alarm is still to be read from flash, unless a race
\* left in flash a tamper or a panel that is none.
FlagHasPanel ==
  "ROTEVO" \in base.flags /\ lan.pc = "poll" =>
    \/ \E p \in Panels : panel[p] = "ALARM" \/ (panel[p] = "ENTRY" /\ p \in hist1)
    \/ raced \cap {"word", "clock", "orphan", "flag1", "byte"} # {}

\* A panel in alarm keeps ROTEVO_FLAG set, unless a panel that shares the flag
\* came back, the clock was set, or a word was written back.
AlarmKeepsFlag ==
  (\E p \in Panels : panel[p] = "ALARM") /\ lan.pc = "poll"
    => "ROTEVO" \in base.flags \/ raced \cap {"shared", "clock", "word"} # {}

\* The module whose record LAN485_Task has still to write.
InHand == IF lan.pc \in {"flag", "fill", "ptm"} THEN {lan.who} ELSE {}

\* What the flash says of the tamper of the bus is what the machine is in.  It
\* knows of every module given up, but for the one in hand, and of no other that
\* is well: what a restart takes for trouble is trouble.
TamperSaved ==
  /\ (histPtm.rot <=> base.mach["r485"] = "ROT") \/ "record" \in raced
  /\ ng \ InHand \subseteq histPtm.ng /\ histPtm.ng \subseteq trouble \cup InHand

\* What the flash says of each panel is what its watchdog is in, once
\* fsm_wdog_evo is over; a pass may have written FSM_FLAG_1 back in between.
PanelSaved ==
  lan.pc = "poll" => \A p \in Panels : panel[p] # "ENTRY" =>
    (p \in hist1 <=> panel[p] = "ALARM") \/ raced \cap {"clock", "flag1", "byte"} # {}

\* What the two machines may do with the supply and with the scanning of the
\* zones, whatever order their passes and LAN485_Task's stores come in.
SupplySafe == SupplyOwned /\ NoBlindScan /\ BlindOwned

\* What the flag and the flash say of the modules and of the panels is so, but
\* for the races named.
TampersKept == TamperSaved /\ PanelSaved /\ AlarmKeepsFlag /\ FlagHasPanel

\* The supply always comes back.
SupplyReturns == ~base.power ~> base.power

\* Trouble of a module that is not a relay's, if it lasts, ends in the alarm
\* every time the alarm is reset (the comment above the loop says that any
\* trouble of the bus is reported as a tamper).
TroubleAlarmed == <>[](\E m \in trouble : Kinds[m] # "rele") => []<>(base.alarm)

\* So does a panel that stays silent, when it is the only one.
LonePanelAlarmed ==
  Cardinality(Panels) = 1 => \A p \in Panels : <>[](panel[p] = "ALARM") => []<>(base.alarm)
=============================================================================
