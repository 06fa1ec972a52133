----------------------------- MODULE Lan485Poll -----------------------------
(***************************************************************************)
(* The polling of the partition modules on the RS-485 bus: LAN485_Task     *)
(* asks each module in turn, counts the answers it misses, reports a       *)
(* module that is silent and one that is back (the machine of state485),   *)
(* acknowledges and logs the events the modules hold, and sends the        *)
(* console's command to arm.                                               *)
(*                                                                         *)
(* Tasks of higher priority preempt it anywhere: the console sets          *)
(* PTMCMD_ARM, App_Task_1 and AlarmDetectTask build events in the same     *)
(* global record, fsm_rotura485 writes the history of the modules.  Left   *)
(* out: what an event means (ProcessEvents), the status bits, relays, the  *)
(* length of the waits, and the lock-gate modules, which report nothing.   *)
(***************************************************************************)
EXTENDS Integers, FiniteSets

CONSTANTS
  N,          \* modules, polled in the order of the table
  Special,    \* those whose partition reports 386 and never COMM_TROUBLE
  Limit,      \* silences that are reported (90)
  ErrSize,    \* values of com_error_counter (256)
  MaxEvents,  \* bound: events of each module
  MaxLines,   \* bound: changes of the line
  MaxCmds,    \* bound: commands of the console
  MaxBoots,   \* bound: restarts
  Kinds,      \* what a bad line may do to an answer
  Watched     \* the mishaps that are told apart, a subset of Races

ConstantsAssumption ==
  /\ N \in Nat \ {0} /\ Special \subseteq 1..N
  /\ Limit \in Nat \ {0} /\ ErrSize \in Nat /\ Limit + 3 < ErrSize
  /\ MaxEvents \in Nat /\ MaxLines \in Nat /\ MaxCmds \in Nat /\ MaxBoots \in Nat
  /\ Kinds \subseteq {"garbled", "foreign", "status", "event"}

Modules == 1..N

VARIABLES
  mod,      \* ptm_dcb: see Dcb
  task,     \* LAN485_Task: see Task
  cur,      \* currentEvent: whose, and what
  clear,    \* CLEAR485_FLAG
  hist,     \* the modules whose state in flash is P485_NG
  rot,      \* fsm_rot485_state is ROT: now, and in flash
  line,     \* the line to each module
  box,      \* events each module has made, and those it has forgotten
  logged,   \* events of each module in the log
  open,     \* modules whose last report in the log is of silence
  good,     \* history: modules heard since they were last given up
  asked,    \* history: modules that a command to arm has not reached
  used,     \* inputs used of those bounded
  raced     \* history: the races that have happened

external == <<line, box, rot>>
history == <<good, asked, raced>>
vars == <<mod, task, cur, clear, hist, external, logged, open, history, used>>

\* state485, com_error_counter, timeout485 ran out, COMM_TROUBLE, PTMCMD_ARM.
Dcb == [st : {"IDLE", "NG", "WAIT"}, err : 0..(ErrSize - 1), over : BOOLEAN,
        trouble : BOOLEAN, arm : BOOLEAN]

(***************************************************************************)
(* ptm_index, where the task is, and the event of the module it holds.     *)
(* It waits for the answer between "poll" and "answer"; "event" follows    *)
(* the acknowledgement; "built" has filled currentEvent for "event", or    *)
(* for the report "E" or "R"; "mark" has logged the report; "flag" has     *)
(* given the module up and is about to set COMM_TROUBLE, "save" to write   *)
(* the history.                                                            *)
(***************************************************************************)
Task == [at : Modules, pc : {"poll", "answer", "visit", "event", "built", "mark",
                              "flag", "save"},
         what : {"none", "event", "E", "R"}, n : 0..MaxEvents]

(***************************************************************************)
(* "late": an answer to a poll takes back a command given meanwhile.       *)
(* "foreign": one of another module does.  "word": a read-modify-write of  *)
(* the flags undoes it.  "wrap": garbled answers take the counter to zero. *)
(* "clear": the console's request brings a module back.  "edge": its wait  *)
(* ends in the very visit that finds it silent again.  "shared": another   *)
(* task's event replaces the one built.  The rest are restarts: "crash"    *)
(* loses an acknowledged event, "undone" a command; "forgot" takes a       *)
(* reported module for a good one, "again" the reverse; "special" gives    *)
(* COMM_TROUBLE to a module that never clears it.  Those not in Watched    *)
(* are not noted.                                                          *)
(***************************************************************************)
Races == {"late", "foreign", "word", "wrap", "clear", "edge", "shared", "crash", "undone",
          "forgot", "again", "special"}
Race(kind, cond) == IF cond /\ kind \in Watched THEN {kind} ELSE {}

Init ==
  /\ mod = [m \in Modules |-> [st |-> "IDLE", err |-> 0, over |-> FALSE,
                               trouble |-> FALSE, arm |-> FALSE]]
  /\ task = [at |-> 1, pc |-> "poll", what |-> "none", n |-> 0]
  /\ cur = [m |-> 0, what |-> "none"]
  /\ clear = FALSE /\ hist = {} /\ rot = [now |-> FALSE, saved |-> FALSE]
  /\ line = [m \in Modules |-> "good"]
  /\ box = [m \in Modules |-> [made |-> 0, done |-> 0]]
  /\ logged = [m \in Modules |-> {}] /\ open = {}
  /\ good = {} /\ asked = {} /\ raced = {}
  /\ used = [lines |-> 0, cmds |-> 0, boots |-> 0]

-----------------------------------------------------------------------------
(* The modules and the line.                                               *)

ModuleEvent(m) ==
  /\ box[m].made < MaxEvents /\ box' = [box EXCEPT ![m].made = @ + 1]
  /\ UNCHANGED <<mod, task, cur, clear, hist, rot, line, logged, open, history, used>>

LineChanges(m) ==
  /\ used.lines < MaxLines /\ used' = [used EXCEPT !.lines = @ + 1]
  /\ \E l \in {"good", "bad", "dead"} \ {line[m]} : line' = [line EXCEPT ![m] = l]
  /\ UNCHANGED <<mod, task, cur, clear, hist, rot, box, logged, open, history>>

-----------------------------------------------------------------------------
(* LAN485_Task visits the modules in turn.                                 *)

At == mod[task.at]
Does(pc) == task.pc = pc
NextModule == [at |-> (task.at % N) + 1, pc |-> "poll", what |-> "none", n |-> 0]

\* device_poll: the command goes out instead of the question.
Poll ==
  /\ Does("poll")
  /\ task' = [task EXCEPT !.pc = "answer", !.what = "none"]
  /\ \/ line[task.at] # "dead" /\ At.arm /\ asked' = asked \ {task.at}
     \/ (line[task.at] # "good" \/ ~At.arm) /\ UNCHANGED asked
  /\ UNCHANGED <<mod, cur, clear, hist, external, logged, open, good, used, raced>>

\* Mutant: the count is wider than a byte and has no limit.
Missed_Wide(err) == err + 1

\* Mutant: the count of silences goes on and wraps.
Missed_Uncapped(err) == (err + 1) % ErrSize

\* The count stops one past the limit; after a restart it may be beyond.
Missed(err) == IF err < Limit + 1 THEN err + 1 ELSE err

\* Mutant: a command is given up when nothing is answered.
Silent_Forgets ==
  /\ Does("answer") /\ line[task.at] # "good"
  /\ mod' = [mod EXCEPT ![task.at].err = Missed(@), ![task.at].arm = FALSE]
  /\ task' = [task EXCEPT !.pc = "visit"]
  /\ UNCHANGED <<cur, clear, hist, external, logged, open, history, used>>

Silent ==
  /\ Does("answer") /\ line[task.at] # "good"
  /\ mod' = [mod EXCEPT ![task.at].err = Missed(@)]
  /\ task' = [task EXCEPT !.pc = "visit"]
  /\ UNCHANGED <<cur, clear, hist, external, logged, open, history, used>>

\* A wrong checksum counts without a limit.
Garbled ==
  /\ Does("answer") /\ line[task.at] = "bad" /\ "garbled" \in Kinds
  /\ mod' = [mod EXCEPT ![task.at].err = (@ + 1) % ErrSize]
  /\ raced' = raced \cup Race("wrap", At.err = ErrSize - 1)
  /\ task' = [task EXCEPT !.pc = "visit"]
  /\ UNCHANGED <<cur, clear, hist, external, logged, open, good, asked, used>>

\* A good frame with another module's address takes the command as obeyed.
Foreign ==
  /\ Does("answer") /\ line[task.at] = "bad" /\ "foreign" \in Kinds
  /\ mod' = [mod EXCEPT ![task.at].arm = FALSE]
  /\ raced' = raced \cup Race("foreign", At.arm /\ task.at \in asked)
  /\ task' = [task EXCEPT !.pc = "visit"]
  /\ UNCHANGED <<cur, clear, hist, external, logged, open, good, asked, used>>

Hears(kind) == line[task.at] = "good" \/ (line[task.at] = "bad" /\ kind \in Kinds)

\* Mutant: the count goes on.
Heard_Counting ==
  /\ mod' = [mod EXCEPT ![task.at].arm = FALSE]
  /\ raced' = raced \cup Race("late", At.arm /\ task.at \in asked)
  /\ good' = good \cup {task.at}

\* An answer that is the module's own: the count starts again, and so does
\* the command, whichever question it answers.
Heard ==
  /\ mod' = [mod EXCEPT ![task.at].err = 0, ![task.at].arm = FALSE]
  /\ raced' = raced \cup Race("late", At.arm /\ task.at \in asked)
  /\ good' = good \cup {task.at}

Status ==
  /\ Does("answer") /\ Hears("status") /\ box[task.at].done = box[task.at].made /\ Heard
  /\ task' = [task EXCEPT !.pc = "visit"]
  /\ UNCHANGED <<cur, clear, hist, external, logged, open, asked, used>>

\* Mutant: the module is not told.
SendPtmACK_Not(m) == UNCHANGED box

\* The module forgets its event when it hears the acknowledgement.
SendPtmACK(m) ==
  \/ box' = [box EXCEPT ![m].done = @ + 1]
  \/ line[m] # "good" /\ UNCHANGED box

\* An event: it is acknowledged first, then processed.
EventAnswer ==
  /\ Does("answer") /\ Hears("event") /\ box[task.at].done < box[task.at].made /\ Heard
  /\ SendPtmACK(task.at)
  /\ task' = [task EXCEPT !.pc = "event", !.what = "event", !.n = box[task.at].done + 1]
  /\ UNCHANGED <<cur, clear, hist, rot, line, logged, open, asked, used>>

\* currentEvent is filled.
Builds(what) == cur' = [m |-> task.at, what |-> what]

\* Mutant: the events of a module in its wait are left out.
ParsePtmCID_Event_Waiting ==
  /\ Does("event")
  /\ IF At.st = "WAIT" THEN task' = [task EXCEPT !.pc = "visit", !.n = 0] /\ UNCHANGED cur
     ELSE Builds("event") /\ task' = [task EXCEPT !.pc = "built"]
  /\ UNCHANGED <<mod, clear, hist, external, logged, open, history, used>>

ParsePtmCID_Event ==
  /\ Does("event") /\ Builds("event") /\ task' = [task EXCEPT !.pc = "built"]
  /\ UNCHANGED <<mod, clear, hist, external, logged, open, history, used>>

\* WriteEventToFlash logs what currentEvent holds by now.
Write ==
  /\ Does("built") /\ cur' = [m |-> 0, what |-> "none"]
  /\ logged' = IF cur.what = "event" THEN [logged EXCEPT ![cur.m] = @ \cup {task.n}] ELSE logged
  /\ open' = CASE cur.what = "E" -> open \cup {cur.m}
               [] cur.what = "R" -> open \ {cur.m}
               [] OTHER -> open
  /\ task' = [task EXCEPT !.pc = IF task.what = "event" THEN "visit" ELSE "mark", !.n = 0]
  /\ UNCHANGED <<mod, clear, hist, external, history, used>>

Stays == mod' = mod /\ task' = NextModule

\* P485_IDLE.
VisitIdle ==
  /\ Does("visit") /\ At.st = "IDLE"
  /\ IF At.err >= Limit
     THEN task' = [task EXCEPT !.pc = "built", !.what = "E"] /\ Builds("E") /\ mod' = mod
     ELSE Stays /\ UNCHANGED cur
  /\ UNCHANGED <<clear, hist, external, logged, open, history, used>>

IsBack(err) == err = 0

\* P485_NG: the wait begins.
VisitNG ==
  /\ Does("visit") /\ At.st = "NG"
  /\ IF IsBack(At.err) \/ clear
     THEN /\ mod' = [mod EXCEPT ![task.at].st = "WAIT", ![task.at].over = FALSE]
          /\ task' = NextModule
          /\ raced' = raced \cup Race("clear", ~IsBack(At.err))
     ELSE Stays /\ UNCHANGED raced
  /\ UNCHANGED <<cur, clear, hist, external, logged, open, good, asked, used>>

\* Mutant: a module that falls silent again waits on.
Relapses_Not(err) == FALSE

Relapses(err) == err >= Limit

\* P485_WAIT: the end of the wait is looked at first, and so is a request to
\* clear.  COMM_TROUBLE goes before the return is reported.
VisitWait ==
  /\ Does("visit") /\ At.st = "WAIT" /\ clear' = FALSE
  /\ CASE At.over \/ clear ->
            /\ task' = [task EXCEPT !.pc = "built", !.what = "R"] /\ Builds("R")
            /\ mod' = [mod EXCEPT ![task.at].trouble = @ /\ task.at \in Special]
            /\ UNCHANGED good
            /\ raced' = raced \cup Race("edge", At.err = Limit) \cup Race("clear", clear)
       [] ~(At.over \/ clear) /\ Relapses(At.err) ->
            /\ mod' = [mod EXCEPT ![task.at].st = "NG", ![task.at].over = FALSE]
            /\ task' = IF task.at \in Special THEN NextModule ELSE [task EXCEPT !.pc = "flag"]
            /\ good' = good \ {task.at} /\ UNCHANGED <<cur, raced>>
       [] OTHER -> Stays /\ UNCHANGED <<cur, good, raced>>
  /\ UNCHANGED <<hist, external, logged, open, asked, used>>

\* Mutant: every report leaves the module given up.
NewState_Same(what) == "NG"

NewState(what) == IF what = "E" THEN "NG" ELSE "IDLE"

\* The report is out: the state follows.
Mark ==
  /\ Does("mark")
  /\ mod' = [mod EXCEPT ![task.at].st = NewState(task.what), ![task.at].over = FALSE]
  /\ good' = IF task.what = "E" THEN good \ {task.at} ELSE good
  /\ task' = IF task.at \in Special THEN NextModule
             ELSE [task EXCEPT !.pc = IF task.what = "E" THEN "flag" ELSE "save"]
  /\ UNCHANGED <<cur, clear, hist, external, logged, open, asked, raced, used>>

\* An ordinary module given up gets COMM_TROUBLE once its state is set.
SetTrouble ==
  /\ Does("flag") /\ mod' = [mod EXCEPT ![task.at].trouble = TRUE]
  /\ task' = [task EXCEPT !.pc = "save"]
  /\ UNCHANGED <<cur, clear, hist, external, logged, open, history, used>>

\* PTM485NG_HistoryWrite: the states of all the modules, and fsm_rot485_state.
SaveStates(now) ==
  hist' = {m \in Modules : mod[m].st = "NG"} /\ rot' = [now |-> now, saved |-> now]

Save ==
  /\ Does("save") /\ SaveStates(rot.now) /\ task' = NextModule
  /\ UNCHANGED <<mod, cur, clear, line, box, logged, open, history, used>>

-----------------------------------------------------------------------------
(* Tasks of higher priority.                                               *)

Command == used.cmds < MaxCmds /\ used' = [used EXCEPT !.cmds = @ + 1]

\* con_remptmarm; LAN485_Task may be in a read-modify-write of the same flags,
\* AUTONORMAL of an event or COMM_TROUBLE.
RemPtmArm(m) ==
  /\ Command
  /\ asked' = asked \cup {m}
  /\ \/ mod' = [mod EXCEPT ![m].arm = TRUE] /\ UNCHANGED raced
     \/ /\ task.at = m /\ task.pc \in {"event", "visit", "flag"} /\ UNCHANGED mod
        /\ raced' = raced \cup Race("word", TRUE)
  /\ UNCHANGED <<task, cur, clear, hist, external, logged, open, good>>

\* The key w of the serial console.
Clear485 ==
  /\ Command /\ clear' = TRUE
  /\ UNCHANGED <<mod, task, cur, hist, external, logged, open, history>>

\* Another task's GenerateCIDEventPTm, from currentEvent to its delay.
OtherEvent ==
  /\ Does("built") /\ cur.what # "none"
  /\ cur' = [m |-> 0, what |-> "none"] /\ raced' = raced \cup Race("shared", TRUE)
  /\ UNCHANGED <<mod, task, clear, hist, external, logged, open, good, asked, used>>

\* fsm_rotura485 enters ROT while a module is in trouble, and leaves it when
\* none is; it writes the history both times.
Rotura485 ==
  /\ rot.now = ~\E m \in Modules : mod[m].trouble
  /\ SaveStates(~rot.now)
  /\ UNCHANGED <<mod, task, cur, clear, line, box, logged, open, history, used>>

-----------------------------------------------------------------------------
(* Time and restarts.                                                      *)

WaitOver(m) ==
  /\ mod[m].st = "WAIT" /\ ~mod[m].over /\ mod' = [mod EXCEPT ![m].over = TRUE]
  /\ UNCHANGED <<task, cur, clear, hist, external, logged, open, history, used>>

\* Mutant: a module that was not answering starts as if it did.
RestartCount_Zero == 0

RestartCount == ErrSize - 2

\* init_lan_cfgfile and PTM485NG_HistoryRead.
Boot ==
  /\ used.boots < MaxBoots /\ used' = [used EXCEPT !.boots = @ + 1]
  /\ mod' = [m \in Modules |->
               [st |-> IF m \in hist THEN "NG" ELSE "IDLE",
                err |-> IF m \in hist THEN RestartCount ELSE 0, over |-> FALSE,
                trouble |-> m \in hist, arm |-> FALSE]]
  /\ task' = [at |-> 1, pc |-> "poll", what |-> "none", n |-> 0]
  /\ cur' = [m |-> 0, what |-> "none"] /\ clear' = FALSE
  /\ good' = good \ hist /\ rot' = [rot EXCEPT !.now = rot.saved]
  /\ raced' = raced \cup Race("crash", task.n # 0)
                    \cup Race("undone", \E m \in asked : mod[m].arm)
                    \cup Race("forgot", open \ hist # {})
                    \cup Race("again", hist \ open # {})
                    \cup Race("special", hist \cap Special # {})
  /\ UNCHANGED <<hist, line, box, logged, open, asked>>

Answer == Silent \/ Garbled \/ Foreign \/ Status \/ EventAnswer
Visit == VisitIdle \/ VisitNG \/ VisitWait
Lan485 == Poll \/ Answer \/ ParsePtmCID_Event \/ Write \/ Visit \/ Mark \/ SetTrouble \/ Save

Next ==
  \/ Lan485 \/ Clear485 \/ OtherEvent \/ Rotura485 \/ Boot
  \/ \E m \in Modules : ModuleEvent(m) \/ LineChanges(m) \/ RemPtmArm(m) \/ WaitOver(m)

Spec == Init /\ [][Next]_vars

\* LAN485_Task runs, and the waits run out.
Fairness == WF_vars(Lan485) /\ \A m \in Modules : WF_vars(WaitOver(m))
FairSpec == Spec /\ Fairness

-----------------------------------------------------------------------------
(* Properties.                                                             *)

\* Every variable has its type.
TypeOK ==
  /\ mod \in [Modules -> Dcb] /\ task \in Task
  /\ cur \in [m : 0..N, what : {"none", "event", "E", "R"}]
  /\ clear \in BOOLEAN /\ hist \subseteq Modules /\ rot \in [now : BOOLEAN, saved : BOOLEAN]
  /\ line \in [Modules -> {"good", "bad", "dead"}]
  /\ box \in [Modules -> [made : 0..MaxEvents, done : 0..MaxEvents]]
  /\ logged \in [Modules -> SUBSET (1..MaxEvents)] /\ open \subseteq Modules
  /\ good \subseteq Modules /\ asked \subseteq Modules /\ raced \subseteq Races
  /\ used \in [lines : 0..MaxLines, cmds : 0..MaxCmds, boots : 0..MaxBoots]

\* A module is not idle exactly as long as its silence is reported and not yet
\* its return, also through restarts: only a restart with a module in its wait,
\* or whose state was not saved, or an event another task replaced breaks it.
ReportedAsStands ==
  \A m \in Modules :
    \/ task.at = m /\ task.pc = "mark"
    \/ (m \in open) = (mod[m].st # "IDLE")
    \/ raced \cap {"forgot", "again", "shared"} # {}

\* The report of its return is on its way.
Returning(m) == task.at = m /\ task.what = "R" /\ task.pc \in {"built", "mark"}

\* COMM_TROUBLE, which becomes a tamper alarm, is set while an ordinary module
\* is not idle, but while its return is being reported, and never for a special
\* one: only a restart that took the state of a special module from another's
\* write can set it, for good.
TroubleStands ==
  \A m \in Modules :
    \/ mod[m].trouble = (m \notin Special /\ mod[m].st # "IDLE" /\ ~Returning(m))
    \/ task.at = m /\ task.pc = "flag"
    \/ (m \in Special /\ "special" \in raced)

\* A module is only taken for recovered after an answer of its own, and its
\* return only reported while it answers: only a counter that garbled answers
\* took round, the console, or the last visit of the wait makes it otherwise.
RecoveredAnswered ==
  /\ \A m \in Modules :
       mod[m].st = "WAIT" => m \in good \/ raced \cap {"wrap", "clear"} # {}
  /\ task.what = "R" => At.err < Limit \/ raced \cap {"edge", "clear"} # {}

\* An event its module has forgotten is in the log or in the task's hands: only
\* a restart after the acknowledgement or another task's event loses it.
EventKept ==
  \A m \in Modules : \A k \in 1..box[m].done :
    \/ k \in logged[m] \/ (task.at = m /\ task.n = k)
    \/ raced \cap {"crash", "shared"} # {}

\* A command to arm waits in PTMCMD_ARM until it has gone out.
ArmKept ==
  \A m \in asked : mod[m].arm \/ raced \cap {"late", "foreign", "word", "undone"} # {}

\* What is reported of a module, and what it is taken for, is what its answers
\* and its silences say, but for the mishaps named.
ModulesReported == ReportedAsStands /\ TroubleStands /\ RecoveredAnswered

\* Nothing a module was asked for or said is lost, but for the mishaps named.
ModulesServed == EventKept /\ ArmKept

\* A module whose line is good for ever is idle in the end.
Recovers == \A m \in Modules : <>[](line[m] = "good") => <>[](mod[m].st = "IDLE")

\* One whose line is dead for ever is reported in the end and stays so.
DeadReported ==
  \A m \in Modules :
    <>[](line[m] = "dead") => <>[](mod[m].st = "NG" /\ (m \in open \/ "shared" \in raced))

\* On a good line every event of a module reaches the log and is taken off the
\* module, and every command reaches the module.
AllDelivered ==
  \A m \in Modules :
    <>[](line[m] = "good") =>
      /\ <>[](box[m].done = box[m].made)
      /\ <>[](logged[m] = 1..box[m].made \/ raced \cap {"crash", "shared"} # {})
      /\ <>[](m \notin asked \/ raced \cap {"late", "foreign", "word", "undone"} # {})
=============================================================================
