------------------------------ MODULE WdogR3k ------------------------------
(***************************************************************************)
(* fsm_wdog_r3k: the watchdog over the connection to a monitoring station. *)
(* It reports a silent station (event 606), and if the silence lasts it    *)
(* resets the panel, HBRESET_RETRIES times, then pauses for an hour.       *)
(*                                                                         *)
(* App_Task_1 (priority 4) and LAN485_Task (10) both call it, for the same *)
(* station, without a lock; the function blocks in delays and socket calls *)
(* and the other task calls it meanwhile.  A step ends where it blocks.    *)
(* Timers are abstract: one that has been set expires at any later time,   *)
(* but takes longer than the delays (at most 5 s) inside the function.     *)
(***************************************************************************)
EXTENDS Integers

CONSTANTS
  HBRESET_RETRIES, \* resets before the pause (5)
  Feeders,         \* the tasks whose loop calls WDT_Feed
  MaxPowerCycles   \* bound: times the panel loses its power

Tasks   == {"AppTaskStart", "App_Task_1", "LogT_Task", "LAN485_Task", "RabbitTask"}
Callers == {"App_Task_1", "LAN485_Task"}

ASSUME ConstantsAssumption ==
  HBRESET_RETRIES \in Nat \ {0} /\ Feeders \subseteq Tasks /\ MaxPowerCycles \in Nat

\* app_cfg.h: a lower number is a higher priority.
Priority == [t \in Tasks |->
  CASE t = "AppTaskStart" -> 1 [] t = "App_Task_1" -> 4 [] t = "LogT_Task" -> 5
    [] t = "LAN485_Task" -> 10 [] t = "RabbitTask" -> 14]

VARIABLES
  wdogstate,       \* Monitoreo[coid].wdogstate
  expired,         \* SEC_TIMER > Monitoreo[coid].wdogr3kTimer
  ackwdg,          \* ACKWDG_FLAG: the station has acknowledged something
  ackng,           \* ACKNG_FLAG and its copy in flash: the silence is reported
  hbreset_retries, \* resets tried
  savedRetries,    \* their copy in flash
  arstok,          \* ARSTOK_FLAG: the panel is not being serviced
  netrecovery, netrsthab, \* options NETRECOVERY_FLAG and NETRSTHAB_flag
  pc,              \* where each caller is
  powerCycles      \* count of power losses

retries == <<hbreset_retries, savedRetries>>
options == <<netrecovery, netrsthab>>
fsm == <<wdogstate, expired, ackwdg, ackng>>
vars == <<fsm, retries, arstok, options, pc, powerCycles>>

Spinning(t) == t \in Callers /\ pc[t] = "while(1)"
Starved(t)  == \E u \in Callers : Spinning(u) /\ Priority[u] <= Priority[t]

Init ==
  /\ wdogstate = "IDLE" /\ expired = FALSE /\ ackwdg = TRUE /\ ackng = FALSE
  /\ hbreset_retries = 0 /\ savedRetries = 0
  /\ arstok = TRUE
  /\ netrecovery \in BOOLEAN /\ netrsthab \in BOOLEAN
  /\ pc = [t \in Callers |-> "idle"] /\ powerCycles = 0

-----------------------------------------------------------------------------
(* The surroundings.                                                       *)

\* RabbitTask takes an acknowledgement.
Acknowledged ==
  /\ ~Starved("RabbitTask")
  /\ ackwdg' = TRUE
  /\ UNCHANGED <<wdogstate, expired, ackng, retries, arstok, options, pc, powerCycles>>

Expire ==
  /\ wdogstate # "IDLE" /\ ~expired
  /\ \A t \in Callers : pc[t] = "idle" \/ Spinning(t)
  /\ expired' = TRUE
  /\ UNCHANGED <<wdogstate, ackwdg, ackng, retries, arstok, options, pc, powerCycles>>

\* The autoprotection: a technician opens the panel, and leaves.
ServiceBegins ==
  /\ arstok /\ ~Starved("App_Task_1") /\ arstok' = FALSE
  /\ UNCHANGED <<fsm, retries, options, pc, powerCycles>>
ServiceEnds ==
  /\ ~arstok /\ ~Starved("App_Task_1") /\ arstok' = TRUE
  /\ UNCHANGED <<fsm, retries, options, pc, powerCycles>>

\* App_Task_1, every day at 8:30.
DailyClear ==
  /\ pc["App_Task_1"] = "idle"
  /\ hbreset_retries' = 0 /\ savedRetries' = 0
  /\ UNCHANGED <<fsm, arstok, options, pc, powerCycles>>

\* Start-up: a count above HBRESET_RETRIES is not loaded, and only one above
\* HBRESET_RETRIES + 1 is cleared in the flash.
Boot ==
  /\ wdogstate' = "IDLE" /\ expired' = FALSE /\ ackwdg' = TRUE
  /\ hbreset_retries' = IF savedRetries <= HBRESET_RETRIES THEN savedRetries ELSE 0
  /\ savedRetries' = IF savedRetries > HBRESET_RETRIES + 1 THEN 0 ELSE savedRetries
  /\ arstok' = TRUE
  /\ pc' = [t \in Callers |-> "idle"]
  /\ UNCHANGED <<ackng, options>>

PowerCycle ==
  /\ powerCycles < MaxPowerCycles /\ powerCycles' = powerCycles + 1
  /\ Boot

\* The hardware watchdog bites once no task that feeds it gets to run.
WatchdogReset ==
  /\ \A t \in Feeders : Starved(t)
  /\ Boot /\ UNCHANGED powerCycles

-----------------------------------------------------------------------------
(* fsm_wdog_r3k, called by task t.                                         *)

Goto(s) == wdogstate' = s /\ expired' = FALSE /\ ackwdg' = FALSE

At(t, point) == pc[t] = point /\ ~Starved(t) /\ UNCHANGED <<arstok, options, powerCycles>>
Block(t, point) == pc' = [pc EXCEPT ![t] = point]
Enter(t, s) == At(t, "idle") /\ wdogstate = s

\* Both branches of WR3K_IDLE do the same.
Start(t) ==
  /\ Enter(t, "IDLE")
  /\ Goto("WDOG")
  /\ UNCHANGED <<ackng, retries, pc>>

\* WR3K_WDOG: the station is silent; the interface is initialised anew.
InitNIC(t) ==
  /\ Enter(t, "WDOG") /\ expired
  /\ Block(t, "NetNIC_Init")
  /\ UNCHANGED <<fsm, retries>>

\* The first time it is reported and gets another five heartbeats.
AfterNIC(t) ==
  /\ At(t, "NetNIC_Init")
  /\ Goto(IF ackng THEN "WRST" ELSE "WDOG")
  /\ ackng' = TRUE
  /\ Block(t, "idle")
  /\ UNCHANGED retries

WdogAck(t) ==
  /\ Enter(t, "WDOG") /\ ~expired /\ ackwdg
  /\ Goto("WDOG") /\ ackng' = FALSE
  /\ UNCHANGED <<retries, pc>>

\* WR3K_WRST: the silence goes on.  With NETRECOVERY and a link, reset.
Recover(t) ==
  /\ Enter(t, "WRST") /\ expired /\ netrecovery
  /\ Block(t, "reset")
  /\ UNCHANGED <<fsm, retries>>

\* The count is tested, the sockets are closed, and then it is increased.
\* Mutant: once more than HBRESET_RETRIES.
TryReset_Once(t) ==
  /\ Enter(t, "WRST") /\ expired /\ arstok /\ hbreset_retries <= HBRESET_RETRIES
  /\ Block(t, "NetSock_Close")
  /\ UNCHANGED <<fsm, retries>>

TryReset(t) ==
  /\ Enter(t, "WRST") /\ expired /\ arstok /\ hbreset_retries < HBRESET_RETRIES
  /\ Block(t, "NetSock_Close")
  /\ UNCHANGED <<fsm, retries>>

\* Mutant: the count goes down.
CountReset_Down(t) ==
  /\ At(t, "NetSock_Close")
  /\ hbreset_retries' = hbreset_retries - 1
  /\ savedRetries' = hbreset_retries - 1
  /\ Block(t, "reset")
  /\ UNCHANGED fsm

CountReset(t) ==
  /\ At(t, "NetSock_Close")
  /\ hbreset_retries' = hbreset_retries + 1
  /\ savedRetries' = hbreset_retries + 1
  /\ Block(t, "reset")
  /\ UNCHANGED fsm

\* Mutant: the pause only above HBRESET_RETRIES.
GiveUp_Above(t) ==
  /\ Enter(t, "WRST") /\ expired /\ hbreset_retries > HBRESET_RETRIES
  /\ Goto("WAITONEHOUR")
  /\ UNCHANGED <<ackng, retries, pc>>

GiveUp(t) ==
  /\ Enter(t, "WRST") /\ expired /\ hbreset_retries >= HBRESET_RETRIES
  /\ Goto("WAITONEHOUR")
  /\ UNCHANGED <<ackng, retries, pc>>

\* Mutant: the silence is taken as ended, the state stays.
WrstAck_Stays(t) ==
  /\ Enter(t, "WRST") /\ ~expired /\ ackwdg
  /\ Goto("WRST") /\ ackng' = FALSE
  /\ UNCHANGED <<retries, pc>>

WrstAck(t) ==
  /\ Enter(t, "WRST") /\ ~expired /\ ackwdg
  /\ Goto("WDOG") /\ ackng' = FALSE
  /\ UNCHANGED <<retries, pc>>

ResetDisabled(t) ==
  /\ Enter(t, "WRST") /\ ~expired /\ ~ackwdg /\ ~netrsthab
  /\ Goto("WDOG")
  /\ UNCHANGED <<ackng, retries, pc>>

\* WR3K_WAITONEHOUR: the hour is over, and the count starts again.
HourOver(t) ==
  /\ Enter(t, "WAITONEHOUR") /\ expired
  /\ wdogstate' = "WDOG" /\ expired' = FALSE
  /\ hbreset_retries' = 0
  /\ Block(t, "close")
  /\ UNCHANGED <<ackwdg, ackng, savedRetries>>

SaveZero(t) ==
  /\ At(t, "close")
  /\ savedRetries' = 0
  /\ Block(t, "reset")
  /\ UNCHANGED <<fsm, hbreset_retries>>

HourAck(t) ==
  /\ Enter(t, "WAITONEHOUR") /\ ~expired /\ ackwdg
  /\ Goto("WDOG")
  /\ hbreset_retries' = 0 /\ savedRetries' = 0
  /\ UNCHANGED <<ackng, pc>>

\* while(1); //me reseteo por watchdog
WaitForWatchdog(t) ==
  /\ At(t, "reset")
  /\ Block(t, "while(1)")
  /\ UNCHANGED <<fsm, retries>>

fsm_wdog_r3k(t) ==
  \/ Start(t) \/ InitNIC(t) \/ AfterNIC(t) \/ WdogAck(t)
  \/ Recover(t) \/ TryReset(t) \/ CountReset(t) \/ GiveUp(t)
  \/ WrstAck(t) \/ ResetDisabled(t)
  \/ HourOver(t) \/ SaveZero(t) \/ HourAck(t) \/ WaitForWatchdog(t)

-----------------------------------------------------------------------------
Next ==
  \/ Acknowledged \/ Expire \/ ServiceBegins \/ ServiceEnds \/ DailyClear
  \/ PowerCycle \/ WatchdogReset
  \/ \E t \in Callers : fsm_wdog_r3k(t)

Spec == Init /\ [][Next]_vars

(***************************************************************************)
(* Fairness: the two tasks go on calling, timers expire, the technician    *)
(* leaves and is away when the test comes, and a watchdog nobody feeds     *)
(* bites.  Nobody has to cycle the power, no station has to answer.        *)
(***************************************************************************)
Fairness ==
  /\ WF_vars(Expire) /\ WF_vars(ServiceEnds) /\ WF_vars(WatchdogReset)
  /\ \A t \in Callers : WF_vars(fsm_wdog_r3k(t)) /\ SF_vars(TryReset(t))
FairSpec == Spec /\ Fairness

-----------------------------------------------------------------------------
(* Properties.                                                             *)

\* The variables stay within their types.
TypeOK ==
  /\ wdogstate \in {"IDLE", "WDOG", "WRST", "WAITONEHOUR"}
  /\ {expired, ackwdg, ackng, arstok, netrecovery, netrsthab} \subseteq BOOLEAN
  /\ hbreset_retries \in Nat /\ savedRetries \in Nat
  /\ powerCycles \in 0..MaxPowerCycles
  /\ pc \in [Callers -> {"idle", "NetNIC_Init", "NetSock_Close", "close", "reset",
                         "while(1)"}]

(***************************************************************************)
(* Two callers between the test of the count and its increase may take it  *)
(* one beyond HBRESET_RETRIES, never further: start-up's test for a value  *)
(* above HBRESET_RETRIES + 1 as corrupt never discards a genuine count.    *)
(***************************************************************************)
RetriesBounded == savedRetries <= HBRESET_RETRIES + 1

(***************************************************************************)
(* The panel is on its way to a reset, or in the pause that follows the    *)
(* resets, only if the silence has been reported first; whatever the two   *)
(* callers do to each other inside NetNIC_Init.                            *)
(***************************************************************************)
ReportedFirst == wdogstate \in {"WRST", "WAITONEHOUR"} => ackng

(***************************************************************************)
(* A reported silence never just stays: an acknowledgement ends it or      *)
(* App_Task_1 stops for the watchdog, unless resets are switched off.      *)
(***************************************************************************)
SilenceEnds == ackng /\ netrsthab ~> (~ackng \/ Spinning("App_Task_1"))

\* rabbit.c:1295, 1306, 1431: "me reseteo por watchdog".
ResetByWatchdog == \A t \in Callers : Spinning(t) ~> ~Spinning(t)
=============================================================================
