---------------------------- MODULE WdogR3kProofs ----------------------------
(***************************************************************************)
(* Theorems about WdogR3k, for any number of retries, any set of tasks     *)
(* that feed the watchdog and any number of power losses.                  *)
(***************************************************************************)
EXTENDS WdogR3k, TLAPS

Points == {"idle", "NetNIC_Init", "NetSock_Close", "close", "reset", "while(1)"}

LEMMA InitType == Init => TypeOK
<1> SUFFICES ASSUME Init PROVE TypeOK OBVIOUS
<1>1. {expired, ackwdg, ackng, arstok, netrecovery, netrsthab} \subseteq BOOLEAN
  BY DEF Init
<1>2. powerCycles \in 0..MaxPowerCycles
  BY ConstantsAssumption DEF ConstantsAssumption, Init
<1>3. wdogstate = "IDLE" /\ hbreset_retries = 0 /\ savedRetries = 0 BY DEF Init
<1>4. pc \in [Callers -> Points] BY DEF Init, Points
<1> QED BY <1>1, <1>2, <1>3, <1>4 DEF TypeOK, Points

\* Blocking at a point of the function.
LEMMA BlockType ==
  ASSUME TypeOK, NEW t \in Callers, NEW p \in Points, Block(t, p)
  PROVE  pc' \in [Callers -> Points] /\ pc'[t] = p /\ \A u \in Callers \ {t} : pc'[u] = pc[u]
  BY DEF TypeOK, Block, Points

LEMMA BootType == TypeOK /\ Boot /\ powerCycles' \in 0..MaxPowerCycles => TypeOK'
<1> SUFFICES ASSUME TypeOK, Boot, powerCycles' \in 0..MaxPowerCycles PROVE TypeOK'
  OBVIOUS
<1>1. hbreset_retries' \in Nat /\ savedRetries' \in Nat BY DEF TypeOK, Boot
<1>2. {expired, ackwdg, ackng, arstok, netrecovery, netrsthab}' \subseteq BOOLEAN
  BY DEF TypeOK, Boot, options
<1> QED BY <1>1, <1>2 DEF TypeOK, Boot

\* The surroundings.
LEMMA SurroundingsType ==
  ASSUME TypeOK,
         Acknowledged \/ Expire \/ ServiceBegins \/ ServiceEnds \/ DailyClear
           \/ PowerCycle \/ WatchdogReset
  PROVE  TypeOK'
<1>1. CASE Acknowledged BY <1>1 DEF Acknowledged, TypeOK, retries, options
<1>2. CASE Expire BY <1>2 DEF Expire, TypeOK, retries, options
<1>3. CASE ServiceBegins BY <1>3 DEF ServiceBegins, TypeOK, fsm, retries, options
<1>4. CASE ServiceEnds BY <1>4 DEF ServiceEnds, TypeOK, fsm, retries, options
<1>5. CASE DailyClear BY <1>5 DEF DailyClear, TypeOK, fsm, options
<1>6. CASE PowerCycle
  <2>1. powerCycles' \in 0..MaxPowerCycles
    BY <1>6, ConstantsAssumption DEF ConstantsAssumption, PowerCycle, TypeOK
  <2> QED BY <1>6, <2>1, BootType DEF PowerCycle
<1>7. CASE WatchdogReset BY <1>7, BootType DEF WatchdogReset, TypeOK
<1> QED BY <1>1, <1>2, <1>3, <1>4, <1>5, <1>6, <1>7

\* A call of the function, or its going on.
LEMMA CallType ==
  ASSUME TypeOK, NEW t \in Callers, fsm_wdog_r3k(t)
  PROVE  TypeOK'
<1>1. pc' \in [Callers -> Points]
  BY BlockType
  DEF fsm_wdog_r3k, Start, InitNIC, AfterNIC, WdogAck, Recover, TryReset, CountReset, GiveUp,
      WrstAck, ResetDisabled, HourOver, SaveZero, HourAck, WaitForWatchdog, TypeOK, Points
<1>2. UNCHANGED <<arstok, options, powerCycles>>
  BY DEF fsm_wdog_r3k, Start, InitNIC, AfterNIC, WdogAck, Recover, TryReset, CountReset, GiveUp,
      WrstAck, ResetDisabled, HourOver, SaveZero, HourAck, WaitForWatchdog, Enter, At
<1>3. wdogstate' \in {"IDLE", "WDOG", "WRST", "WAITONEHOUR"}
  BY DEF fsm_wdog_r3k, Start, InitNIC, AfterNIC, WdogAck, Recover, TryReset, CountReset, GiveUp,
      WrstAck, ResetDisabled, HourOver, SaveZero, HourAck, WaitForWatchdog, Goto, fsm, TypeOK
<1>4. {expired, ackwdg, ackng}' \subseteq BOOLEAN
  BY DEF fsm_wdog_r3k, Start, InitNIC, AfterNIC, WdogAck, Recover, TryReset, CountReset, GiveUp,
      WrstAck, ResetDisabled, HourOver, SaveZero, HourAck, WaitForWatchdog, Goto, fsm, TypeOK
<1>5. hbreset_retries' \in Nat /\ savedRetries' \in Nat
  BY DEF fsm_wdog_r3k, Start, InitNIC, AfterNIC, WdogAck, Recover, TryReset, CountReset, GiveUp,
      WrstAck, ResetDisabled, HourOver, SaveZero, HourAck, WaitForWatchdog, retries, TypeOK
<1> QED BY <1>1, <1>2, <1>3, <1>4, <1>5 DEF TypeOK, options, Points

LEMMA NextType == TypeOK /\ [Next]_vars => TypeOK'
<1>1. TypeOK /\ UNCHANGED vars => TypeOK' BY DEF TypeOK, vars, fsm, retries, options
<1> QED BY <1>1, SurroundingsType, CallType DEF Next

-----------------------------------------------------------------------------
(***************************************************************************)
(* The inductive invariant.  Whoever has tested the count has found it     *)
(* below HBRESET_RETRIES, and only the other caller can have increased it  *)
(* since; so with both past the test there is still room for two.          *)
(***************************************************************************)
Closing(t) == pc[t] = "NetSock_Close"

RetriesInv ==
  /\ hbreset_retries <= HBRESET_RETRIES + 1 /\ savedRetries <= HBRESET_RETRIES + 1
  /\ \A t \in Callers : Closing(t) => hbreset_retries <= HBRESET_RETRIES
  /\ (\A t \in Callers : Closing(t)) => hbreset_retries < HBRESET_RETRIES

Inv == TypeOK /\ RetriesInv /\ ReportedFirst

LEMMA InitInv == Init => Inv
<1> SUFFICES ASSUME Init PROVE Inv OBVIOUS
<1>1. RetriesInv
  BY ConstantsAssumption DEF ConstantsAssumption, Init, RetriesInv, Closing, Callers
<1>2. ReportedFirst BY DEF Init, ReportedFirst
<1> QED BY <1>1, <1>2, InitType DEF Inv

LEMMA NextRetries == TypeOK /\ RetriesInv /\ [Next]_vars => RetriesInv'
<1> SUFFICES ASSUME TypeOK, RetriesInv, [Next]_vars PROVE RetriesInv' OBVIOUS
<1>0. HBRESET_RETRIES \in Nat /\ HBRESET_RETRIES >= 1
      /\ hbreset_retries \in Nat /\ savedRetries \in Nat
  BY ConstantsAssumption DEF ConstantsAssumption, TypeOK
<1>1. CASE pc' = pc /\ UNCHANGED retries
  BY <1>1 DEF RetriesInv, Closing, retries
<1>2. CASE DailyClear
  BY <1>0, <1>2 DEF DailyClear, RetriesInv, Closing
<1>3. CASE Boot
  <2>1. \A t \in Callers : ~Closing(t)' BY <1>3 DEF Boot, Closing
  <2>2. hbreset_retries' <= HBRESET_RETRIES /\ savedRetries' <= HBRESET_RETRIES + 1
    BY <1>0, <1>3 DEF Boot
  <2>3. "App_Task_1" \in Callers BY DEF Callers
  <2>4. hbreset_retries' \in Nat BY <1>0, <1>3 DEF Boot
  <2> QED BY <1>0, <2>1, <2>2, <2>3, <2>4 DEF RetriesInv
<1>4. ASSUME NEW t \in Callers, NEW p \in Points \ {"NetSock_Close"}, Block(t, p),
             UNCHANGED hbreset_retries, savedRetries' \in {savedRetries, 0}
      PROVE  RetriesInv'
  <2>1. \A u \in Callers : Closing(u)' => Closing(u)
    BY <1>4, BlockType DEF Closing, Points
  <2>2. ~Closing(t)' BY <1>4, BlockType DEF Closing
  <2> QED BY <1>0, <1>4, <2>1, <2>2 DEF RetriesInv
<1>5. ASSUME NEW t \in Callers, fsm_wdog_r3k(t) PROVE RetriesInv'
  <2>1. CASE TryReset(t)
    <3>1. hbreset_retries < HBRESET_RETRIES /\ UNCHANGED retries
      BY <2>1 DEF TryReset
    <3> QED BY <1>0, <3>1 DEF RetriesInv, retries
  <2>2. CASE CountReset(t)
    <3>1. /\ Closing(t) /\ ~Closing(t)' /\ \A u \in Callers \ {t} : Closing(u)' <=> Closing(u)
          /\ hbreset_retries' = hbreset_retries + 1 /\ savedRetries' = hbreset_retries + 1
      BY <2>2, BlockType DEF CountReset, At, Closing, Points
    <3>2. CASE \A u \in Callers : Closing(u)
      BY <1>0, <3>1, <3>2 DEF RetriesInv
    <3>3. CASE \E u \in Callers : ~Closing(u)
      <4>1. \A u \in Callers : ~Closing(u)' BY <3>1, <3>3 DEF Callers
      <4> QED BY <1>0, <3>1, <4>1 DEF RetriesInv
    <3> QED BY <3>2, <3>3
  <2>3. CASE HourOver(t)
    BY <1>0, <2>3 DEF HourOver, RetriesInv
  <2>4. CASE SaveZero(t) BY <1>4, <2>4 DEF SaveZero, Points
  <2>5. CASE HourAck(t) BY <1>0, <2>5 DEF HourAck, RetriesInv
  <2>6. CASE InitNIC(t) \/ AfterNIC(t) \/ Recover(t) \/ WaitForWatchdog(t)
    BY <1>4, <2>6 DEF InitNIC, AfterNIC, Recover, WaitForWatchdog, Points, retries
  <2>7. CASE Start(t) \/ WdogAck(t) \/ GiveUp(t) \/ WrstAck(t) \/ ResetDisabled(t)
    BY <1>1, <2>7 DEF Start, WdogAck, GiveUp, WrstAck, ResetDisabled
  <2> QED
    BY <1>5, <2>1, <2>2, <2>3, <2>4, <2>5, <2>6, <2>7 DEF fsm_wdog_r3k
<1>6. CASE Acknowledged \/ Expire \/ ServiceBegins \/ ServiceEnds \/ UNCHANGED vars
  BY <1>1, <1>6 DEF Acknowledged, Expire, ServiceBegins, ServiceEnds, vars
<1> QED BY <1>2, <1>3, <1>5, <1>6 DEF Next, PowerCycle, WatchdogReset

LEMMA NextReported == ReportedFirst /\ [Next]_vars => ReportedFirst'
<1> SUFFICES ASSUME ReportedFirst, [Next]_vars PROVE ReportedFirst' OBVIOUS
<1> USE DEF ReportedFirst
<1>1. CASE \E t \in Callers : fsm_wdog_r3k(t)
  BY <1>1
  DEF fsm_wdog_r3k, Start, InitNIC, AfterNIC, WdogAck, Recover, TryReset, CountReset, GiveUp,
      WrstAck, ResetDisabled, HourOver, SaveZero, HourAck, WaitForWatchdog, Goto, Enter, fsm
<1>2. CASE Boot BY <1>2 DEF Boot
<1>3. CASE UNCHANGED <<wdogstate, ackng>> BY <1>3
<1> QED BY <1>1, <1>2, <1>3 DEF Next, Acknowledged, Expire, ServiceBegins, ServiceEnds,
     DailyClear, PowerCycle, WatchdogReset, fsm, vars

LEMMA Invariant == Spec => []Inv
<1>1. Inv /\ [Next]_vars => Inv' BY NextType, NextRetries, NextReported DEF Inv
<1> QED BY <1>1, InitInv, PTL DEF Spec

(***************************************************************************)
(* The function's state and the points where its callers block stay within *)
(* their types.                                                            *)
(***************************************************************************)
THEOREM TypeCorrect == Spec => []TypeOK
<1>1. Inv => TypeOK BY DEF Inv
<1> QED BY <1>1, Invariant, PTL

(***************************************************************************)
(* The count in the flash exceeds HBRESET_RETRIES by one at most, however  *)
(* the two callers race from its test to its increase, and at whatever     *)
(* point the panel restarts.                                               *)
(***************************************************************************)
THEOREM RetriesCorrect == Spec => []RetriesBounded
<1>1. Inv => RetriesBounded BY DEF Inv, RetriesInv, RetriesBounded
<1> QED BY <1>1, Invariant, PTL

(***************************************************************************)
(* No reset is on its way before the silence of the station was reported.  *)
(***************************************************************************)
THEOREM ReportedCorrect == Spec => []ReportedFirst
<1>1. Inv => ReportedFirst BY DEF Inv
<1> QED BY <1>1, Invariant, PTL
=============================================================================
