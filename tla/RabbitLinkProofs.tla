-------------------------- MODULE RabbitLinkProofs --------------------------
(***************************************************************************)
(* Theorems about RabbitLink, for any stations, sequence numbers and       *)
(* bounds.                                                                 *)
(***************************************************************************)
EXTENDS RabbitLink, TLAPS

TypeParts == TaskTypeOK /\ RingTypeOK /\ ReportTypeOK /\ NetworkTypeOK

\* The next sequence number is another one.
LEMMA SecIncType ==
  ASSUME NEW s \in Seconds
  PROVE  SecInc(s) \in Seconds /\ SecInc(s) # s
  BY ConstantsAssumption DEF ConstantsAssumption, SecInc, Seconds

-----------------------------------------------------------------------------
(* Type correctness, on which the rest is built.                           *)

LEMMA GotoType ==
  ASSUME TaskTypeOK, NEW m \in Monitors, NEW s \in States, NEW f \in SUBSET Flags,
         Goto(m, s, f)
  PROVE  st' \in [Monitors -> States] /\ flags' \in [Monitors -> SUBSET Flags]
  BY DEF TaskTypeOK, Goto

LEMMA TransmitType ==
  ASSUME TaskTypeOK, NetworkTypeOK, NEW m \in Monitors, NEW w \in Payload, Transmit(m, w)
  PROVE  NetworkTypeOK'
  BY DEF TaskTypeOK, NetworkTypeOK, Transmit, Packet

LEMMA PayloadType ==
  ASSUME RingTypeOK, NEW m \in Monitors
  PROVE  {Heartbeat, Report606, Leftover, NextEvent(m)} \subseteq Payload
  BY ConstantsAssumption DEF ConstantsAssumption, RingTypeOK, Payload, Heartbeat,
     Report606, Leftover, NextEvent, Waiting

LEMMA NextSecType ==
  ASSUME TypeParts, NEW m \in Monitors, NextSec(m)
  PROVE  sec' \in [Monitors -> Seconds] /\ NetworkTypeOK'
<1>1. sec' \in [Monitors -> Seconds]
  BY SecIncType DEF NextSec, TypeParts, TaskTypeOK
<1>2. NetworkTypeOK'
  BY DEF NextSec, TypeParts, TaskTypeOK, NetworkTypeOK
<1> QED BY <1>1, <1>2

LEMMA ReadyBodyType ==
  ASSUME TypeParts, NEW m \in Monitors, NEW f \in SUBSET Flags, ReadyBody(m, f)
  PROVE  /\ st' \in [Monitors -> States] /\ flags' \in [Monitors -> SUBSET Flags]
         /\ ReportTypeOK' /\ NetworkTypeOK'
<1> {"READY", "WAITACK", "WAIT_CLOSE"} \subseteq States BY DEF States
<1> {Heartbeat, Report606, NextEvent(m)} \subseteq Payload BY PayloadType DEF TypeParts
<1> USE GotoType, TransmitType
    DEF SendError, network, reportFlags, TypeParts, ReportTypeOK, NetworkTypeOK
<1>1. CASE SendReport(m, f)
  <2>1. f \ {"EVESND", "SNDHBT"} \in SUBSET Flags OBVIOUS
  <2> QED BY <1>1, <2>1 DEF SendReport
<1>2. CASE SendEvent(m, f)
  <2>1. f \cup {"EVESND"} \in SUBSET Flags BY DEF Flags
  <2> QED BY <1>2, <2>1 DEF SendEvent
<1>3. CASE SendHeartbeat(m, f)
  <2>1. f \cup {"HBTSND"} \in SUBSET Flags BY DEF Flags
  <2> QED BY <1>3, <2>1 DEF SendHeartbeat
<1> QED BY <1>1, <1>2, <1>3 DEF ReadyBody

LEMMA InitType == Init => TypeOK
<1> SUFFICES ASSUME Init PROVE TypeOK OBVIOUS
<1> USE ConstantsAssumption DEF ConstantsAssumption, Init
<1>1. TaskTypeOK BY DEF TaskTypeOK, States, Flags, Seconds
<1>2. RingTypeOK BY DEF RingTypeOK
<1>3. ReportTypeOK BY DEF ReportTypeOK
<1>4. NetworkTypeOK BY DEF NetworkTypeOK
<1>5. link \in BOOLEAN /\ reports \in 0..MaxReports /\ losses \in 0..MaxLosses OBVIOUS
<1> QED BY <1>1, <1>2, <1>3, <1>4, <1>5 DEF TypeOK

LEMMA NextType == TypeOK /\ [Next]_vars => TypeOK'
<1> SUFFICES ASSUME TypeOK, [Next]_vars PROVE TypeOK' OBVIOUS
<1> USE ConstantsAssumption DEF ConstantsAssumption
<1>0. TypeParts BY DEF TypeOK, TypeParts
<1> USE DEF TypeOK, task, network, reportFlags, bounds
<1>1. CASE UNCHANGED vars
  BY <1>1 DEF vars, TaskTypeOK, RingTypeOK, ReportTypeOK, NetworkTypeOK
<1>2. CASE ReportLinkDown
  BY <1>2 DEF ReportLinkDown, TaskTypeOK, RingTypeOK, ReportTypeOK, NetworkTypeOK
<1>3. CASE LinkLost
  <2>1. TaskTypeOK' BY <1>3 DEF LinkLost, TaskTypeOK, States
  <2>2. losses < MaxLosses /\ losses' = losses + 1 /\ link' = FALSE BY <1>3 DEF LinkLost
  <2>3. losses' \in 0..MaxLosses BY <2>2
  <2>4. RingTypeOK' /\ ReportTypeOK' /\ NetworkTypeOK' /\ reports' = reports
    BY <1>3 DEF LinkLost, RingTypeOK, ReportTypeOK, NetworkTypeOK
  <2> QED BY <2>1, <2>2, <2>3, <2>4
<1>4. CASE LinkBack
  BY <1>4 DEF LinkBack, TaskTypeOK, RingTypeOK, ReportTypeOK, NetworkTypeOK
<1>5. ASSUME NEW m \in Monitors, WriteEventToTxBuffer(m) PROVE TypeOK'
  <2>1. RingTypeOK' BY <1>5 DEF WriteEventToTxBuffer, RingTypeOK, task
  <2> QED BY <1>5, <2>1 DEF WriteEventToTxBuffer, TaskTypeOK, ReportTypeOK, NetworkTypeOK
<1>6. ASSUME NEW m \in Monitors, Acknowledge(m) PROVE TypeOK'
  <2>1. NetworkTypeOK' BY <1>6 DEF Acknowledge, NetworkTypeOK, Packet
  <2> QED BY <1>6, <2>1 DEF Acknowledge, TaskTypeOK, RingTypeOK, ReportTypeOK
<1>7. ASSUME NEW m \in Monitors, NEW f \in SUBSET Flags, ReadyBody(m, f), RabbitStep(m),
             UNCHANGED <<sec, read>>
      PROVE  TypeOK'
  <2>1. /\ st' \in [Monitors -> States] /\ flags' \in [Monitors -> SUBSET Flags]
        /\ ReportTypeOK' /\ NetworkTypeOK'
    BY <1>0, <1>7, ReadyBodyType
  <2> QED BY <1>7, <2>1 DEF RabbitStep, TaskTypeOK, RingTypeOK
<1>8. ASSUME NEW m \in Monitors, Home(m) PROVE TypeOK'
  <2>1. flags[m] \cup {"SNDHBT"} \in SUBSET Flags BY DEF TaskTypeOK, Flags
  <2> QED BY <1>7, <1>8, <2>1 DEF Home
<1>9. ASSUME NEW m \in Monitors, NEW s \in States, NEW f \in SUBSET Flags, Goto(m, s, f),
             RabbitStep(m), UNCHANGED <<sec, read, reportFlags, network>>
      PROVE  TypeOK'
  <2>1. st' \in [Monitors -> States] /\ flags' \in [Monitors -> SUBSET Flags]
    BY <1>9, GotoType
  <2> QED BY <1>9, <2>1 DEF RabbitStep, TaskTypeOK, RingTypeOK, ReportTypeOK, NetworkTypeOK
<1>10. ASSUME NEW m \in Monitors, HomeFails(m) PROVE TypeOK'
  <2>1. flags[m] \in SUBSET Flags /\ {"HOME", "WAIT_CLOSE"} \subseteq States
    BY DEF TaskTypeOK, States
  <2> QED BY <1>7, <1>9, <1>10, <2>1 DEF HomeFails
<1>11. ASSUME NEW m \in Monitors, Ready(m) PROVE TypeOK'
  <2>1. flags[m] \in SUBSET Flags BY DEF TaskTypeOK
  <2> QED BY <1>7, <1>11, <2>1 DEF Ready
<1>12. ASSUME NEW m \in Monitors, ReceiveAck(m) PROVE TypeOK'
  <2>1. /\ st' \in [Monitors -> States] /\ flags' \in [Monitors -> SUBSET Flags]
        /\ read' \in [Monitors -> 0..MaxEvents]
        /\ \A n \in Monitors : read'[n] <= logged[n]
    BY <1>12 DEF ReceiveAck, TakeAck, Goto, AfterDeadline, States, TaskTypeOK, RingTypeOK,
       Waiting
  <2>2. sec' \in [Monitors -> Seconds] /\ NetworkTypeOK'
    <3>1. CASE NextSec(m) BY <1>0, <3>1, NextSecType
    <3>2. CASE UNCHANGED <<sec, network>> BY <3>2 DEF TaskTypeOK, NetworkTypeOK
    <3> QED BY <1>12, <3>1, <3>2 DEF ReceiveAck
  <2> QED BY <1>12, <2>1, <2>2 DEF ReceiveAck, RabbitStep, TaskTypeOK, RingTypeOK, ReportTypeOK
<1>13. ASSUME NEW m \in Monitors, Resend(m) PROVE TypeOK'
  <2>1. flags[m] \in SUBSET Flags /\ {"READY", "WAITACK", "WAIT_CLOSE"} \subseteq States
    BY DEF TaskTypeOK, States
  <2>2. NetworkTypeOK'
    BY <1>13, TransmitType, PayloadType DEF Resend, SendError, NetworkTypeOK
  <2>3. st' \in [Monitors -> States] /\ flags' \in [Monitors -> SUBSET Flags]
    BY <1>13, <2>1, GotoType DEF Resend, SendError, AfterDeadline, StillWaiting
  <2> QED BY <1>13, <2>2, <2>3 DEF Resend, RabbitStep, TaskTypeOK, RingTypeOK, ReportTypeOK
<1>14. ASSUME NEW m \in Monitors, NoAck(m) PROVE TypeOK'
  <2>1. flags[m] \in SUBSET Flags /\ {"READY", "WAITACK", "WAIT_CLOSE"} \subseteq States
    BY DEF TaskTypeOK, States
  <2> QED BY <1>9, <1>14, <2>1 DEF NoAck, AfterDeadline, StillWaiting
<1>15. ASSUME NEW m \in Monitors, WaitClose(m) PROVE TypeOK'
  <2>1. flags[m] \in SUBSET Flags /\ "HOME" \in States BY DEF TaskTypeOK, States
  <2> QED BY <1>9, <1>15, <2>1 DEF WaitClose
<1> QED
  BY <1>1, <1>2, <1>3, <1>4, <1>5, <1>6, <1>8, <1>10, <1>11, <1>12, <1>13, <1>14, <1>15
  DEF Next

(***************************************************************************)
(* Whatever the network and the other tasks do, RabbitTask's state, flags, *)
(* sequence numbers and ring positions stay within their types: a ring is  *)
(* never read past what has been written into it.                          *)
(***************************************************************************)
THEOREM TypeCorrect == Spec => []TypeOK
<1> QED BY InitType, NextType, PTL DEF Spec

-----------------------------------------------------------------------------
(***************************************************************************)
(* The inductive invariant.  While no report has broken in, a packet with  *)
(* an event is either of an event already read out, or of the one at the   *)
(* head under the current number with EVESND set.  Packets with the        *)
(* current number carry what usedFor says, and its acknowledgement means   *)
(* that some of that has arrived.                                          *)
(***************************************************************************)
NoReport == reports = 0 => ~force /\ ~e606

Sent(m, p) ==
  \/ p.what <= read[m]
  \/ p.what = read[m] + 1 /\ p.sec = sec[m] /\ "EVESND" \in flags[m]
Numbered ==
  reports = 0 =>
    \A m \in Monitors : \A p \in toServer[m] : p.what \in Events => Sent(m, p)

SecSound ==
  \A m \in Monitors :
    /\ \A p \in toServer[m] : p.sec = sec[m] => p.what \in usedFor[m]
    /\ sec[m] \in acks[m] => \E w \in usedFor[m] : w \in delivered[m]

Inv == WaitsForSomething /\ NoReport /\ EventSentWaits /\ OneNumber /\ Numbered /\ SecSound

Waits(f) == f \cap {"EVESND", "HBTSND"} # {}

(***************************************************************************)
(* What a pass that reads nothing out and leaves sec alone does to its     *)
(* station, entered with flags f.                                          *)
(***************************************************************************)
Sends(m) ==
  \E w \in Payload : Transmit(m, w) /\ (w \in Events => w = read[m] + 1 /\ "EVESND" \in flags'[m])

Pass(m, f) ==
  /\ \A n \in Monitors \ {m} : st'[n] = st[n] /\ flags'[n] = flags[n]
  /\ st'[m] = "WAITACK" => Waits(flags'[m])
  /\ "EVESND" \in flags'[m] => "EVESND" \in f \/ force \/ Waiting(m)
  /\ "EVESND" \in f /\ ~e606 => "EVESND" \in flags'[m]
  /\ ~force /\ ~e606 => ~force' /\ ~e606'
  /\ UNCHANGED network \/ Sends(m)

LEMMA ReadyBodyPass ==
  ASSUME TypeOK, NEW m \in Monitors, NEW f \in SUBSET Flags, ReadyBody(m, f)
  PROVE  Pass(m, f)
<1> TaskTypeOK /\ RingTypeOK BY DEF TypeOK
<1>1. /\ {Heartbeat, Report606, NextEvent(m)} \subseteq Payload
      /\ Heartbeat \notin Events /\ Report606 \notin Events
      /\ NextEvent(m) \in Events => NextEvent(m) = read[m] + 1
  <2>1. Heartbeat \notin Events /\ Report606 \notin Events /\ Leftover \notin Events
    BY ConstantsAssumption DEF ConstantsAssumption, Heartbeat, Report606, Leftover, Events
  <2> QED BY <2>1, PayloadType DEF NextEvent
<1>2. CASE SendReport(m, f)
  <2>1. CASE Transmit(m, Report606) /\ Goto(m, "READY", f \ {"EVESND", "SNDHBT"})
    BY <1>1, <1>2, <2>1 DEF SendReport, Pass, Goto, Sends, TaskTypeOK
  <2>2. CASE SendError(m, f)
    BY <1>2, <2>2 DEF SendReport, SendError, Pass, Goto, TaskTypeOK
  <2> QED BY <1>2, <2>1, <2>2 DEF SendReport
<1>3. CASE SendEvent(m, f)
  <2>1. CASE Transmit(m, NextEvent(m)) /\ Goto(m, "WAITACK", f \cup {"EVESND"})
    BY <1>1, <1>3, <2>1 DEF SendEvent, EventDue, Pass, Goto, Sends, TaskTypeOK, reportFlags, Waits
  <2>2. CASE SendError(m, f)
    BY <1>3, <2>2 DEF SendEvent, SendError, Pass, Goto, TaskTypeOK, reportFlags
  <2> QED BY <1>3, <2>1, <2>2 DEF SendEvent
<1>4. CASE SendHeartbeat(m, f)
  <2>1. CASE Transmit(m, Heartbeat) /\ Goto(m, "WAITACK", f \cup {"HBTSND"})
    BY <1>1, <1>4, <2>1 DEF SendHeartbeat, Pass, Goto, Sends, TaskTypeOK, reportFlags, Waits
  <2>2. CASE SendError(m, f)
    BY <1>4, <2>2 DEF SendHeartbeat, SendError, Pass, Goto, TaskTypeOK, reportFlags
  <2> QED BY <1>4, <2>1, <2>2 DEF SendHeartbeat
<1> QED BY <1>2, <1>3, <1>4 DEF ReadyBody

\* A pass that only changes the state, and waits on only with its flags.
LEMMA GotoPass ==
  ASSUME TypeOK, NEW m \in Monitors, NEW s \in States, Goto(m, s, flags[m]),
         UNCHANGED <<reportFlags, network>>, s = "WAITACK" => Waits(flags[m])
  PROVE  Pass(m, flags[m])
  BY DEF TypeOK, TaskTypeOK, Goto, Pass, reportFlags

LEMMA ResendPass ==
  ASSUME TypeOK, NEW m \in Monitors, Resend(m)
  PROVE  Pass(m, flags[m])
<1> TaskTypeOK /\ RingTypeOK BY DEF TypeOK
<1>1. /\ {Heartbeat, NextEvent(m)} \subseteq Payload /\ Heartbeat \notin Events
      /\ NextEvent(m) \in Events => NextEvent(m) = read[m] + 1
  <2>1. Heartbeat \notin Events /\ Leftover \notin Events
    BY ConstantsAssumption DEF ConstantsAssumption, Heartbeat, Leftover, Events
  <2> QED BY <2>1, PayloadType DEF NextEvent
<1>2. \E s : Goto(m, s, flags[m])
  BY DEF Resend, SendError
<1>3. flags' = flags /\ \A n \in Monitors \ {m} : st'[n] = st[n]
  BY <1>2 DEF Goto, TaskTypeOK
<1>4. Waits(flags[m]) /\ UNCHANGED reportFlags
  BY DEF Resend, Waits
<1>5. UNCHANGED network \/ Sends(m)
  BY <1>1, <1>3 DEF Resend, SendError, Sends
<1> QED BY <1>3, <1>4, <1>5 DEF Pass, reportFlags

LEMMA PassInv ==
  ASSUME TypeOK, Inv, NEW m \in Monitors, NEW f \in SUBSET Flags, Pass(m, f),
         "EVESND" \in f <=> "EVESND" \in flags[m],
         UNCHANGED <<link, logged, bounds, sec, read>>
  PROVE  Inv'
<1> TaskTypeOK /\ NetworkTypeOK /\ RingTypeOK BY DEF TypeOK
<1> USE DEF bounds
<1>1. WaitsForSomething' BY DEF Pass, Inv, WaitsForSomething, Waits
<1>2. NoReport' BY DEF Pass, Inv, NoReport
<1>3. EventSentWaits' BY DEF Pass, Inv, NoReport, EventSentWaits, Waiting
<1>4. CASE UNCHANGED network
  <2>1. OneNumber' BY <1>4 DEF Inv, OneNumber, network
  <2>2. Numbered' BY <1>4 DEF Pass, Inv, NoReport, Numbered, Sent, network
  <2>3. SecSound' BY <1>4 DEF Inv, SecSound, network
  <2> QED BY <1>1, <1>2, <1>3, <2>1, <2>2, <2>3 DEF Inv
<1>5. CASE Sends(m)
  <2>1. PICK w \in Payload :
          Transmit(m, w) /\ (w \in Events => w = read[m] + 1 /\ "EVESND" \in flags'[m])
    BY <1>5 DEF Sends
  <2>2. /\ toServer'[m] = toServer[m] \cup {[sec |-> sec[m], what |-> w]}
        /\ usedFor'[m] = usedFor[m] \cup {w}
        /\ \A n \in Monitors \ {m} : toServer'[n] = toServer[n] /\ usedFor'[n] = usedFor[n]
        /\ UNCHANGED <<acks, delivered>>
    BY <2>1 DEF Transmit, NetworkTypeOK
  <2>3. Numbered'
    BY <2>1, <2>2 DEF Pass, Inv, NoReport, Numbered, Sent
  <2>4. OneNumber'
    <3> SUFFICES ASSUME reports = 0, NEW n \in Monitors,
                        NEW p \in toServer'[n], NEW q \in toServer'[n],
                        p.what = q.what, p.what \in Events
                 PROVE  p.sec = q.sec
      BY DEF OneNumber
    <3>1. CASE p \in toServer[n] /\ q \in toServer[n]
      BY <3>1 DEF Inv, OneNumber
    <3>2. CASE n = m /\ w \in Events /\ w = p.what
      <4>1. \A r \in toServer[m] : r.what = w => r.sec = sec[m]
        BY <2>1, <3>2 DEF Inv, Numbered, Sent, RingTypeOK
      <4> QED BY <2>2, <3>2, <4>1
    <3> QED BY <2>2, <3>1, <3>2
  <2>5. SecSound' BY <2>2 DEF Inv, SecSound
  <2> QED BY <1>1, <1>2, <1>3, <2>3, <2>4, <2>5 DEF Inv
<1> QED BY <1>4, <1>5 DEF Pass

-----------------------------------------------------------------------------
LEMMA InitInv == Init => Inv
  BY ConstantsAssumption
  DEF ConstantsAssumption, Init, Inv, WaitsForSomething, NoReport, EventSentWaits, OneNumber,
      Numbered, SecSound

\* An acknowledgement: the flags of the exchange go, and an event with them.
LEMMA ReceiveAckInv ==
  ASSUME TypeOK, Inv, NEW m \in Monitors, ReceiveAck(m)
  PROVE  Inv'
<1> TaskTypeOK /\ NetworkTypeOK /\ RingTypeOK BY DEF TypeOK
<1> UNCHANGED <<link, logged, bounds, reportFlags>> BY DEF ReceiveAck, RabbitStep
<1> USE DEF bounds, reportFlags
<1>1. /\ \A n \in Monitors \ {m} : /\ st'[n] = st[n] /\ flags'[n] = flags[n]
                                   /\ read'[n] = read[n]
      /\ st'[m] # "WAITACK" /\ "EVESND" \notin flags'[m]
      /\ IF "EVESND" \in flags[m] /\ Waiting(m) THEN read'[m] = read[m] + 1
                                                ELSE read'[m] = read[m]
  BY DEF ReceiveAck, TakeAck, Goto, AfterDeadline, TaskTypeOK, RingTypeOK
<1>2. WaitsForSomething' /\ NoReport' /\ EventSentWaits'
  BY <1>1 DEF Inv, WaitsForSomething, NoReport, EventSentWaits, Waiting
<1>3. /\ \A n \in Monitors : toServer'[n] \subseteq toServer[n]
      /\ \A n \in Monitors \ {m} : sec'[n] = sec[n]
  BY DEF ReceiveAck, NextSec, network, NetworkTypeOK, TaskTypeOK
<1>4. OneNumber' BY <1>3 DEF Inv, OneNumber
<1>5. Numbered'
  <2> SUFFICES ASSUME reports = 0, NEW n \in Monitors, NEW p \in toServer'[n],
                      p.what \in Events
               PROVE  Sent(n, p)'
    BY DEF Numbered
  <2>1. p \in toServer[n] /\ Sent(n, p) BY <1>3 DEF Inv, Numbered
  <2>2. CASE n # m BY <1>1, <1>3, <2>1, <2>2 DEF Sent
  <2>3. CASE n = m
    <3>1. "EVESND" \in flags[m] => Waiting(m) BY DEF Inv, EventSentWaits
    <3>2. read[m] \in Int /\ p.what \in Int
      BY ConstantsAssumption DEF ConstantsAssumption, RingTypeOK, Events
    <3>3. p.what <= read'[m]
      BY <1>1, <2>1, <2>3, <3>1, <3>2 DEF Sent, RingTypeOK
    <3> QED BY <2>3, <3>3 DEF Sent
  <2> QED BY <2>2, <2>3
<1>6. SecSound'
  <2>1. NextSec(m) \/ UNCHANGED <<sec, network>> BY DEF ReceiveAck
  <2>2. ASSUME UNCHANGED <<sec, network>> PROVE SecSound'
    BY <2>2 DEF Inv, SecSound, network
  <2>3. ASSUME NextSec(m) PROVE SecSound'
    <3>1. /\ sec'[m] = SecInc(sec[m]) /\ delivered' = delivered
          /\ \A p \in toServer'[m] : p.sec # sec'[m]
          /\ acks'[m] = acks[m] \ {sec'[m]}
          /\ \A n \in Monitors \ {m} : /\ toServer'[n] = toServer[n] /\ acks'[n] = acks[n]
                                       /\ usedFor'[n] = usedFor[n] /\ sec'[n] = sec[n]
      BY <2>3 DEF NextSec, NetworkTypeOK, TaskTypeOK
    <3> QED BY <3>1 DEF Inv, SecSound
  <2> QED BY <2>1, <2>2, <2>3
<1> QED BY <1>2, <1>4, <1>5, <1>6 DEF Inv

LEMMA NextInv == TypeOK /\ Inv /\ [Next]_vars => Inv'
<1> SUFFICES ASSUME TypeOK, Inv, [Next]_vars PROVE Inv' OBVIOUS
<1> TaskTypeOK /\ NetworkTypeOK /\ RingTypeOK BY DEF TypeOK
<1> USE DEF task, network, reportFlags, bounds
<1>1. CASE UNCHANGED vars
  BY <1>1 DEF vars, Inv, WaitsForSomething, NoReport, EventSentWaits, OneNumber, Numbered,
     SecSound, Waiting, Sent
<1>2. CASE ReportLinkDown
  <2>1. reports' = reports + 1 /\ reports \in Nat /\ UNCHANGED <<task, logged, network>>
    BY <1>2, ConstantsAssumption DEF ReportLinkDown, TypeOK, ConstantsAssumption
  <2>2. reports' # 0 BY <2>1
  <2> QED BY <2>1, <2>2 DEF Inv, WaitsForSomething, NoReport, EventSentWaits, OneNumber,
      Numbered, SecSound
<1>3. CASE LinkLost
  <2>1. /\ UNCHANGED <<flags, sec, read, logged, reportFlags, network, reports>>
        /\ st' = [m \in Monitors |-> "HOME"]
    BY <1>3 DEF LinkLost
  <2> QED BY <2>1 DEF Inv, WaitsForSomething, NoReport, EventSentWaits, OneNumber, Numbered,
     SecSound, Waiting, Sent
<1>4. CASE LinkBack
  BY <1>4 DEF LinkBack, Inv, WaitsForSomething, NoReport, EventSentWaits, OneNumber,
     Numbered, SecSound, Waiting, Sent
<1>5. ASSUME NEW m \in Monitors, WriteEventToTxBuffer(m) PROVE Inv'
  <2>1. /\ UNCHANGED <<task, reportFlags, network, bounds>>
        /\ \A n \in Monitors : Waiting(n) => Waiting(n)'
    BY <1>5 DEF WriteEventToTxBuffer, RingTypeOK, Waiting
  <2> QED BY <2>1 DEF Inv, WaitsForSomething, NoReport, EventSentWaits, OneNumber, Numbered,
     SecSound, Sent
<1>6. ASSUME NEW m \in Monitors, Acknowledge(m) PROVE Inv'
  <2>1. PICK p \in toServer[m] :
          /\ delivered' = [delivered EXCEPT ![m] = @ \cup {p.what}]
          /\ \E number \in IF ShortAcks THEN {p.sec, ShortAck} ELSE {p.sec} :
               acks' = [acks EXCEPT ![m] = @ \cup {number}]
    BY <1>6 DEF Acknowledge
  <2>2. UNCHANGED <<task, logged, reportFlags, toServer, usedFor, bounds>>
    BY <1>6 DEF Acknowledge
  <2>3. SecSound'
    <3>1. PICK n \in {p.sec, ShortAck} : acks' = [acks EXCEPT ![m] = @ \cup {n}]
      BY <2>1
    <3>2. p.sec \in Seconds
      BY DEF NetworkTypeOK, Packet
    <3>3. sec[m] # ShortAck
      BY DEF TaskTypeOK, ShortAck, Seconds
    <3>4. sec[m] \in acks'[m] => sec[m] \in acks[m] \/ p.sec = sec[m]
      BY <3>1, <3>3 DEF NetworkTypeOK
    <3>5. /\ delivered'[m] = delivered[m] \cup {p.what}
          /\ \A o \in Monitors \ {m} : acks'[o] = acks[o] /\ delivered'[o] = delivered[o]
      BY <2>1, <3>1 DEF NetworkTypeOK
    <3> QED BY <2>1, <2>2, <3>4, <3>5 DEF Inv, SecSound
  <2> QED BY <2>2, <2>3 DEF Inv, WaitsForSomething, NoReport, EventSentWaits, OneNumber,
      Numbered, Sent, Waiting
<1>7. ASSUME NEW m \in Monitors, Home(m) PROVE Inv'
  <2> DEFINE f == flags[m] \cup {"SNDHBT"}
  <2>1. f \in SUBSET Flags /\ ("EVESND" \in f <=> "EVESND" \in flags[m])
    BY DEF TaskTypeOK, Flags
  <2>2. ReadyBody(m, f) /\ UNCHANGED <<link, logged, bounds, sec, read>>
    BY <1>7 DEF Home, RabbitStep
  <2> QED BY <2>1, <2>2, ReadyBodyPass, PassInv
<1>8. ASSUME NEW m \in Monitors, Pass(m, flags[m]), UNCHANGED <<link, logged, bounds, sec, read>>
      PROVE  Inv'
  <2>1. flags[m] \in SUBSET Flags BY DEF TaskTypeOK
  <2> QED BY <1>8, <2>1, PassInv
<1>9. ASSUME NEW m \in Monitors, ReadyBody(m, flags[m]) PROVE Pass(m, flags[m])
  <2>1. flags[m] \in SUBSET Flags BY DEF TaskTypeOK
  <2> QED BY <1>9, <2>1, ReadyBodyPass
<1>10. ASSUME NEW m \in Monitors, HomeFails(m) PROVE Inv'
  <2>1. Pass(m, flags[m])
    BY <1>9, <1>10, GotoPass DEF HomeFails, States
  <2> QED BY <1>8, <1>10, <2>1 DEF HomeFails, RabbitStep
<1>11. ASSUME NEW m \in Monitors, Ready(m) PROVE Inv'
  BY <1>8, <1>9, <1>11 DEF Ready, RabbitStep
<1>12. ASSUME NEW m \in Monitors, ReceiveAck(m) PROVE Inv'
  BY <1>12, ReceiveAckInv
<1>13. ASSUME NEW m \in Monitors, Resend(m) PROVE Inv'
  BY <1>8, <1>13, ResendPass DEF Resend, RabbitStep
<1>14. ASSUME NEW m \in Monitors, NoAck(m) PROVE Inv'
  <2>1. Waits(flags[m]) BY <1>14 DEF NoAck, Inv, WaitsForSomething, Waits
  <2>2. Pass(m, flags[m])
    BY <1>14, <2>1, GotoPass DEF NoAck, AfterDeadline, StillWaiting, States
  <2> QED BY <1>8, <1>14, <2>2 DEF NoAck, RabbitStep
<1>15. ASSUME NEW m \in Monitors, WaitClose(m) PROVE Inv'
  <2>1. Pass(m, flags[m]) BY <1>15, GotoPass DEF WaitClose, States
  <2> QED BY <1>8, <1>15, <2>1 DEF WaitClose, RabbitStep
<1> QED
  BY <1>1, <1>2, <1>3, <1>4, <1>5, <1>6, <1>7, <1>10, <1>11, <1>12, <1>13, <1>14, <1>15
  DEF Next

LEMMA Invariant == Spec => [](TypeOK /\ Inv)
<1>1. Init => TypeOK /\ Inv BY InitType, InitInv
<1>2. TypeOK /\ Inv /\ [Next]_vars => (TypeOK /\ Inv)' BY NextType, NextInv
<1> QED BY <1>1, <1>2, PTL DEF Spec

(***************************************************************************)
(* The branch of SM_SOCK_WAITACK that gives up after five repetitions of   *)
(* nothing is never taken.                                                 *)
(***************************************************************************)
THEOREM WaitsCorrect == Spec => []WaitsForSomething
<1>1. Inv => WaitsForSomething BY DEF Inv
<1> QED BY <1>1, Invariant, PTL

(***************************************************************************)
(* Without reports, EVESND speaks of an event that is still in the ring,   *)
(* so that the acknowledgement it waits for reads out that event.          *)
(***************************************************************************)
THEOREM EventSentCorrect == Spec => []EventSentWaits
<1>1. Inv => EventSentWaits BY DEF Inv
<1> QED BY <1>1, Invariant, PTL

(***************************************************************************)
(* Without reports, all transmissions of an event carry one number: the    *)
(* station can tell a repetition from a new event.                         *)
(***************************************************************************)
THEOREM OneNumberCorrect == Spec => []OneNumber
<1>1. Inv => OneNumber BY DEF Inv
<1> QED BY <1>1, Invariant, PTL

(***************************************************************************)
(* An event is lost on the way only under a number that was also used for  *)
(* something else: a heartbeat, a report, an event of before; or on a      *)
(* two-byte acknowledgement, which has no number.                          *)
(***************************************************************************)
THEOREM ReuseCorrect == Spec => OnlyReuseLoses
<1>1. TypeOK /\ Inv /\ [Next]_vars =>
        [\A m \in Monitors :
           ReadsOut(m) =>
             Head(m) \in delivered[m] \/ usedFor[m] # {Head(m)} \/ ShortAck \in acks[m]]_vars
  <2> SUFFICES ASSUME TypeOK, Inv, Next, NEW m \in Monitors, ReadsOut(m),
                      usedFor[m] = {Head(m)}, ShortAck \notin acks[m]
               PROVE  Head(m) \in delivered[m]
    OBVIOUS
  <2> TaskTypeOK /\ RingTypeOK BY DEF TypeOK
  <2>1. ReceiveAck(m)
    <3>1. ASSUME NEW n \in Monitors, ReceiveAck(n) PROVE n = m
      BY <3>1 DEF ReadsOut, ReceiveAck, TakeAck, RingTypeOK
    <3>2. ASSUME UNCHANGED read PROVE FALSE BY <3>2 DEF ReadsOut
    <3> QED BY <3>1, <3>2 DEF Next, ReportLinkDown, LinkLost, LinkBack, task,
        WriteEventToTxBuffer, Acknowledge, Home, HomeFails, Ready, Resend, NoAck, WaitClose
  <2>2. sec[m] \in acks[m] BY <2>1 DEF ReceiveAck
  <2> QED BY <2>2 DEF Inv, SecSound
<1> QED BY <1>1, Invariant, PTL DEF Spec, OnlyReuseLoses
=============================================================================
