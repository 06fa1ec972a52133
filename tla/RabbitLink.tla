----------------------------- MODULE RabbitLink -----------------------------
(***************************************************************************)
(* RabbitTask: the exchange of events and heartbeats with the monitoring   *)
(* stations over UDP (protocols AP_NTSEC6 and AP_NTSEC7).                  *)
(*                                                                         *)
(* One step is one pass of the task's loop over one station.  Timers are   *)
(* abstract: whatever waits for SEC_TIMER may happen at any pass.  The     *)
(* network loses, repeats and reorders; the drain of the socket before a   *)
(* transmission removes only what has arrived, which such a network may    *)
(* bring again, so it needs no step.  The station is modelled from what    *)
(* the task expects of it.                                                 *)
(***************************************************************************)
EXTENDS Integers, FiniteSets

CONSTANTS
  Monitors,   \* the stations in use
  SecMax,     \* highest sequence number (0xFF)
  Licensed,   \* UDPLICOK_FLAG
  ShortAcks,  \* the station also sends two-byte acknowledgements
  SevenBis,   \* protocol AP_NTSEC7: a two-byte one leaves sec alone
  MaxEvents,  \* bound: events put in each transmit ring
  MaxReports, \* bound: 606 reports asked for by the link watchdog
  MaxLosses   \* bound: losses of the Ethernet link

ASSUME ConstantsAssumption ==
  /\ SecMax \in Nat /\ SecMax > 1
  /\ {Licensed, ShortAcks, SevenBis} \subseteq BOOLEAN
  /\ {MaxEvents, MaxReports, MaxLosses} \subseteq Nat

VARIABLES
  link,      \* ethlink_state == ETHLNK_CONNECTED
  st,        \* Monitoreo[m].state
  flags,     \* Monitoreo[m].flags
  sec,       \* Monitoreo[m].sec
  logged,    \* events put in the ring so far: event e is the e-th of them
  read,      \* events read out of the ring so far; its head is event read+1
  force,     \* FORCESND_FLAG
  e606,      \* E606SND_FLAG
  toServer,  \* packets on their way to the station
  acks,      \* sequence numbers acknowledged, on their way back
  delivered, \* history: what the station has received
  usedFor,   \* history: what has been sent under the current sec
  reports, losses \* counts of reports and of link losses

task    == <<st, flags, sec, read>>
network == <<toServer, acks, delivered, usedFor>>
reportFlags == <<force, e606>>
bounds  == <<reports, losses>>
vars == <<link, task, logged, reportFlags, network, bounds>>

Seconds   == 1..SecMax
Events    == 1..MaxEvents
Heartbeat == 0
Report606 == MaxEvents + 1 \* the 606 event built on the stack
Leftover  == MaxEvents + 2 \* the old content of an empty ring's element
Payload   == 0..(MaxEvents + 2)
Packet    == [sec : Seconds, what : Payload]
ShortAck  == 0

States == {"HOME", "READY", "WAITACK", "WAIT_CLOSE"}
Flags  == {"EVESND", "HBTSND", "SNDHBT"}

Waiting(m) == read[m] < logged[m]             \* eventRec_count != 0
NextEvent(m) == IF Waiting(m) THEN read[m] + 1 ELSE Leftover \* preReadEvent
\* Mutant: the number is left to its byte.
SecInc_NoWrap(s) == s + 1

SecInc(s) == IF s = SecMax THEN 1 ELSE s + 1

Init ==
  /\ link = TRUE
  /\ st = [m \in Monitors |-> "HOME"]
  /\ flags = [m \in Monitors |-> {}]
  /\ sec = [m \in Monitors |-> 1]
  /\ logged = [m \in Monitors |-> 0] /\ read = [m \in Monitors |-> 0]
  /\ force = FALSE /\ e606 = FALSE
  /\ toServer = [m \in Monitors |-> {}] /\ acks = [m \in Monitors |-> {}]
  /\ delivered = [m \in Monitors |-> {}] /\ usedFor = [m \in Monitors |-> {}]
  /\ reports = 0 /\ losses = 0

-----------------------------------------------------------------------------
(* Steps of the other tasks and of the station.                            *)

\* LogT_Task and the reloads fill the ring.
WriteEventToTxBuffer(m) ==
  /\ logged[m] < MaxEvents
  /\ logged' = [logged EXCEPT ![m] = @ + 1]
  /\ UNCHANGED <<link, task, reportFlags, network, bounds>>

\* fsm_wdog_r3k, in MACROMODE.
ReportLinkDown ==
  /\ reports < MaxReports
  /\ reports' = reports + 1
  /\ force' = TRUE /\ e606' = TRUE
  /\ UNCHANGED <<link, task, logged, network, losses>>

\* The station takes a packet and answers with its sequence number.
Acknowledge(m) ==
  /\ \E p \in toServer[m] :
       /\ delivered' = [delivered EXCEPT ![m] = @ \cup {p.what}]
       /\ \E n \in IF ShortAcks THEN {p.sec, ShortAck} ELSE {p.sec} :
            acks' = [acks EXCEPT ![m] = @ \cup {n}]
  /\ UNCHANGED <<link, task, logged, reportFlags, toServer, usedFor, bounds>>

-----------------------------------------------------------------------------
(* RabbitTask.                                                             *)

\* The link is tested every five seconds; the flags keep their values.
LinkLost ==
  /\ link /\ losses < MaxLosses
  /\ link' = FALSE /\ losses' = losses + 1
  /\ st' = [m \in Monitors |-> "HOME"]
  /\ UNCHANGED <<flags, sec, read, logged, reportFlags, network, reports>>

LinkBack ==
  /\ ~link
  /\ link' = TRUE
  /\ UNCHANGED <<task, logged, reportFlags, network, bounds>>

Goto(m, s, f) ==
  /\ st' = [st EXCEPT ![m] = s]
  /\ flags' = [flags EXCEPT ![m] = f]

Transmit(m, what) ==
  /\ toServer' = [toServer EXCEPT ![m] = @ \cup {[sec |-> sec[m], what |-> what]}]
  /\ usedFor' = [usedFor EXCEPT ![m] = @ \cup {what}]
  /\ UNCHANGED <<acks, delivered>>

\* NetSock_TxDataTo failed: the flags of the exchange stay set.
SendError(m, f) == Goto(m, "WAIT_CLOSE", f) /\ UNCHANGED network

(***************************************************************************)
(* The body of case SM_SOCK_READY, entered with flags f.  A pending report *)
(* overrides everything; it is sent once, to the station whose turn it is, *)
(* and does not wait for an answer.                                        *)
(***************************************************************************)
EventDue(m, f) == force \/ (Waiting(m) /\ "SNDHBT" \notin f /\ Licensed)

SendReport(m, f) ==
  /\ EventDue(m, f) /\ e606
  /\ e606' = FALSE
  /\ \/ /\ Transmit(m, Report606)
        /\ force' = FALSE
        /\ Goto(m, "READY", f \ {"EVESND", "SNDHBT"})
     \/ SendError(m, f) /\ UNCHANGED force

SendEvent(m, f) ==
  /\ EventDue(m, f) /\ ~e606
  /\ \/ Transmit(m, NextEvent(m)) /\ Goto(m, "WAITACK", f \cup {"EVESND"})
     \/ SendError(m, f)
  /\ UNCHANGED reportFlags

\* Mutant: the task does not note that a heartbeat is out.
SendHeartbeat_Unnoted(m, f) ==
  /\ ~EventDue(m, f)
  /\ \/ Transmit(m, Heartbeat) /\ Goto(m, "WAITACK", f)
     \/ SendError(m, f)
  /\ UNCHANGED reportFlags

SendHeartbeat(m, f) ==
  /\ ~EventDue(m, f)
  /\ \/ Transmit(m, Heartbeat) /\ Goto(m, "WAITACK", f \cup {"HBTSND"})
     \/ SendError(m, f)
  /\ UNCHANGED reportFlags

ReadyBody(m, f) == SendReport(m, f) \/ SendEvent(m, f) \/ SendHeartbeat(m, f)

RabbitStep(m) == link /\ UNCHANGED <<link, logged, bounds>>

(***************************************************************************)
(* case SM_HOME has no break: once the socket is open, or has failed to    *)
(* open, or the server's address is no address, the same pass goes on in   *)
(* the body of SM_SOCK_READY.  With a new socket the heartbeat is due.     *)
(***************************************************************************)
Home(m) ==
  /\ RabbitStep(m) /\ st[m] = "HOME"
  /\ ReadyBody(m, flags[m] \cup {"SNDHBT"})
  /\ UNCHANGED <<sec, read>>

HomeFails(m) ==
  /\ RabbitStep(m) /\ st[m] = "HOME"
  /\ \/ ReadyBody(m, flags[m])
     \/ /\ ~EventDue(m, flags[m])
        /\ \E s \in {"HOME", "WAIT_CLOSE"} : Goto(m, s, flags[m])
        /\ UNCHANGED <<reportFlags, network>>
  /\ UNCHANGED <<sec, read>>

Ready(m) ==
  /\ RabbitStep(m) /\ st[m] = "READY"
  /\ ReadyBody(m, flags[m])
  /\ UNCHANGED <<sec, read>>

(***************************************************************************)
(* case SM_SOCK_WAITACK.  A pending report makes the station READY for the *)
(* next pass, but the pass still looks for the answer; and the answer may  *)
(* come in the very pass that finds the deadline gone.                     *)
(***************************************************************************)
AfterDeadline(s) == {s, "WAIT_CLOSE"}
StillWaiting == IF force THEN "READY" ELSE "WAITACK"

\* Monitoreo[m].sec moves on; by then no packet of its last round is alive.
NextSec(m) ==
  LET s == SecInc(sec[m])
  IN /\ sec' = [sec EXCEPT ![m] = s]
     /\ toServer' = [toServer EXCEPT ![m] = {p \in @ : p.sec # s}]
     /\ acks' = [acks EXCEPT ![m] = @ \ {s}]
     /\ usedFor' = [usedFor EXCEPT ![m] = {}]
     /\ UNCHANGED delivered

\* Mutants: EVESND, or SNDHBT, is not cleared.
TakeAck_KeepsEVESND(m) ==
  \E s \in AfterDeadline("READY") :
    /\ Goto(m, s, flags[m] \ {"SNDHBT"})
    /\ read' = [read EXCEPT ![m] = IF Waiting(m) /\ "EVESND" \in flags[m] THEN @ + 1 ELSE @]
TakeAck_KeepsSNDHBT(m) ==
  \E s \in AfterDeadline("READY") :
    /\ Goto(m, s, flags[m] \ {"EVESND", "HBTSND"})
    /\ read' = [read EXCEPT ![m] = IF Waiting(m) /\ "EVESND" \in flags[m] THEN @ + 1 ELSE @]

\* EVESND is looked at first: it makes any matching answer the event's.
TakeAck(m) ==
  \E s \in AfterDeadline("READY") :
    \/ /\ "EVESND" \in flags[m]
       /\ Goto(m, s, flags[m] \ {"EVESND", "SNDHBT"})
       /\ read' = [read EXCEPT ![m] = IF Waiting(m) THEN @ + 1 ELSE @]
    \/ /\ "EVESND" \notin flags[m]
       /\ Goto(m, s, flags[m] \ {"HBTSND", "SNDHBT"})
       /\ UNCHANGED read

\* Mutant: the number of the acknowledgement is not compared.
ReceiveAck_Any(m) ==
  /\ RabbitStep(m) /\ st[m] = "WAITACK"
  /\ acks[m] # {} /\ NextSec(m)
  /\ TakeAck(m)
  /\ UNCHANGED reportFlags

ReceiveAck(m) ==
  /\ RabbitStep(m) /\ st[m] = "WAITACK"
  /\ \/ sec[m] \in acks[m] /\ NextSec(m)
     \/ ShortAck \in acks[m] /\ IF SevenBis THEN UNCHANGED <<sec, network>> ELSE NextSec(m)
  /\ TakeAck(m)
  /\ UNCHANGED reportFlags

\* Fifty-eight seconds without an answer: the same again.
Resend(m) ==
  /\ RabbitStep(m) /\ st[m] = "WAITACK"
  /\ flags[m] \cap {"EVESND", "HBTSND"} # {}
  /\ \/ /\ Transmit(m, IF "EVESND" \in flags[m] THEN NextEvent(m) ELSE Heartbeat)
        /\ \E s \in AfterDeadline(StillWaiting) : Goto(m, s, flags[m])
     \/ SendError(m, flags[m])
  /\ UNCHANGED <<sec, read, reportFlags>>

\* No answer, or one with another number.
NoAck(m) ==
  /\ RabbitStep(m) /\ st[m] = "WAITACK"
  /\ \E s \in AfterDeadline(StillWaiting) : Goto(m, s, flags[m])
  /\ UNCHANGED <<sec, read, reportFlags, network>>

\* Mutant: a new socket begins with a new number.
WaitClose_NewNumber(m) ==
  /\ RabbitStep(m) /\ st[m] = "WAIT_CLOSE"
  /\ Goto(m, "HOME", flags[m])
  /\ NextSec(m)
  /\ UNCHANGED <<read, reportFlags>>

WaitClose(m) ==
  /\ RabbitStep(m) /\ st[m] = "WAIT_CLOSE"
  /\ Goto(m, "HOME", flags[m])
  /\ UNCHANGED <<sec, read, reportFlags, network>>

-----------------------------------------------------------------------------
Next ==
  \/ ReportLinkDown \/ LinkLost \/ LinkBack
  \/ \E m \in Monitors :
       \/ WriteEventToTxBuffer(m) \/ Acknowledge(m)
       \/ Home(m) \/ HomeFails(m) \/ Ready(m)
       \/ ReceiveAck(m) \/ Resend(m) \/ NoAck(m) \/ WaitClose(m)

Spec == Init /\ [][Next]_vars

(***************************************************************************)
(* Fairness: what is repeated often enough gets through, sockets open and  *)
(* the link comes back; the loop itself never stops.                       *)
(***************************************************************************)
Answer(m) == Acknowledge(m) /\ sec[m] \in acks'[m]
GetsThrough(A, m) == A /\ st'[m] # "WAIT_CLOSE"

Fairness ==
  /\ WF_vars(LinkBack)
  /\ \A m \in Monitors :
       /\ WF_vars(WaitClose(m))
       /\ SF_vars(GetsThrough(Home(m), m)) /\ SF_vars(GetsThrough(Ready(m), m))
       /\ SF_vars(Answer(m)) /\ SF_vars(GetsThrough(ReceiveAck(m), m))
FairSpec == Spec /\ Fairness

-----------------------------------------------------------------------------
(* Properties.                                                             *)

\* The variables stay within their types.
TaskTypeOK ==
  /\ st \in [Monitors -> States] /\ flags \in [Monitors -> SUBSET Flags]
  /\ sec \in [Monitors -> Seconds]

RingTypeOK ==
  /\ logged \in [Monitors -> 0..MaxEvents] /\ read \in [Monitors -> 0..MaxEvents]
  /\ \A m \in Monitors : read[m] <= logged[m]

ReportTypeOK == force \in BOOLEAN /\ e606 \in BOOLEAN

NetworkTypeOK ==
  /\ toServer \in [Monitors -> SUBSET Packet]
  /\ acks \in [Monitors -> SUBSET (Seconds \cup {ShortAck})]
  /\ delivered \in [Monitors -> SUBSET Payload]
  /\ usedFor \in [Monitors -> SUBSET Payload]

TypeOK ==
  /\ TaskTypeOK /\ RingTypeOK /\ ReportTypeOK /\ NetworkTypeOK
  /\ link \in BOOLEAN /\ reports \in 0..MaxReports /\ losses \in 0..MaxLosses

ReadsOut(m) == read'[m] # read[m]
Head(m) == read[m] + 1

(***************************************************************************)
(* An event that leaves the ring, and will be marked as acknowledged, has  *)
(* reached the station.                                                    *)
(***************************************************************************)
AckedWasReceived ==
  [][\A m \in Monitors : ReadsOut(m) => Head(m) \in delivered[m]]_vars

(***************************************************************************)
(* What the sequence numbers do give: an event can leave the ring without  *)
(* having reached the station only if its number has not been the number   *)
(* of this event alone, or on an acknowledgement without a number.         *)
(***************************************************************************)
OnlyReuseLoses ==
  [][\A m \in Monitors :
       ReadsOut(m) =>
         Head(m) \in delivered[m] \/ usedFor[m] # {Head(m)} \/ ShortAck \in acks[m]]_vars

\* Whoever waits for an answer knows for what, and so repeats it: the branch
\* that gives up after five repetitions is never needed.
WaitsForSomething ==
  \A m \in Monitors : st[m] = "WAITACK" => flags[m] \cap {"EVESND", "HBTSND"} # {}

(***************************************************************************)
(* However exchanges are broken off, EVESND is set only while the event it *)
(* speaks of is still in the ring, unless a report sent an empty one.      *)
(***************************************************************************)
EventSentWaits ==
  reports = 0 => \A m \in Monitors : "EVESND" \in flags[m] => Waiting(m)

(***************************************************************************)
(* Repetitions of an event carry the number of the first, across timeouts, *)
(* closed sockets and link losses, so that a station can tell them apart;  *)
(* only a report can break in.                                             *)
(***************************************************************************)
OneNumber ==
  reports = 0 =>
    \A m \in Monitors : \A p, q \in toServer[m] :
      p.what = q.what /\ p.what \in Events => p.sec = q.sec

\* Neither heartbeats nor reports nor broken exchanges keep an event for ever.
EveryEventIsRead ==
  \A m \in Monitors, e \in Events : logged[m] >= e ~> read[m] >= e
=============================================================================
