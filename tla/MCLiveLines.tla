---------------------------- MODULE MCLiveLines -----------------------------
(***************************************************************************)
(* What the door, the bus and the lines of the log must come to, for TLC:  *)
(* Autoprotect, BusTamper, Lan485Poll, LogQueue, R3kSerial and DataFlash   *)
(* under their fairness.  A behaviour is one of a single part; the         *)
(* variables of each part are in the order of its module.                  *)
(***************************************************************************)
EXTENDS Integers, Sequences, FiniteSets, TLC

VARIABLES
  part, \* which part the behaviour is of
  d1, d2, d3, d4, d5, d6, d7, d8, d9, d10, d11, d12, d13, d14, d15, d16, d17, d18, \* those of Autoprotect
  t1, t2, t3, t4, t5, t6, t7, t8, t9, \* those of BusTamper
  r1, r2, r3, r4, r5, r6, r7, r8, r9, \* and again, with other modules
  b1, b2, b3, b4, b5, b6, b7, b8, b9, b10, b11, b12, b13, b14, \* those of Lan485Poll
  q1, q2, q3, q4, q5, q6, q7, q8, q9, q10, \* those of LogQueue
  l1, l2, l3, l4, l5, l6, l7, l8, l9, l10, l11, l12, l13, l14, l15, l16, l17, l18, \* those of R3kSerial
  f1, f2, f3, f4, f5, f6, f7, f8, f9 \* those of DataFlash

doorHeld == <<d1, d2, d3, d4, d5, d6, d7, d8, d9, d10, d11, d12, d13, d14, d15, d16,
              d17, d18>>
tamperHeld == <<t1, t2, t3, t4, t5, t6, t7, t8, t9>>
relaysHeld == <<r1, r2, r3, r4, r5, r6, r7, r8, r9>>
busHeld == <<b1, b2, b3, b4, b5, b6, b7, b8, b9, b10, b11, b12, b13, b14>>
logHeld == <<q1, q2, q3, q4, q5, q6, q7, q8, q9, q10>>
linkHeld == <<l1, l2, l3, l4, l5, l6, l7, l8, l9, l10, l11, l12, l13, l14, l15, l16,
              l17, l18>>
flashHeld == <<f1, f2, f3, f4, f5, f6, f7, f8, f9>>
all == <<part, doorHeld, tamperHeld, relaysHeld, busHeld, logHeld, linkHeld, flashHeld>>

\* Two pages that share a buffer, and one of their own.
Buffers == "cfg" :> 1 @@ "ev1" :> 2 @@ "ev2" :> 2

\* The door, and the reset after power comes back.
Door == INSTANCE Autoprotect WITH
  PowerOn <- TRUE, MaxButtons <- 0, MaxReboots <- 0, door <- d1, dap <- d2, line <- d3,
  button <- d4, valid <- d5, arstok <- d6, arst <- d7, ap <- d8, reset <- d9, tesoro <- d10,
  flags <- d11, kept <- d12, tries <- d13, given <- d14, early <- d15, admitted <- d16,
  open388 <- d17, missed <- d18

\* A module whose trouble cuts the supply.
Tamper == INSTANCE BusTamper WITH
  Kinds <- <<"cid">>, Panels <- {}, OffSecs <- 0, SettleSecs <- 0, CommSecs <- 0,
  EvoSecs <- 0, MaxResets <- 0, Watched <- {}, ng <- t1, trouble <- t2, base <- t3,
  panel <- t4, hist1 <- t5, histPtm <- t6, lan <- t7, resets <- t8, raced <- t9

\* One whose trouble does not, and one of relays.
Relays == INSTANCE BusTamper WITH
  Kinds <- <<"ptm", "rele">>, Panels <- {}, OffSecs <- 0, SettleSecs <- 0, CommSecs <- 0,
  EvoSecs <- 0, MaxResets <- 0, Watched <- {}, ng <- r1, trouble <- r2, base <- r3,
  panel <- r4, hist1 <- r5, histPtm <- r6, lan <- r7, resets <- r8, raced <- r9

\* One module, its events, a command to arm and a bad line.
Bus == INSTANCE Lan485Poll WITH
  N <- 1, Special <- {}, Limit <- 1, ErrSize <- 5, MaxEvents <- 1, MaxLines <- 2,
  MaxCmds <- 1, MaxBoots <- 0, Kinds <- {"garbled"},
  Watched <- {"late", "foreign", "word", "shared", "crash", "undone"}, mod <- b1,
  task <- b2, cur <- b3, clear <- b4, hist <- b5, rot <- b6, line <- b7, box <- b8,
  logged <- b9, open <- b10, good <- b11, asked <- b12, used <- b13, raced <- b14

\* Two tasks log events and LogT_Task stores them.
Log == INSTANCE LogQueue WITH
  Producers <- {10, 14}, Unlocked <- {10}, LogT_BUFFLEN <- 2, MaxEvents <- 3, buf <- q1,
  writeptr <- q2, readptr <- q3, count <- q4, low <- q5, logT <- q6, begun <- q7,
  pushed <- q8, out <- q9, raced <- q10

\* Events for the R3K, which answers in time or not at all.
Link == INSTANCE R3kSerial WITH
  Producers <- {10}, Unlocked <- {10}, R3KSERIALBUFFLEN <- 2, MaxEvents <- 2, MaxLate <- 0,
  MaxClears <- 0, ring <- l1, writeptr <- l2, readptr <- l3, count <- l4, low <- l5,
  st <- l6, on <- l7, console <- l8, ack <- l9, clear <- l10, sent <- l11, owed <- l12,
  late <- l13, received <- l14, begun <- l15, pushed <- l16, done <- l17, strayed <- l18

\* Two tasks of different priority write pages of the flash.
Flash == INSTANCE DataFlash WITH
  Tasks <- {1, 2}, Pages <- {"cfg", "ev1", "ev2"}, BufOf <- Buffers, MaxWrites <- 1,
  mem <- f1, buf <- f2, chip <- f3, cs <- f4, pc <- f5, page <- f6, n <- f7, last <- f8,
  spoiled <- f9

ASSUME ConstantsFit ==
  /\ Door!DoorAssumption
  /\ Tamper!ConstantsAssumption /\ Relays!ConstantsAssumption
  /\ Bus!ConstantsAssumption
  /\ Log!ConstantsAssumption
  /\ Link!ConstantsAssumption
  /\ Flash!DataFlashAssumption

\* The variables of the other parts rest where they begin.
Init ==
  /\ part \in {"door", "tamper", "relays", "bus", "log", "link", "flash"}
  /\ Door!DoorInit /\ Tamper!Init /\ Relays!Init /\ Bus!Init /\ Log!Init /\ Link!Init
  /\ Flash!FlashInit
  /\ part = "link" \/ ~l7 \* r3kmode may be on or off, where it matters
DoorStep ==
  /\ part = "door" /\ Door!DoorNext
  /\ UNCHANGED <<part, tamperHeld, relaysHeld, busHeld, logHeld, linkHeld, flashHeld>>
TamperStep ==
  /\ part = "tamper" /\ Tamper!Next
  /\ UNCHANGED <<part, doorHeld, relaysHeld, busHeld, logHeld, linkHeld, flashHeld>>
RelaysStep ==
  /\ part = "relays" /\ Relays!Next
  /\ UNCHANGED <<part, doorHeld, tamperHeld, busHeld, logHeld, linkHeld, flashHeld>>
BusStep ==
  /\ part = "bus" /\ Bus!Next
  /\ UNCHANGED <<part, doorHeld, tamperHeld, relaysHeld, logHeld, linkHeld, flashHeld>>
LogStep ==
  /\ part = "log" /\ Log!Next
  /\ UNCHANGED <<part, doorHeld, tamperHeld, relaysHeld, busHeld, linkHeld, flashHeld>>
LinkStep ==
  /\ part = "link" /\ Link!Next
  /\ UNCHANGED <<part, doorHeld, tamperHeld, relaysHeld, busHeld, logHeld, flashHeld>>
FlashStep ==
  /\ part = "flash" /\ Flash!FlashNext
  /\ UNCHANGED <<part, doorHeld, tamperHeld, relaysHeld, busHeld, logHeld, linkHeld>>
Next == DoorStep \/ TamperStep \/ RelaysStep \/ BusStep \/ LogStep \/ LinkStep \/ FlashStep
Spec == Init /\ [][Next]_all

-----------------------------------------------------------------------------
(* The properties of the parts, under the fairness of their modules.       *)

\* Autoprotect: once the door stays closed everything comes to rest, and a door
\* that stays open ends with a user or in alarm.
Settles == part = "door" /\ Door!DoorFairness => Door!DoorSettles /\ Door!OpenDecided

\* BusTamper: trouble of a module that is not a relay's, if it lasts, ends in
\* the alarm every time the alarm is reset.
TroubleAlarmed ==
  /\ part = "tamper" /\ Tamper!Fairness => Tamper!TroubleAlarmed
  /\ part = "relays" /\ Relays!Fairness => Relays!TroubleAlarmed

\* Lan485Poll: on a good line every event of the module reaches the log and is
\* taken off the module, and every command reaches it, but for the races named.
AllDelivered == part = "bus" /\ Bus!Fairness => Bus!AllDelivered

\* LogQueue: every event logged is stored in the end, but for the races named.
\* DataFlash: no write waits for ever, whoever interrupts it.
EveryEventStored ==
  /\ part = "log" /\ Log!Fairness => Log!EveryEventStored
  /\ part = "flash" /\ Flash!FlashFairness => Flash!WriteEnds

\* R3kSerial: with the mode on for good every event leaves the ring.
EveryEventSent == part = "link" /\ Link!Fairness => Link!EveryEventSent
=============================================================================
