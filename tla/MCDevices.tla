----------------------------- MODULE MCDevices -----------------------------
(***************************************************************************)
(* The modules on the bus, the link with the R3K and the drivers for TLC.  *)
(* Four parts are Lan485Poll, DataFlash, Eeprom and SerialRx themselves;   *)
(* the others are R3kSerial, ConfigCopies, SerialTx, and DataFlash, Eeprom *)
(* and SerialRx once more, each in the small instances that its properties *)
(* ask for.  The parts have nothing in common here: a behaviour is one of  *)
(* a single part, and v1, v2, ... stand for the variables of an instance,  *)
(* in the order of its module.                                             *)
(***************************************************************************)
EXTENDS Lan485Poll, DataFlash, Eeprom, SerialRx, TLC

VARIABLES
  part, \* which part the behaviour is of
  v1, v2, v3, v4, v5, v6, v7, v8, v9, v10, v11, v12, v13, v14, v15, v16, v17, v18 \* its variables

held == <<v1, v2, v3, v4, v5, v6, v7, v8, v9, v10, v11, v12, v13, v14, v15, v16, v17,
          v18>>

\* Bound: a behaviour of the bus is followed until three mishaps have happened.
FewMishaps == Cardinality(raced) <= 2

\* The buffers of the DataFlash's pages; three addresses, two of one checksum.
OnePage == "cfg" :> 1
ThreePages == "cfg" :> 1 @@ "ev1" :> 2 @@ "ev2" :> 2
Sums == (2 :> 1) @@ (3 :> 2) @@ (4 :> 1)

\* The R3K answers late, and the flag is put back.
Link == INSTANCE R3kSerial WITH
  Producers <- {10}, Unlocked <- {}, R3KSERIALBUFFLEN <- 2, MaxEvents <- 2, MaxLate <- 1,
  MaxClears <- 1, ring <- v1, writeptr <- v2, readptr <- v3, count <- v4, low <- v5,
  st <- v6, on <- v7, console <- v8, ack <- v9, clear <- v10, sent <- v11, owed <- v12,
  late <- v13, received <- v14, begun <- v15, pushed <- v16, done <- v17, strayed <- v18

\* Three tasks push, one of them without the semaphore.
Ring == INSTANCE R3kSerial WITH
  Producers <- {7, 10}, Unlocked <- {10}, R3KSERIALBUFFLEN <- 2, MaxEvents <- 2,
  MaxLate <- 0, MaxClears <- 0, ring <- v1, writeptr <- v2, readptr <- v3, count <- v4,
  low <- v5, st <- v6, on <- v7, console <- v8, ack <- v9, clear <- v10, sent <- v11,
  owed <- v12, late <- v13, received <- v14, begun <- v15, pushed <- v16, done <- v17,
  strayed <- v18

\* Three tasks write one page.
Page == INSTANCE DataFlash WITH
  Tasks <- {1, 2, 3}, Pages <- {"cfg"}, BufOf <- OnePage, MaxWrites <- 3, mem <- v1,
  buf <- v2, chip <- v3, cs <- v4, pc <- v5, page <- v6, n <- v7, last <- v8, spoiled <- v9

\* The callers do not wait for the chip, which refuses what comes too early.  In
\* Eeprom itself they do, and the task may be kept waiting.
Hurried == INSTANCE Eeprom WITH
  Size <- 3, Bytes <- {1, 2}, MaxRead <- 3, MaxWrite <- 2, Paced <- FALSE,
  Preempted <- FALSE, cells <- v1, busy <- v2, ptr <- v3, latch <- v4, call <- v5, at <- v6,
  state <- v7, result <- v8, WrIndex <- v9, RdIndex <- v10, sta <- v11, aa <- v12,
  fly <- v13, in <- v14, error <- v15

\* Three addresses and three power cuts.
Copies == INSTANCE ConfigCopies WITH
  Names <- {2, 3, 4}, Sum <- Sums, MaxSets <- 3, MaxCuts <- 3, cell <- v1, job <- v2,
  setting <- v3, on <- v4, used <- v5, old <- v6, tried <- v7, gap <- v8, since <- v9,
  sets <- v10, cuts <- v11

\* Three tasks write to one port.
Outgoing == INSTANCE SerialTx WITH
  Writers <- {"app", "leds", "lan"}, TxSize <- 2, MaxPut <- 2, tx <- v1, txIn <- v2,
  txOut <- v3, waiting <- v4, sending <- v5, places <- v6, writer <- v7, put <- v8,
  thr <- v9, irq <- v10, wire <- v11

\* One task reads a port and clears it.  In SerialRx itself two of them read.
Cleaned == INSTANCE SerialRx WITH
  Testing <- FALSE, Clearing <- TRUE, RxSize <- 2, MaxIn <- 6, rx <- v1, head <- v2,
  tail <- v3, stored <- v4, sem <- v5, reader <- v6, taken <- v7, coming <- v8,
  accepted <- v9, step <- v10

ASSUME ConstantsFit ==
  /\ ConstantsAssumption
  /\ DataFlashAssumption
  /\ EepromAssumption
  /\ SerialRxAssumption
  /\ Link!ConstantsAssumption
  /\ Ring!ConstantsAssumption
  /\ Page!DataFlashAssumption
  /\ Hurried!EepromAssumption
  /\ Copies!ConfigCopiesAssumption
  /\ Outgoing!SerialTxAssumption
  /\ Cleaned!SerialRxAssumption

\* The variables of the other parts.
Resting ==
  /\ v1 = 0 /\ v2 = 0 /\ v3 = 0 /\ v4 = 0 /\ v5 = 0 /\ v6 = 0 /\ v7 = 0 /\ v8 = 0 /\ v9 = 0
  /\ v10 = 0 /\ v11 = 0 /\ v12 = 0 /\ v13 = 0 /\ v14 = 0 /\ v15 = 0 /\ v16 = 0 /\ v17 = 0
  /\ v18 = 0

\* The modules of the bus; in the other parts its variables rest where they begin.
BusInit == part = "bus" /\ Resting
BusStep == part = "bus" /\ Next /\ UNCHANGED <<part, flashVars, eepromVars, rxVars, held>>

\* The flash, the EEPROM and the receive ring likewise.
FlashesInit == part = "flash" /\ Resting
FlashStep == part = "flash" /\ FlashNext /\ UNCHANGED <<part, vars, eepromVars, rxVars, held>>

PacedInit == part = "paced" /\ Resting
PacedStep == part = "paced" /\ EepromNext /\ UNCHANGED <<part, vars, flashVars, rxVars, held>>

TakeInit == part = "take" /\ Resting
TakeStep == part = "take" /\ RxNext /\ UNCHANGED <<part, vars, flashVars, eepromVars, held>>

\* The variables of those four.
own == <<vars, flashVars, eepromVars, rxVars>>

LinkInit == part = "link" /\ Link!Init
LinkStep == part = "link" /\ Link!Next /\ UNCHANGED <<part, own>>

RingInit == part = "ring" /\ Ring!Init
RingStep == part = "ring" /\ Ring!Next /\ UNCHANGED <<part, own>>

PageInit ==
  /\ part = "page" /\ Page!FlashInit
  /\ v10 = 0 /\ v11 = 0 /\ v12 = 0 /\ v13 = 0 /\ v14 = 0 /\ v15 = 0 /\ v16 = 0 /\ v17 = 0
  /\ v18 = 0
PageStep ==
  /\ part = "page" /\ Page!FlashNext
  /\ UNCHANGED <<part, own, v10, v11, v12, v13, v14, v15, v16, v17, v18>>

HurriedInit ==
  /\ part = "busy" /\ Hurried!EepromInit
  /\ v16 = 0 /\ v17 = 0 /\ v18 = 0
HurriedStep ==
  /\ part = "busy" /\ Hurried!EepromNext
  /\ UNCHANGED <<part, own, v16, v17, v18>>

CopyInit ==
  /\ part = "copies" /\ Copies!Init
  /\ v12 = 0 /\ v13 = 0 /\ v14 = 0 /\ v15 = 0 /\ v16 = 0 /\ v17 = 0 /\ v18 = 0
CopyStep ==
  /\ part = "copies" /\ Copies!Next
  /\ UNCHANGED <<part, own, v12, v13, v14, v15, v16, v17, v18>>

SendInit ==
  /\ part = "send" /\ Outgoing!TxInit
  /\ v12 = 0 /\ v13 = 0 /\ v14 = 0 /\ v15 = 0 /\ v16 = 0 /\ v17 = 0 /\ v18 = 0
SendStep ==
  /\ part = "send" /\ Outgoing!TxNext
  /\ UNCHANGED <<part, own, v12, v13, v14, v15, v16, v17, v18>>

EmptyInit ==
  /\ part = "empty" /\ Cleaned!RxInit
  /\ v11 = 0 /\ v12 = 0 /\ v13 = 0 /\ v14 = 0 /\ v15 = 0 /\ v16 = 0 /\ v17 = 0 /\ v18 = 0
EmptyStep ==
  /\ part = "empty" /\ Cleaned!RxNext
  /\ UNCHANGED <<part, own, v11, v12, v13, v14, v15, v16, v17, v18>>

\* What the chip holds at first matters only where it is the part looked at.
SuiteInit ==
  /\ Init /\ FlashInit /\ EepromInit /\ RxInit
  /\ part = "paced" \/ cells = [a \in Addr |-> 1]
  /\ \/ BusInit
     \/ FlashesInit
     \/ PacedInit
     \/ TakeInit
     \/ LinkInit
     \/ RingInit
     \/ PageInit
     \/ HurriedInit
     \/ CopyInit
     \/ SendInit
     \/ EmptyInit
SuiteNext ==
  \/ BusStep
  \/ FlashStep
  \/ PacedStep
  \/ TakeStep
  \/ LinkStep
  \/ RingStep
  \/ PageStep
  \/ HurriedStep
  \/ CopyStep
  \/ SendStep
  \/ EmptyStep
SuiteSpec == SuiteInit /\ [][SuiteNext]_<<part, own, held>>

-----------------------------------------------------------------------------
(* The properties of the parts; ModulesReported and ModulesServed are in   *)
(* Lan485Poll, Integrity in DataFlash, CallsRight in Eeprom, EachOnce in   *)
(* SerialRx.                                                               *)

\* The variables of each part keep their types.
TypesOK ==
  CASE part = "bus" -> TypeOK           [] part = "flash" -> FlashTypeOK
    [] part = "paced" -> EepromTypeOK   [] part = "take" -> RxTypeOK
    [] part = "link" -> Link!TypeOK     [] part = "ring" -> Ring!TypeOK
    [] part = "page" -> Page!FlashTypeOK
    [] part = "busy" -> Hurried!EepromTypeOK
    [] part = "copies" -> Copies!TypeOK [] part = "send" -> Outgoing!TxTypeOK
    [] part = "empty" -> Cleaned!RxTypeOK

\* R3kSerial: a record leaves the ring after the R3K received it, and the records
\* leave in the order of their pushes, but for the mishaps named.  DataFlash: a page
\* alone in its buffer is never programmed with what the buffer held before, unless
\* two frames were mixed.  Eeprom: a read returns what the chip holds though it had
\* to be tried again.  SerialTx: characters in the ring are on their way out.
\* SerialRx: the counter covers what the semaphore has promised, however a clear of
\* the ring was cut in two.
OthersHold ==
  /\ part = "link" => Link!ReadOutWasReceived /\ Link!CountSound
  /\ part = "ring" => Ring!ReadOutWasSent /\ Ring!CountSound
  /\ part = "page" => Page!Integrity /\ Page!OnePageSafe
  /\ part = "busy" => Hurried!CallsRight
  /\ part = "send" => Outgoing!OnTheWay
  /\ part = "empty" => Cleaned!EachOnce

\* ConfigCopies: start-up takes the address set last, or one whose setting was cut
\* short; and one cut alone does not lose it but between two writes of the flash.
\* DataFlash: a write that none interrupts has put its own bytes in the page.
\* Eeprom: nothing but a write changes the chip, and that only where it was told to.
\* SerialTx: no character is written over one that has not been sent.
WritesKept ==
  [][/\ part = "copies" => Copies!TakesOldOrTried /\ Copies!KnowsAfterOneCut
     /\ part = "page" => Page!ReturnsWritten
     /\ part = "flash" => ReturnsWritten
     /\ part = "paced" => LeavesOthers
     /\ part = "busy" => Hurried!LeavesOthers
     /\ part = "send" => Outgoing!KeepsThr]_<<flashVars, eepromVars, held>>
=============================================================================
