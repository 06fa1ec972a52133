------------------------------ MODULE SerialTx ------------------------------
(***************************************************************************)
(* The transmit ring of a serial port (src/Serial/serial.c): tasks put     *)
(* characters with CommPutChar, the interrupt of the transmitter takes     *)
(* them with CommGetTxChar.  A semaphore counts the free places; each      *)
(* character taken posts it with OS_OPT_POST_ALL, to every waiting task.   *)
(*                                                                         *)
(* COMM0 is the port that several tasks write: the R3K's answers, the      *)
(* events, the consoles, the traces of the bus.  They all wait for ever.   *)
(* Left out: the choice of the port and the 16 places of the chip's FIFO.  *)
(***************************************************************************)
EXTENDS Naturals, Sequences, FiniteSets, SequencesExt

CONSTANTS
    Writers,    \* the tasks that write
    TxSize,     \* COMM_TX_BUF_SIZE, 64 in the code
    MaxPut      \* bound: characters of each task

SerialTxAssumption == TxSize \in Nat \ {0} /\ MaxPut \in Nat

Char == Writers \X (1 .. MaxPut)
None == <<>>

VARIABLES
    tx,        \* RingBufTx
    txIn,      \* RingBufTxInPtr
    txOut,     \* RingBufTxOutPtr
    waiting,   \* RingBufTxCtr
    sending,   \* RingBufTXBusy
    places,    \* RingBufTxSem: the places free
    writer,    \* each task: "idle", "pending" on the semaphore, "granted" a place
    put,       \* characters each task has put
    thr,       \* the transmitter's register
    irq,       \* its interrupt is pending
    wire       \* history: what went out

txRing == <<tx, txIn, txOut, waiting, sending>>
hard == <<thr, irq>>
txVars == <<txRing, places, writer, put, hard, wire>>

\* Mutant: the pointer is not wrapped.
Advance_NoWrap(i) == i + 1
Advance(i) == IF i + 1 = TxSize THEN 0 ELSE i + 1

\* Mutant: one place too many.
TxInit_Extra ==
    /\ tx = [i \in 0 .. TxSize - 1 |-> None]
    /\ txIn = 0 /\ txOut = 0 /\ waiting = 0 /\ sending = FALSE
    /\ places = TxSize + 1
    /\ writer = [w \in Writers |-> "idle"] /\ put = [w \in Writers |-> 0]
    /\ thr = None /\ irq = FALSE
    /\ wire = <<>>

TxInit ==
    /\ tx = [i \in 0 .. TxSize - 1 |-> None]
    /\ txIn = 0 /\ txOut = 0 /\ waiting = 0 /\ sending = FALSE
    /\ places = TxSize
    /\ writer = [w \in Writers |-> "idle"] /\ put = [w \in Writers |-> 0]
    /\ thr = None /\ irq = FALSE
    /\ wire = <<>>

TxPending == {w \in Writers : writer[w] = "pending"}
Granted == {w \in Writers : writer[w] = "granted"}

\* Mutant: the place is counted and nobody is woken.
Post_Count(p) == places' = places + 1 /\ writer' = p

\* OSSemPost with OS_OPT_POST_ALL: one place, and every waiter is given it.
Post(p) ==
    IF TxPending = {}
      THEN places' = places + 1 /\ writer' = p
      ELSE places' = places /\ writer' = [w \in Writers |-> IF w \in TxPending THEN "granted" ELSE p[w]]

\* Mutant: the place is not taken from the semaphore.
TxPend_NoTake(w) ==
    /\ writer[w] = "idle" /\ put[w] < MaxPut
    /\ writer' = [writer EXCEPT ![w] = IF places > 0 THEN "granted" ELSE "pending"]
    /\ UNCHANGED <<txRing, places, put, hard, wire>>

\* OSSemPend in CommPutChar, with no timeout.
TxPend(w) ==
    /\ writer[w] = "idle" /\ put[w] < MaxPut
    /\ IF places > 0
         THEN places' = places - 1 /\ writer' = [writer EXCEPT ![w] = "granted"]
         ELSE places' = places /\ writer' = [writer EXCEPT ![w] = "pending"]
    /\ UNCHANGED <<txRing, put, hard, wire>>

\* Mutant: the task leaves the first character to the interrupt.
Starts_Never == FALSE
\* Mutant: the task sends without asking whether the transmitter is busy.
Starts_Always == TRUE

\* The transmitter is idle: the task that puts a character takes one as well.
Starts == ~sending

\* The critical section of CommPutChar.
Insert(w) ==
    LET c    == <<w, put[w] + 1>>
        b    == [tx EXCEPT ![txIn] = c]
        done == [writer EXCEPT ![w] = "idle"]
    IN  /\ writer[w] = "granted"
        /\ tx' = b /\ txIn' = Advance(txIn)
        /\ put' = [put EXCEPT ![w] = @ + 1]
        /\ IF Starts
             THEN /\ waiting' = waiting /\ txOut' = Advance(txOut) /\ sending' = TRUE
                  /\ thr' = b[txOut] /\ Post(done)
             ELSE /\ waiting' = waiting + 1 /\ UNCHANGED <<txOut, sending, thr, places>>
                  /\ writer' = done
        /\ UNCHANGED <<irq, wire>>

NonEmpty == waiting > 0

\* Mutant: the transmitter is left busy.
IdleAfter_Busy == TRUE
IdleAfter == FALSE

\* UARTx_IntTransmit.
Interrupt ==
    /\ irq /\ irq' = FALSE
    /\ IF NonEmpty
         THEN /\ waiting' = waiting - 1 /\ txOut' = Advance(txOut) /\ thr' = tx[txOut]
              /\ Post(writer) /\ UNCHANGED sending
         ELSE sending' = IdleAfter /\ UNCHANGED <<waiting, txOut, thr, places, writer>>
    /\ UNCHANGED <<tx, txIn, put, wire>>

\* The chip sends the character and asks for the next.
Send ==
    /\ thr # None
    /\ wire' = Append(wire, thr)
    /\ thr' = None /\ irq' = TRUE
    /\ UNCHANGED <<txRing, places, writer, put>>

Writing == \E w \in Writers : TxPend(w) \/ Insert(w)

TxNext == Writing \/ Interrupt \/ Send

TxSpec == TxInit /\ [][TxNext]_txVars

\* The chip sends, the interrupt is served, the tasks run when they can.
TxFairness ==
    /\ WF_txVars(Interrupt) /\ WF_txVars(Send)
    /\ \A w \in Writers : WF_txVars(TxPend(w) \/ Insert(w))
TxFairSpec == TxSpec /\ TxFairness

-----------------------------------------------------------------------------
(* Properties. *)

\* Each character is put once and makes every task a place at most.
MostGiven == TxSize + Cardinality(Writers) * Cardinality(Writers) * MaxPut

\* The variables keep their types.
TxTypeOK ==
    /\ tx \in [0 .. TxSize - 1 -> Char \cup {None}]
    /\ txIn \in 0 .. TxSize - 1 /\ txOut \in 0 .. TxSize - 1
    /\ waiting \in 0 .. MostGiven /\ places \in 0 .. MostGiven
    /\ sending \in BOOLEAN /\ irq \in BOOLEAN
    /\ writer \in [Writers -> {"idle", "pending", "granted"}]
    /\ put \in [Writers -> 0 .. MaxPut]
    /\ thr \in Char \cup {None}

\* Characters in the ring are on their way out: the transmitter holds one, or
\* its interrupt is to come.  Without this the port falls silent with its ring
\* full, and every task that writes waits for ever.
OnTheWay == waiting > 0 => sending /\ (thr # None \/ irq)

\* A character is never written over one the transmitter has not sent.
KeepsThr == thr # None => thr' \in {thr, None}
FirstSent == [][KeepsThr]_txVars

\* What goes out is what was put, each task's characters in their order and none
\* missing, when one task writes.
InOrder ==
    \A w \in Writers :
        LET sent == SelectSeq(wire, LAMBDA c : c[1] = w)
        IN  \A i \in 1 .. Len(sent) : sent[i] = <<w, i>>

\* The ring never holds more than it has room for: CommPutChar waits while it
\* is full.
Fits == waiting + Cardinality(Granted) <= TxSize

\* All that was put goes out.
AllSent == <>(\A w \in Writers : \A i \in 1 .. MaxPut : Contains(wire, <<w, i>>))

\* Every task gets through its characters, however many wait for one place.
TxReturns == <>(\A w \in Writers : put[w] = MaxPut)
=============================================================================
