------------------------------ MODULE SerialRx ------------------------------
(***************************************************************************)
(* The receive ring of a serial port (src/Serial/serial.c): the interrupt  *)
(* puts characters with CommPutRxChar, tasks ask CommIsEmpty and take them *)
(* with CommGetChar.  The ring has a counter, which CommIsEmpty looks at,  *)
(* and a semaphore, which CommGetChar waits for.                           *)
(*                                                                         *)
(* On COMM0 App_Task_1 (src/Application/main.c) reads and waits for ever;  *)
(* FsmLedsTask (src/Utils/utils.c), of lower priority, reads as well when  *)
(* the inputs ask for the test of the port, and waits a few ticks.  On     *)
(* COMM2 the task of the bus (src/Lan485/lan485.c) reads alone and clears  *)
(* the ring with CommInit after each poll, with the interrupt enabled.     *)
(***************************************************************************)
EXTENDS Integers, Sequences, FiniteSets

CONSTANTS
    Testing,    \* FsmLedsTask reads too (COMM0)
    Clearing,   \* the reader clears the ring (COMM2)
    RxSize,       \* COMM_RX_BUF_SIZE, 64 in the code
    MaxIn       \* bound: characters that come

SerialRxAssumption ==
    /\ Testing \in BOOLEAN /\ Clearing \in BOOLEAN /\ ~(Testing /\ Clearing)
    /\ RxSize \in Nat \ {0} /\ MaxIn \in Nat

VARIABLES
    rx, head, tail, stored,   \* the ring
    sem,       \* RingBufRxSem
    reader,        \* each reader: see below
    taken,     \* history: what each reader has taken
    coming,    \* history: characters come so far
    accepted,  \* history: those that found room, in order
    step       \* the step of CommInit that is next, 0 outside of it

ring == <<rx, head, tail, stored>>
rxVars == <<ring, sem, reader, taken, coming, accepted, step>>

\* "app" is App_Task_1 or the task of the bus, "leds" is FsmLedsTask.
Readers == IF Testing THEN {"app", "leds"} ELSE {"app"}

\* A reader sleeps, is at CommIsEmpty ("check"), has seen a character ("get"),
\* is pending on the semaphore or was given a character by it ("granted").
States == {"sleep", "check", "get", "pending", "granted"}

Succ(i) == IF i + 1 = RxSize THEN 0 ELSE i + 1

RxInit ==
    /\ rx = [i \in 0 .. RxSize - 1 |-> 0] /\ head = 0 /\ tail = 0 /\ stored = 0
    /\ sem = 0
    /\ reader = [r \in Readers |-> "sleep"]
    /\ taken = [r \in Readers |-> <<>>]
    /\ coming = 0 /\ accepted = <<>>
    /\ step = 0

Pending == {r \in Readers : reader[r] = "pending"}

\* Mutant: the room in the ring is not looked at.
Room_Always == TRUE
\* Mutant: one character too many.
Room_One == stored <= RxSize
Room == stored < RxSize

\* UARTx_IntReceive.
Receive ==
    /\ coming < MaxIn
    /\ coming' = coming + 1
    /\ IF Room
         THEN /\ stored' = stored + 1
              /\ rx' = [rx EXCEPT ![head] = coming + 1] /\ head' = Succ(head)
              /\ accepted' = Append(accepted, coming + 1)
              /\ IF Pending = {}
                   THEN sem' = sem + 1 /\ reader' = reader
                   ELSE /\ sem' = sem
                        /\ reader' = [r \in Readers |-> IF r \in Pending THEN "granted" ELSE reader[r]]
         ELSE UNCHANGED <<ring, sem, reader, accepted>>
    /\ UNCHANGED <<tail, taken, step>>

\* The readers that wait with a timeout: all but App_Task_1.
Waits(r) == r = "leds" \/ Clearing

\* App_Task_1 has the higher priority: FsmLedsTask runs while it is blocked.
MayRun(r) == step = 0 /\ (r = "leds" => reader["app"] \in {"sleep", "pending"})

\* The delay between two passes is over, or the inputs ask for the test.
Wake(r) ==
    /\ MayRun(r) /\ reader[r] = "sleep"
    /\ reader' = [reader EXCEPT ![r] = "check"]
    /\ UNCHANGED <<ring, sem, taken, coming, accepted, step>>

\* Mutant: the readers do not ask.
Check_None(r) ==
    /\ MayRun(r) /\ reader[r] = "check"
    /\ reader' = [reader EXCEPT ![r] = "get"]
    /\ UNCHANGED <<ring, sem, taken, coming, accepted, step>>

\* CommIsEmpty.
Check(r) ==
    /\ MayRun(r) /\ reader[r] = "check"
    /\ reader' = [reader EXCEPT ![r] = IF stored > 0 THEN "get" ELSE "sleep"]
    /\ UNCHANGED <<ring, sem, taken, coming, accepted, step>>

\* The loops of the readers end for other reasons too: the inputs, the consoles,
\* a count of characters, a limit of time.
GiveUp(r) ==
    /\ MayRun(r) /\ reader[r] = "check"
    /\ reader' = [reader EXCEPT ![r] = "sleep"]
    /\ UNCHANGED <<ring, sem, taken, coming, accepted, step>>

\* ComGetBuff, for the answer on the bus, does not ask CommIsEmpty.
GetBuff ==
    /\ Clearing /\ step = 0 /\ reader["app"] = "sleep"
    /\ reader' = [reader EXCEPT !["app"] = "get"]
    /\ UNCHANGED <<ring, sem, taken, coming, accepted, step>>

\* OSSemPend in CommGetChar.
Pend(r) ==
    /\ MayRun(r) /\ reader[r] = "get"
    /\ IF sem > 0
         THEN sem' = sem - 1 /\ reader' = [reader EXCEPT ![r] = "granted"]
         ELSE sem' = sem /\ reader' = [reader EXCEPT ![r] = "pending"]
    /\ UNCHANGED <<ring, taken, coming, accepted, step>>

Timeout(r) ==
    /\ reader[r] = "pending" /\ Waits(r) /\ step = 0
    /\ reader' \in {[reader EXCEPT ![r] = "check"], [reader EXCEPT ![r] = IF Clearing THEN "sleep" ELSE "check"]}
    /\ UNCHANGED <<ring, sem, taken, coming, accepted, step>>

\* Mutant: the rest is read without asking.
Take_Again(r) ==
    /\ MayRun(r) /\ reader[r] = "granted"
    /\ stored' = stored - 1 /\ tail' = Succ(tail)
    /\ taken' = [taken EXCEPT ![r] = Append(@, rx[tail])]
    /\ reader' = [reader EXCEPT ![r] = "get"]
    /\ UNCHANGED <<rx, head, sem, coming, accepted, step>>

\* The critical section of CommGetChar.
Take(r) ==
    /\ MayRun(r) /\ reader[r] = "granted"
    /\ stored' = stored - 1 /\ tail' = Succ(tail)
    /\ taken' = [taken EXCEPT ![r] = Append(@, rx[tail])]
    /\ reader' \in {[reader EXCEPT ![r] = "check"], [reader EXCEPT ![r] = IF Clearing THEN "get" ELSE "check"]}
    /\ UNCHANGED <<rx, head, sem, coming, accepted, step>>

\* CommInit, called by the task that reads: the counter, the two pointers and
\* the semaphore, one after the other, with the interrupt in between.
Clear ==
    /\ Clearing /\ reader["app"] = "sleep" /\ step = 0
    /\ step' = 1
    /\ UNCHANGED <<ring, sem, reader, taken, coming, accepted>>

\* Mutant: the semaphore is created first.
ClearOrder_SemFirst == <<"sem", "ctr", "in", "out">>
\* Mutant: the counter is left as it is.
ClearOrder_NoCounter == <<"sem", "in", "out", "sem">>
ClearOrder == <<"ctr", "in", "out", "sem">>

ClearStep ==
    /\ step > 0
    /\ stored' = IF ClearOrder[step] = "ctr" THEN 0 ELSE stored
    /\ head' = IF ClearOrder[step] = "in" THEN 0 ELSE head
    /\ tail' = IF ClearOrder[step] = "out" THEN 0 ELSE tail
    /\ sem' = IF ClearOrder[step] = "sem" THEN 0 ELSE sem
    /\ step' = (step + 1) % 5
    /\ UNCHANGED <<rx, reader, taken, coming, accepted>>

Read(r) == Wake(r) \/ Check(r) \/ Pend(r) \/ Take(r)

RxNext ==
    \/ Receive
    \/ \E r \in Readers : Read(r) \/ Timeout(r) \/ GiveUp(r)
    \/ GetBuff \/ Clear \/ ClearStep

RxSpec == RxInit /\ [][RxNext]_rxVars

\* The tasks run and their timeouts expire; the bus is polled again and again.
RxFairness ==
    /\ \A r \in Readers : SF_rxVars(Read(r)) /\ WF_rxVars(Timeout(r)) /\ SF_rxVars(GiveUp(r))
    /\ SF_rxVars(Clear) /\ WF_rxVars(ClearStep)
RxFairSpec == RxSpec /\ RxFairness

-----------------------------------------------------------------------------
(* Properties. *)

\* The variables keep their types.
RxTypeOK ==
    /\ rx \in [0 .. RxSize - 1 -> 0 .. MaxIn]
    /\ head \in 0 .. RxSize - 1 /\ tail \in 0 .. RxSize - 1
    /\ stored \in 0 .. RxSize /\ sem \in 0 .. MaxIn
    /\ reader \in [Readers -> States]
    /\ taken \in [Readers -> Seq(0 .. MaxIn)] /\ accepted \in Seq(0 .. MaxIn)
    /\ coming \in 0 .. MaxIn /\ step \in 0 .. 4

Given == Cardinality({r \in Readers : reader[r] = "granted"})

\* The counter covers the characters that the semaphore has promised, however
\* a clear of the ring was cut in two by one that came.  Below them it would wrap round to 65535, the
\* ring would seem full for ever and the port would be deaf.
Covered == step = 0 => sem + Given <= stored

\* With no clears the two agree.  A character posts the semaphore to every reader
\* that waits: two of them would both be let in for one.
Agree == sem + Given = stored

\* A task that is let in by the semaphore finds a character: on a port that is not
\* cleared each of the two counts the same, on one that is the counter covers it.
Promised == IF Clearing THEN Covered ELSE Agree

\* A character that was accepted is taken once, in order: the readers share out
\* the accepted characters.
Shared ==
    \A r \in Readers :
        /\ \A i \in 1 .. Len(taken[r]) : \E j \in 1 .. Len(accepted) : taken[r][i] = accepted[j]
        /\ \A i, j \in 1 .. Len(taken[r]) : i < j => taken[r][i] < taken[r][j]
        /\ \A s \in Readers \ {r} : \A i \in 1 .. Len(taken[r]) : \A j \in 1 .. Len(taken[s]) :
               taken[r][i] # taken[s][j]

\* No task is let in for a character that is not there, and where the ring is not
\* cleared each character goes to one reader, once and in order.
EachOnce == Promised /\ (~Clearing => Shared)

\* App_Task_1 waits for ever: it is to ask for a character only when there is one.
\* It feeds the watchdog in the same loop.
NeverWaits == reader["app"] # "pending"

\* When characters stop coming the ring is empty in the end, though a clear may
\* have been cut in two by one: the next clear mends it.
Emptied == <>[](stored = 0 /\ sem = 0)
=============================================================================
