------------------------------- MODULE Eeprom -------------------------------
(***************************************************************************)
(* The driver of the EEPROM in src/mem_i2c/mem_i2c.c: a task fills the     *)
(* buffer I2CMasterBuffer and the two lengths, starts the bus and waits in *)
(* a loop; the interrupt I2C1_IRQHandler moves the transfer on, one status *)
(* of the bus at a time; the chip refuses its address while it writes.     *)
(*                                                                         *)
(* An action Isr<hh> is the hardware's step to the status 0x<hh> and the   *)
(* interrupt's answer.  Left out: statuses this chip, alone on the bus,    *)
(* does not cause (0x30, 0x38, 0x48), and several tasks in the driver at   *)
(* once, which nothing prevents, and calls with more bytes than the        *)
(* buffers have, which EepromWriteBuffer and EepromReadBuffer refuse       *)
(* before they touch anything.  Writes do not cross a page of the chip: no *)
(* field of src/include/eeprom_map.h does.                                 *)
(***************************************************************************)
EXTENDS Naturals, Sequences

CONSTANTS
    Size,        \* bytes of the chip
    Bytes,       \* what a byte may hold, but for the zero of a cleared buffer
    MaxRead,     \* bound: the longest read
    MaxWrite,    \* bound: the longest write
    Paced,       \* the callers wait for the chip's write cycle (200 ms)
    Preempted    \* the task may be kept from the processor for a whole transfer

EepromAssumption ==
    /\ Size \in Nat \ {0} /\ Bytes \subseteq Nat \ {0} /\ Bytes # {}
    /\ MaxRead \in 1 .. 32 /\ MaxWrite \in 1 .. 32
    /\ Paced \in BOOLEAN /\ Preempted \in BOOLEAN

\* The three bytes before the data: the chip's address and that of the first byte.
Header == 3

VARIABLES
    cells,       \* [0 .. Size-1 -> Bytes]
    busy,      \* the chip is in a write cycle
    ptr,       \* the chip's address counter
    latch,     \* the data bytes the chip took since the START
    call,      \* the call being made: [kind, addr, data, len]
    at,        \* idle, engine, starting, waiting, ended
    state,     \* I2CMasterState
    result,    \* what I2CEngine returned
    WrIndex, RdIndex,
    sta,       \* the START flag of the controller
    aa,        \* its acknowledge flag
    fly,       \* what is on the bus: none, slaW, data, rep, slaR, rdata
    in,        \* I2CSlaveBuffer
    error      \* *error of the last call

eepromVars == <<cells, busy, ptr, latch, call, at, state, result, WrIndex, RdIndex, sta, aa, fly, in, error>>

I2CWriteLength == IF call.kind = "write" THEN Header + Len(call.data) ELSE Header
I2CReadLength == call.len

Addr == 0 .. Size - 1
Terminal == {"ACK", "SLA_NACK"}
Cleared == [i \in 1 .. MaxRead |-> 0]

\* The task looks at the state between any two bytes unless it is kept away.
Looked == Preempted \/ at # "starting"

-----------------------------------------------------------------------------
EepromInit ==
    /\ cells \in [Addr -> Bytes]
    /\ busy = FALSE /\ ptr = 0 /\ latch = <<>>
    /\ call = [kind |-> "none", addr |-> 0, data |-> <<>>, len |-> 0]
    /\ at = "idle" /\ state = "IDLE" /\ result = "IDLE"
    /\ WrIndex = 0 /\ RdIndex = 0 /\ sta = FALSE /\ aa = FALSE /\ fly = "none"
    /\ in = Cleared /\ error = 0

memory == <<cells, busy, ptr, latch>>
bus == <<state, WrIndex, RdIndex, sta, aa, fly>>

\* EepromReadByte, EepromReadWord, EepromReadBuffer: the address is sent as a
\* write of three bytes, the chip's address for reading follows it.
EepromRead(a, n) ==
    /\ at = "idle" /\ (Paced => ~busy)
    /\ call' = [kind |-> "read", addr |-> a, data |-> <<>>, len |-> n]
    /\ in' = Cleared
    /\ at' = "engine"
    /\ UNCHANGED <<memory, bus, result, error>>

\* EepromWriteByte, EepromWriteWord, EepromWriteDoubleWord, EepromWriteBuffer.
EepromWrite(a, d) ==
    /\ at = "idle" /\ (Paced => ~busy)
    /\ call' = [kind |-> "write", addr |-> a, data |-> d, len |-> 0]
    /\ at' = "engine"
    /\ UNCHANGED <<memory, bus, result, in, error>>

\* I2CEngine up to the loop of I2CStart.
Start ==
    /\ at = "engine"
    /\ state' = "IDLE" /\ RdIndex' = 0 /\ WrIndex' = 0 /\ sta' = TRUE
    /\ at' = "starting"
    /\ UNCHANGED <<memory, call, result, aa, fly, in, error>>

\* I2CStart sees the START acknowledged.
Started ==
    /\ at = "starting" /\ state = "PENDING"
    /\ at' = "waiting"
    /\ UNCHANGED <<memory, bus, call, result, in, error>>

\* Or counts to MAX_TIMEOUT, which is far longer than a transfer: the transfer
\* was over before the task looked again.
TimedOut ==
    /\ at = "starting" /\ state # "PENDING" /\ ~sta
    /\ result' = "0"
    /\ at' = "ended"
    /\ UNCHANGED <<memory, bus, call, in, error>>

\* Mutant: the loop ends when the START is sent.
Ended_Early ==
    /\ at = "waiting"
    /\ result' = state
    /\ at' = "ended"
    /\ UNCHANGED <<memory, bus, call, in, error>>

\* I2CEngine's loop ends.
Ended ==
    /\ at = "waiting" /\ state \in Terminal
    /\ result' = state
    /\ at' = "ended"
    /\ UNCHANGED <<memory, bus, call, in, error>>

\* Mutant: a read is not tried again.
Return_NoRetry ==
    /\ at = "ended"
    /\ error' = 0
    /\ at' = "idle"
    /\ UNCHANGED <<memory, bus, call, result, in>>
\* Mutant: a read is tried again whatever became of it.
Return_Again ==
    /\ at = "ended"
    /\ error' = 0
    /\ at' = IF call.kind = "read" THEN "engine" ELSE "idle"
    /\ UNCHANGED <<memory, bus, call, result, in>>

\* A read that was refused is tried again; a write is not, and reports no error.
Return ==
    /\ at = "ended"
    /\ IF call.kind = "read" /\ result = "SLA_NACK"
         THEN at' = "engine" /\ UNCHANGED error
         ELSE at' = "idle" /\ error' = 0
    /\ UNCHANGED <<memory, bus, call, result, in>>

-----------------------------------------------------------------------------
\* START sent: the chip's address follows.
Isr08 ==
    /\ sta /\ fly = "none"
    /\ WrIndex' = 1 /\ sta' = FALSE /\ fly' = "slaW" /\ state' = "PENDING"
    /\ latch' = <<>>
    /\ UNCHANGED <<cells, busy, ptr, call, at, result, RdIndex, aa, in, error>>

\* The chip takes its address: the next byte follows.
Isr18 ==
    /\ fly = "slaW" /\ ~busy
    /\ WrIndex' = WrIndex + 1 /\ fly' = "data"
    /\ UNCHANGED <<memory, call, at, state, result, RdIndex, sta, aa, in, error>>

\* Or refuses it: STOP.
Isr20 ==
    /\ fly = "slaW" /\ busy /\ Looked
    /\ state' = "SLA_NACK" /\ fly' = "none"
    /\ UNCHANGED <<memory, call, at, result, WrIndex, RdIndex, sta, aa, in, error>>

\* Mutant: the bytes of the address are sent in the wrong order.
ChipTakes_Swapped ==
    IF WrIndex > Header
      THEN latch' = Append(latch, call.data[WrIndex - Header]) /\ UNCHANGED ptr
      ELSE ptr' = Size - 1 - call.addr /\ UNCHANGED latch

\* The chip has taken the byte of index WrIndex - 1: part of the address or data.
ChipTakes ==
    IF WrIndex > Header
      THEN latch' = Append(latch, call.data[WrIndex - Header]) /\ UNCHANGED ptr
      ELSE ptr' = call.addr /\ UNCHANGED latch

\* A byte was taken: the next one, the repeated START of a read, or STOP, at which
\* the chip writes what it was given.
ByteTaken(more) ==
    /\ fly = "data"
    /\ ChipTakes
    /\ \/ more /\ WrIndex' = WrIndex + 1 /\ UNCHANGED <<cells, busy, state, fly>>
       \/ ~more /\ I2CReadLength # 0 /\ fly' = "rep" /\ UNCHANGED <<cells, busy, state, WrIndex>>
       \/ /\ ~more /\ I2CReadLength = 0 /\ Looked
          /\ state' = "ACK" /\ fly' = "none"
          /\ cells' = [i \in Addr |->
                 IF i >= ptr' /\ i - ptr' < Len(latch') THEN latch'[i - ptr' + 1] ELSE cells[i]]
          /\ busy' = (latch' # <<>>)
          /\ UNCHANGED WrIndex
    /\ UNCHANGED <<call, at, result, RdIndex, sta, aa, in, error>>

\* Mutant: one byte too few is sent.
Isr28_Short == ByteTaken(WrIndex < I2CWriteLength - 1)

Isr28 == ByteTaken(WrIndex < I2CWriteLength)

\* Repeated START sent: the chip's address for reading follows.
Isr10 ==
    /\ fly = "rep"
    /\ RdIndex' = 0 /\ WrIndex' = WrIndex + 1 /\ fly' = "slaR"
    /\ UNCHANGED <<memory, call, at, state, result, sta, aa, in, error>>

\* The chip is about to send; the last byte is not acknowledged.
Isr40 ==
    /\ fly = "slaR"
    /\ aa' = (I2CReadLength # 1) /\ fly' = "rdata"
    /\ UNCHANGED <<memory, call, at, state, result, WrIndex, RdIndex, sta, in, error>>

Received ==
    /\ in' = [in EXCEPT ![RdIndex + 1] = cells[ptr]]
    /\ ptr' = IF ptr + 1 = Size THEN 0 ELSE ptr + 1
    /\ RdIndex' = RdIndex + 1

\* Mutant: the last byte is acknowledged.
Isr50_Long ==
    /\ fly = "rdata" /\ aa
    /\ Received
    /\ aa' = (RdIndex' < I2CReadLength)
    /\ UNCHANGED <<cells, busy, latch, call, at, state, result, WrIndex, sta, fly, error>>

\* A byte came and was acknowledged: another one follows.
Isr50 ==
    /\ fly = "rdata" /\ aa
    /\ Received
    /\ aa' = (RdIndex' < I2CReadLength - 1)
    /\ UNCHANGED <<cells, busy, latch, call, at, state, result, WrIndex, sta, fly, error>>

\* Mutant: the last byte is left in the controller.
Isr58_NotRead ==
    /\ fly = "rdata" /\ ~aa /\ Looked
    /\ state' = "ACK" /\ fly' = "none"
    /\ UNCHANGED <<memory, call, at, result, RdIndex, WrIndex, sta, aa, in, error>>

\* The last byte came: STOP.
Isr58 ==
    /\ fly = "rdata" /\ ~aa /\ Looked
    /\ Received
    /\ state' = "ACK" /\ fly' = "none"
    /\ UNCHANGED <<cells, busy, latch, call, at, result, WrIndex, sta, aa, error>>

\* The write cycle of the chip ends.
ChipDone ==
    /\ busy
    /\ busy' = FALSE
    /\ UNCHANGED <<cells, ptr, latch, call, at, bus, result, in, error>>

-----------------------------------------------------------------------------
Isr == Isr08 \/ Isr10 \/ Isr18 \/ Isr20 \/ Isr28 \/ Isr40 \/ Isr50 \/ Isr58

Driver == Start \/ Started \/ TimedOut \/ Ended \/ Return

Call ==
    \/ \E a \in Addr, n \in 1 .. MaxRead : a + n <= Size /\ EepromRead(a, n)
    \/ \E a \in Addr, n \in 1 .. MaxWrite : \E d \in [1 .. n -> Bytes] :
           a + n <= Size /\ EepromWrite(a, d)

EepromNext == Call \/ Driver \/ Isr \/ ChipDone

EepromSpec == EepromInit /\ [][EepromNext]_eepromVars

\* The bus moves, the task runs, a write cycle ends.
EepromFairness == WF_eepromVars(Driver) /\ WF_eepromVars(Isr) /\ WF_eepromVars(ChipDone)
EepromFairSpec == EepromSpec /\ EepromFairness

-----------------------------------------------------------------------------
(* Properties. *)

\* The variables keep their types.
EepromTypeOK ==
    /\ cells \in [Addr -> Bytes] /\ busy \in BOOLEAN /\ ptr \in Addr
    /\ latch \in Seq(Bytes) /\ Len(latch) <= MaxWrite
    /\ call.kind \in {"none", "read", "write"} /\ call.addr \in Addr
    /\ at \in {"idle", "engine", "starting", "waiting", "ended"}
    /\ state \in {"IDLE", "PENDING"} \cup Terminal /\ result \in {"IDLE", "0"} \cup Terminal
    /\ WrIndex \in 0 .. Header + MaxWrite /\ RdIndex \in 0 .. MaxRead
    /\ sta \in BOOLEAN /\ aa \in BOOLEAN
    /\ fly \in {"none", "slaW", "data", "rep", "slaR", "rdata"}
    /\ in \in [1 .. MaxRead -> Bytes \cup {0}] /\ error \in {0, 1}

\* A read has returned what the chip holds, every byte of it and no other
\* (I2C1_IRQHandler, EepromRead*).
ReadRight ==
    at = "idle" /\ call.kind = "read" =>
        \A i \in 1 .. MaxRead :
            in[i] = IF i <= call.len THEN cells[call.addr + i - 1] ELSE 0

\* A write has been made when it returns, every byte of it (EepromWrite*).
WriteLands ==
    at = "idle" /\ call.kind = "write" =>
        \A i \in 1 .. Len(call.data) : cells[call.addr + i - 1] = call.data[i]

\* What a write has not been given to write it leaves alone, and nothing else
\* writes (I2C1_IRQHandler).
LeavesOthers ==
    \A i \in Addr : cells'[i] # cells[i] =>
        /\ call.kind = "write"
        /\ i >= call.addr /\ i < call.addr + Len(call.data)
OthersKept == [][LeavesOthers]_eepromVars

\* Every call returns, however the refusals of the chip and the looks of the task
\* fall (I2CEngine, the loops of EepromRead*).
Returns == at # "idle" ~> at = "idle"

\* The transfer is over when the task leaves the driver: its buffers may be filled
\* again (I2CEngine).
BusAtRest == at \in {"idle", "engine", "ended"} => fly = "none" /\ ~sta

\* A call that returns has done what it was asked to, and left the bus: a read, and
\* a write too if the callers wait for the chip (I2CEngine, EepromRead*, EepromWrite*).
CallsRight == ReadRight /\ (Paced => WriteLands) /\ BusAtRest

\* What the comment over EepromWriteBuffer says: an error of a write is reported.
WriteReported == WriteLands \/ error # 0

\* What the comment over I2CStart says: it times out if the bus never gets started.
NeverStarted == [][ at = "starting" /\ at' = "ended" => WrIndex = 0 ]_eepromVars
=============================================================================
