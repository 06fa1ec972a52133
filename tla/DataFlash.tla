----------------------------- MODULE DataFlash -----------------------------
(***************************************************************************)
(* flash0_write (src/DataFlash/DataFlash.c) called by tasks of different   *)
(* priority with no mutual exclusion.  A write is four steps on the SPI    *)
(* bus: load the page in one of the chip's two buffers (0x53, 0x55), wait  *)
(* until the chip is ready, program the page through the buffer with the   *)
(* new bytes in it (0x82, 0x85), wait again.  A wait is a busy loop, so a  *)
(* task of lower priority stands still while one of higher priority        *)
(* writes.  The chip ignores a command while it is busy, and takes the     *)
(* bytes of a second task as part of the frame the first has open.  Left   *)
(* out: flash0_read, whose frames may be mixed with those of a write too.  *)
(*                                                                         *)
(* The chip itself (an AT45DB) is external: it is modelled from what       *)
(* flash0_write asks of it.  A page has one cell per task: the bytes that  *)
(* task writes there.                                                      *)
(***************************************************************************)
EXTENDS Naturals

CONSTANTS
    Tasks,       \* the priorities of the writers, 1 is the highest
    Pages,       \* pages of the memory
    BufOf,       \* the buffer each page is written through: dfbuff
    MaxWrites    \* bound: writes of one task

DataFlashAssumption ==
    /\ Tasks \subseteq Nat \ {0} /\ MaxWrites \in Nat
    /\ BufOf \in [Pages -> {1, 2}] /\ "none" \notin Pages

Nobody == 0
Junk == MaxWrites + 1          \* bytes that nobody meant to write
Values == 0 .. Junk
NoPage == "none"               \* what a buffer holds at power-up
Ready == [op |-> "ready", page |-> NoPage, b |-> 1]

VARIABLES
    mem,     \* the main memory: page and task -> value
    buf,     \* the two buffers: the page they were loaded from, and their bytes
    chip,    \* what the chip is busy with
    cs,      \* the task whose frame the chip is receiving, or Nobody
    pc,      \* where each task is in flash0_write
    page,    \* the page it writes
    n,       \* the writes it has begun; the value written is their number
    last,    \* history: page and task -> value of the last finished write
    spoiled    \* history: "mixed" frames, "stale" buffers

flashVars == <<mem, buf, chip, cs, pc, page, n, last, spoiled>>

Blank == [t \in Tasks |-> 0]

FlashInit ==
    /\ mem = [p \in Pages |-> Blank] /\ last = mem
    /\ buf = [b \in {1, 2} |-> [page |-> NoPage, img |-> [t \in Tasks |-> Junk]]]
    /\ chip = Ready /\ cs = Nobody
    /\ pc = [t \in Tasks |-> "idle"]
    /\ page = [t \in Tasks |-> NoPage]
    /\ n = [t \in Tasks |-> 0]
    /\ spoiled = {}

-----------------------------------------------------------------------------
(* The chip. *)

ChipLoads ==
    /\ chip.op = "load"
    /\ buf' = [buf EXCEPT ![chip.b] = [page |-> chip.page, img |-> mem[chip.page]]]
    /\ chip' = Ready
    /\ UNCHANGED <<mem, cs, pc, page, n, last, spoiled>>

ChipPrograms ==
    /\ chip.op = "prog"
    /\ mem' = [mem EXCEPT ![chip.page] = buf[chip.b].img]
    /\ chip' = Ready
    /\ UNCHANGED <<buf, cs, pc, page, n, last, spoiled>>

-----------------------------------------------------------------------------
(* The tasks. *)

\* No task of higher priority is in the driver: it would not give the CPU back.
CanRun(t) == \A u \in Tasks : u < t => pc[u] = "idle"

\* The first frame of t comes in the middle of a frame of u: the chip executes
\* u's command with bytes of t in it, at t's end of frame, and t's is lost.
Collide ==
    /\ cs' = Nobody
    /\ spoiled' = spoiled \cup {"mixed"}
    /\ \E p \in Pages :
         \/ /\ pc[cs] = "load"
            /\ chip' = IF chip = Ready THEN [op |-> "load", page |-> p, b |-> BufOf[page[cs]]] ELSE chip
            /\ UNCHANGED buf
         \/ /\ pc[cs] = "prog"
            /\ chip' = [op |-> "prog", page |-> p, b |-> BufOf[page[cs]]]
            /\ \E S \in SUBSET Tasks :
                 buf' = [buf EXCEPT ![BufOf[page[cs]]].img =
                                      [u \in Tasks |-> IF u \in S THEN Junk ELSE @[u]]]

\* A task of lower priority is in readStatus: its frame may be open.
InStatus(t) == \E u \in Tasks : u > t /\ pc[u] \in {"wait1", "wait2"}

\* The command to load the page: frame opened.
BeginWrite(t, p) ==
    /\ pc[t] = "idle" /\ CanRun(t) /\ n[t] < MaxWrites
    /\ pc' = [pc EXCEPT ![t] = "load"]
    /\ page' = [page EXCEPT ![t] = p]
    /\ n' = [n EXCEPT ![t] = @ + 1]
    /\ \/ cs = Nobody /\ cs' = t /\ UNCHANGED <<chip, buf, spoiled>>
       \/ cs = Nobody /\ InStatus(t) /\ UNCHANGED <<chip, buf, cs, spoiled>>
       \/ cs # Nobody /\ Collide
    /\ UNCHANGED <<mem, last>>

\* The frame ends: a busy chip ignores the command, and so does one that has
\* not seen it begin.
EndLoad(t) ==
    /\ pc[t] = "load" /\ CanRun(t)
    /\ pc' = [pc EXCEPT ![t] = "wait1"]
    /\ cs' = Nobody
    /\ chip' = IF cs = t /\ chip = Ready
                 THEN [op |-> "load", page |-> page[t], b |-> BufOf[page[t]]] ELSE chip
    /\ UNCHANGED <<mem, buf, page, n, last, spoiled>>

\* Mutant: the program command does not wait for the load.
Polled_Skipped(t) == pc[t] = "wait1" \/ chip = Ready

\* Mutant: the wait is for the other value of the bit.
Polled_Negated(t) == chip # Ready

\* pollIsBusy has seen STATUS_RDY.
Polled(t) == chip = Ready

\* The command to program the page, with the bytes: frame opened.
BeginProgram(t) ==
    /\ pc[t] = "wait1" /\ CanRun(t) /\ Polled(t)
    /\ pc' = [pc EXCEPT ![t] = "prog"]
    /\ cs' = t
    /\ UNCHANGED <<mem, buf, chip, page, n, last, spoiled>>

\* Mutant: the bytes go in the other buffer.
Filled_Other(t) == [buf EXCEPT ![3 - BufOf[page[t]]].img[t] = n[t]]

\* Mutant: the counter that is written is one ahead.
Filled_Slot(t) == [buf EXCEPT ![BufOf[page[t]]].img[t] = n[t] + MaxWrites]

\* The buffer with the bytes of the task in it.
Filled(t) == [buf EXCEPT ![BufOf[page[t]]].img[t] = n[t]]

\* The frame ends and the chip programs the page, unless another task's frame
\* has ended it already.
EndProgram(t) ==
    /\ pc[t] = "prog" /\ CanRun(t)
    /\ pc' = [pc EXCEPT ![t] = "wait2"]
    /\ cs' = Nobody
    /\ IF cs = t
         THEN /\ buf' = Filled(t)
              /\ chip' = [op |-> "prog", page |-> page[t], b |-> BufOf[page[t]]]
              /\ spoiled' = spoiled \cup
                   (IF buf[BufOf[page[t]]].page # page[t] THEN {"stale"} ELSE {})
         ELSE UNCHANGED <<buf, chip, spoiled>>
    /\ UNCHANGED <<mem, page, n, last>>

\* The last wait is over and flash0_write returns.
EndWrite(t) ==
    /\ pc[t] = "wait2" /\ CanRun(t) /\ Polled(t)
    /\ pc' = [pc EXCEPT ![t] = "idle"]
    /\ page' = [page EXCEPT ![t] = NoPage]
    /\ last' = [last EXCEPT ![page[t]][t] = n[t]]
    /\ UNCHANGED <<mem, buf, chip, cs, n, spoiled>>

flash0_write(t) ==
    \/ \E p \in Pages : BeginWrite(t, p)
    \/ EndLoad(t) \/ BeginProgram(t) \/ EndProgram(t) \/ EndWrite(t)

FlashNext == ChipLoads \/ ChipPrograms \/ \E t \in Tasks : flash0_write(t)

FlashSpec == FlashInit /\ [][FlashNext]_flashVars

\* The chip finishes what it has begun; a task in the driver runs whenever none
\* of higher priority does.
FlashFairness ==
    /\ WF_flashVars(ChipLoads \/ ChipPrograms)
    /\ \A t \in Tasks : SF_flashVars(EndLoad(t) \/ BeginProgram(t) \/ EndProgram(t) \/ EndWrite(t))
FlashFairSpec == FlashSpec /\ FlashFairness

-----------------------------------------------------------------------------
(* Properties. *)

\* The variables keep their types.
FlashTypeOK ==
    /\ mem \in [Pages -> [Tasks -> Values]] /\ last \in [Pages -> [Tasks -> Values]]
    /\ buf \in [{1, 2} -> [page : Pages \cup {NoPage}, img : [Tasks -> Values]]]
    /\ chip \in {Ready} \cup [op : {"load", "prog"}, page : Pages, b : {1, 2}]
    /\ cs \in Tasks \cup {Nobody}
    /\ pc \in [Tasks -> {"idle", "load", "wait1", "prog", "wait2"}]
    /\ page \in [Tasks -> Pages \cup {NoPage}] /\ n \in [Tasks -> 0 .. MaxWrites]
    /\ spoiled \subseteq {"mixed", "stale"}

\* What a task has written stays in its page whatever other tasks write around
\* it, unless a page was programmed through a buffer that held another page or
\* two frames were mixed on the bus.
Integrity ==
    chip = Ready /\ spoiled = {} =>
        \A p \in Pages, t \in Tasks : page[t] # p => mem[p][t] = last[p][t]

\* A page is programmed through a buffer that holds another page only where two
\* pages share a buffer or the chip; a single page, whoever writes it, is safe
\* but for mixed frames.
OnePageSafe == "stale" \in spoiled => "mixed" \in spoiled

\* When flash0_write returns to a task that none has interrupted, the bytes it
\* was given are in the page, even if the rest of the page came from another:
\* reading them back, as LogT_Task does, does not show the loss.
ReturnsWritten ==
    \A t \in Tasks :
        pc[t] = "wait2" /\ pc'[t] = "idle" /\ (\A u \in Tasks : u >= t) /\ "mixed" \notin spoiled =>
            mem[page[t]][t] = n[t]
OwnBytesWritten == [][ReturnsWritten]_flashVars

\* Every write ends: no preemption leaves a task waiting for a chip that has
\* nothing to do.
WriteEnds == \A t \in Tasks : pc[t] # "idle" ~> pc[t] = "idle"
=============================================================================
