# Formal models of the Subscriber panel

`SubscriberClassic` is the firmware of an alarm panel (NXP LPC1769, µC/OS-III, µC/TCP-IP): it watches
zones, logs events in Contact-ID form, keeps them in a serial flash and sends them to one or two
monitoring stations over UDP. This directory holds TLA+ models of the parts that carry its promise
(*an alarm that was logged reaches the station, once, and survives a restart*), the TLC runs over
them, and theorems about them checked by TLAPS.

The repository has no tests and no documents; the models are translated from the C code. Line numbers
below and in `PROJECT.json` refer to it.

## 1. Inventory

| Part | Source | State | Operations | What is hard |
|---|---|---|---|---|
| Log queue | `log_event.c` 91-176, 1343-1388 | `LogT_eventRecord[40]`, two positions, a count | push by any task (`logCidEvent`), pop by `LogT_Task` | no lock between the two sides, non-atomic `++`/`--`, no test for room |
| Event log in flash | `log_event.c` 110-207, 1143-1340, 1529-1578, 1811-1842, 2807-2976 | ring of 4224 records, `evflash_wrptr`, `eventIndex` and their saved copies | store, mark as acknowledged, search by index, reload, format, restart | failed writes, power losses between writes, two tasks marking records, wraps |
| Transmit rings | `log_event.c` 414-579, 1123-1213 | `Monitoreo[i].eventRecord[25]`, positions, count | put, peek, read out | no test for room; several writers |
| Connection | `rabbit.c` 269-866 | `Monitoreo[i].state`, `flags`, `sec`, timers | open, send event/heartbeat/report, take an acknowledgement, repeat, close | lost, repeated, late answers; flags that survive an exchange |
| Link watchdog | `rabbit.c` 1102-1457 | `wdogstate`, timer, `ACKWDG`/`ACKNG`, `hbreset_retries` and its copy | report silence, reset, pause | two tasks call it for one station; it blocks inside; it counts on a hardware watchdog |
| MACROMODE machines | `log_event.c` 583-1107 | held events, `EVxxxPy` flags | hold, discard, release an event after a guard time | run in another task than the one that holds |
| R3K serial link | `main.c` 1900-2030, 3259-3430; `log_event.c` 1110-1141, 1215-1228 | `R3KeventRecord[]`, a machine with retries | send over RS-232 until a byte 0x06 comes | stale acknowledgement, unprotected ring |
| Alarm detection | `fsm_deteccion.c`, `zonescan.c` | zones, alarms, reset counts, copies in flash | some thirty polled machines | timers and flags shared by tasks; reports block in the middle of a pass |
| Tampers of bus and panels | `fsm_deteccion.c`, `lan485.c` | `Rot485_flag`, the supply of the peripherals | cut the supply, wait, report | two machines own one switch; words written by two tasks |
| RS-485 bus | `lan485.c` | `ptm_dcb[]` | poll, retry, command the partition modules | timeouts, lost answers, an event acknowledged before it is logged |
| Autoprotection | `autoprotect.c` | door, user and reset machines | supervise the cabinet | timers, `ARSTOK_FLAG`, flags of one byte written by three tasks |
| DataFlash driver | `DataFlash.c` | two page buffers of the chip | write a page | no mutual exclusion, commands sent to a busy chip |
| EEPROM driver | `mem_i2c.c` | `I2CMasterBuffer`, state | read, write, interrupt | a refused write reports no error |
| Configuration | `console.c`, `rabbit.c` 40-200, `main.c` 4440-4530 | two copies with checksums | set, choose at start-up, refill | power cut between any two writes |
| Serial rings | `serial.c` | two rings, two semaphores | put, take, interrupts | a semaphore posted to all who wait |
| Start-up, main loop | `main.c` | configuration, daily tasks | load, recover copies | order of initialisation |
| Console, UDP server, encoders, dates | `console.c`, `udpserver.c`, `protocols.c`, `time.c`, `utils.c` | buffers, configuration | parse, print, convert | boundaries |

**How they interact.** Tasks have strict priorities (`app_cfg.h` 57-71): `AppTaskStart` 1, `App_Task_1`
4, `LogT_Task` 5, `ZoneScan` 6, `AlarmDetect` 7, `Autoprotect` 8, `LAN485` 10, `RabbitTask` 14. Any of
them calls `logCidEvent`, which queues the event under the semaphore `LogEventRdyPtr`. `LogT_Task` takes
it off **without** the semaphore, writes the record, moves and saves the position, and copies the event
to the ring of each station in use. `RabbitTask` sends the head of a ring and, on an acknowledgement,
reads it out under the semaphore and marks its record in the flash; an acknowledged heartbeat over an
empty ring makes it reload what has no mark. `RabbitTask` sets `ACKWDG`, which `fsm_wdog_r3k`, called by
`App_Task_1` **and** `LAN485_Task`, looks for.

```
 producers --logCidEvent--> queue --LogT_Task--> flash ring --+--> tx ring 0 --+
   (sem)                  [LogQueue]             [EventFlash] +--> tx ring 1 --+--> RabbitTask <--UDP--> station
     ^                                                ^  marks, reloads            |   [RabbitLink]
     |                          [MacroHold] holds ----+----------------------------+ ACKWDG
     |                                                    App_Task_1, LAN485_Task: fsm_wdog_r3k [WdogR3k]
 ZoneScan -> AlarmDetect [ZoneAlarm, ZoneBreak] <-- LAN485 [Lan485Poll, BusTamper], Autoprotect [Autoprotect]
 App_Task_1 -> R3K [R3kSerial]      all of them -> [DataFlash] [Eeprom] [ConfigCopies] [SerialTx] [SerialRx]
```

What makes each part correct: the queue delivers every event once and in order; a mark sits on the
record of the event that was acknowledged and is never lost; indices are unique, and a restart goes on
where the log stopped; nothing waits in a ring for ever and only what the station has received leaves
it; silence is reported before it is acted on, and acted on a bounded number of times; the station's
picture of the alarms and the copy in flash are the panel's; a module in trouble is reported as such;
what was written to a memory is there. `PROJECT.json` lists under `hazards` where each of these could
go wrong, at its line.

## 2. Modules

| Module | Models | Runs (part) | Proofs |
|---|---|---|---|
| `LogQueue` | the queue, at the grain of preemption | `LQ_safe`, `LiveLines` (log) | `LogQueueProofs` |
| `EventFlash` | queue → flash → rings → marks, reloads, format, restart | `EF_log`, `EF_journal`, `Alarm` (marks) | `EventFlashSafety` |
| `EventJournal` | what the log promises, abstractly | through the next | |
| `EventFlashJournal` | `EventFlash` as an implementation of it | `EF_journal` | `EventFlashSafety` |
| `RabbitLink` | `RabbitTask` and the network | `RL_one`, `LiveAlarm` (station), `RL_lost` | `RabbitLinkProofs` |
| `WdogR3k` | `fsm_wdog_r3k`, its two callers, start-up | `WD_loss`, `WD_fed` | `WdogR3kProofs` |
| `R3kSerial` | the ring and the machine of the link to the R3K | `Devices` (link, ring), `LiveLines` (link) | `R3kSerialProofs` |
| `ZoneAlarm` | fire and hold-up, from the zone to report and reset | `Alarm` (asal, both), `LiveAlarm` (zone) | `AlarmProofs` |
| `MacroHold` | the guard machines of MACROMODE | `Alarm` (two, one), `LiveAlarm` (guard) | `AlarmProofs` |
| `ZoneBreak` | the zone scanner and the broken lines | `Alarm` (zones, bands) | `AlarmProofs` |
| `Autoprotect` | the cabinet's door and its user | `Alarm` (door, boot), `LiveLines` (door) | `AlarmProofs` |
| `BusTamper` | tampers of the bus and of the panels | `Tamper`, `LiveLines` (tamper, relays) | `BusTamperProofs` |
| `Lan485Poll` | polling of the partition modules | `Devices` (bus), `LiveLines` (bus) | `DeviceProofs` |
| `DataFlash` | `flash0_write` by several tasks | `Devices` (flash, page), `LiveLines` (flash) | `DeviceProofs` |
| `Eeprom` | the I2C driver, its interrupt and the chip | `Devices` (paced, busy) | `DeviceProofs` |
| `ConfigCopies` | the two copies of a station's address | `Devices` (copies) | |
| `SerialTx`, `SerialRx` | the rings of a serial port | `Devices` (send; take, empty) | `DeviceProofs` |

`MCx` modules instantiate them for TLC. Four of these are **suites**: `MCAlarm`, `MCDevices`,
`MCLiveAlarm` and `MCLiveLines` hold several small instances, called parts, that have nothing in common;
a behaviour chooses one in its initial state and is one of that part alone. The first parts of `MCAlarm` and
of `MCDevices` are the modules that they extend (`ZoneAlarm`, `MacroHold`, `ZoneBreak` and `Autoprotect`;
`Lan485Poll`, `DataFlash`, `Eeprom` and `SerialRx`), with their properties under their own names; in the others the variables
`v1, v2, ...` stand for those of the part at hand (the rest stay 0). In the live ones each part has its own variables, and a property is `part = x /\ X!Fairness =>
X!Live`. A suite says of each part what its module says; where a property is about several parts it is
the conjunction over them.

A definition named `Op_Variant` just before `Op` is a mutant: the same operation with a plausible bug.
`PROJECT.json` pairs every checked property with one that breaks it. Several modules keep a history
variable `raced` (`strayed`, `faults`) of the mishaps met so far, each named where it happens; their
properties say what holds *until* a certain mishap, and so both what the code gets right and exactly
what undoes it. Each module's header says at what grain it steps and what it leaves out; what follows is
how the state and the actions correspond to the code.

### LogQueue
`writeptr`, `readptr`, `count`, `buf` are the variables of the code. `low[p]` is a program counter of the
producer of priority *p* inside `WriteEventToFlash`, `logT` that of `LogT_Task`, each with the register a
non-atomic `count++`/`count--` goes through. Only `App_Task_1` outranks `LogT_Task`; its push is one step,
possible whenever it may log, also between the load and the store of `count--`. All other producers rank
lower: `LogT_Task` may interrupt them anywhere, but they move only while it is in one of its delays, and
one of them interrupts another only if it outranks it and one of the two logs without the semaphore
(`GenerateCIDEventPTm`, `ParsePtmCID_Event` do). `raced` records the races; the properties say what each
can do and that without them the queue is a FIFO.

### EventFlash
An event is a number, its place in the order of `logCidEvent` calls; a record keeps its state, index,
event and set of marks. A step ends where the code calls `OSTimeDlyHMSM`: between two delays nobody of
lower priority runs. `logT.pc` follows `LogT_Task` through a record: `verify` and `reverify` (the two
attempts), `index` (between the two writes of `Set_evwrptr`), `deliver`, and in MACROMODE `hold` and
`fanout` (the mark of a held event is itself written with delays). `rabbit` is `RabbitTask` inside
`ReadOutEvent` (between the read and the write of a mark) or inside `ReloadUnAckEvents25` (slot by slot).
`format` is a format that has erased `done` slots. A transmit ring is the sequence of its future reads;
`TxPut` also overwrites the unread entries that share an element with the new one, as the code does when
the ring is full. `Crash` is a power loss and the start-up after it: rings and queue empty, position and
index from their saved copies. `ReloadUnAckEvents` then runs, but before `Get_evwrptr`, with the position
still zero; `BootReloadIsEmpty` proves that it queues nothing.

Abstractions: the search of a record is one step (it takes up to 42 s under the semaphore); the test
`cid_eventcode < 0x999`, the filter on qualifiers, `DONTSENDEVENTS` and the list of codes that MACROMODE
lets through are left out: all events are of the kind that is sent, except those in `Internal`; only
writes of records fail, not those of the position; the erasures of a format do not fail. Two timing
facts are assumptions: while `RabbitTask` is inside one mark or reload, `LogT_Task` starts at most `Pace`
records (it needs over a second for each); a held event is not acknowledged within the 720 ms of its
hold.

Two things the model shows of the code and its properties allow: when the index wraps, the event stored
as 0xFFFE is queued under 0xFFFF (`eventIndex - 1` in sixteen bits), so that its acknowledgement finds no
record and the reload sends it again, for which `faults` notes `wrap`; and `NoResend` exempts the events in
`Held`: a reload during a hold queues the event for the other station, and the delivery after the hold
queues it again.

### EventJournal, EventFlashJournal
`EventJournal` has a sequence of pending events and a set of kept records; it stores the first pending
event, dropping the oldest when it is full, adds marks, and in a power loss forgets what was pending.
`EventFlashJournal` maps the flash ring to it: the kept records are those of the slots other than the one
at the write position, and an event is kept when the position moves past its record. The position, the
index, the two saved copies and the two delays of a store are what this hides.

### RabbitLink
`st`, `flags`, `sec` are those of `Monitoreo[i]`; the ring is `logged` and `read`, event *e* being the
*e*-th put in it. One action is one pass of the loop over one station. Timers are abstract: whatever waits
for time may happen in any pass. `case SM_HOME` has no `break` before `SM_SOCK_READY`, so `Home` and
`HomeFails` go on in `ReadyBody`. `toServer` and `acks` are sets: packets may be lost, repeated and
reordered as long as their number is not in use again (`NextSec` removes those of a full round before).
The station (`Acknowledge`) is external: it answers a packet with the packet's number. With
`ShortAcks` it may also send the short acknowledgement of two bytes (`rabbit.c` 599), which carries none. Left out: the
protocol EYSE1, LEDs and buzzer, the serial-number test, the R606 report (its flag is never set).

### WdogR3k
One station, two callers. A step of `fsm_wdog_r3k` ends where it blocks (`NetNIC_Init` and the delay
after it, `NetSock_Close`, the delay before `while (1)`). A caller in `while (1)` starves whatever does
not outrank it. `Boot` is start-up, with its test of the saved count. `Feeders` is the set of tasks that
feed the hardware watchdog. Left out: the E700 flags, the record of the 606 report, one wrap of the timer.

### R3kSerial
The ring `R3KeventRecord[]` at the grain of `LogQueue`, but here `App_Task_1` is both the task that
empties the ring (`fsm_R3kSendCid`) and one that fills it, and outranks all others, so that what it does
is one step. `st`, `on`, `console` are the machine, the mode and an open console session; `ack` is the
bit `R3KSERACK`, set by whoever reads a 0x06 and put back by `AutoprotectTask`, which clears other bits
of the same word by a load and a store (`ClearLoads`, `ClearStores`). `strayed` names seven mishaps:
`lostPush`, `lostPop` (an update of the count undone), `early` (a record sent before it was written),
`overrun` (a full ring), `runoff` (two producers past the end of the array), `late` (a 0x06 for a
transmission given up), `putback` (the flag restored by `AutoprotectTask`).

### ZoneAlarm
One pass of `AlarmDetectTask` over the alarms ASAL and INCE: `pass.pc` goes through the comparison and
the reports of `DeteccionEventos`, the zones' machines and the reset machines. A step ends at
`logCidEvent`, which blocks for half a second, so the tasks of lower priority act between reports; the
console, which outranks them, anywhere. `reported` is what the station was told, `hist` and `saved` are
the copies in flash. The mishaps: `reread` (the console resets an alarm between two reads of the word),
`boot` (a restart finds one not yet reported), `word`, `gen` (an update of a word undone by a
read-modify-write), `save` (`LAN485_Task` writes an old copy to flash), `console`, `limit`.

### MacroHold, ZoneBreak, Autoprotect
`MacroHold` is `WriteEventToTxBuffer` for station 0 and one guard machine (with two partitions or one),
with the bits `EVxxxPy` as one word that three tasks change by load and store. `ZoneBreak` is a round of
the scanner (two readings, bands, converter at fault) against a pass over the zones' machines, which
share one debounce timer: a zone that flaps restarts the debounce of the others, so changes of the lines
are bounded. `Autoprotect` is the debounced door, the iButton, the visit, the treasure alarm of an
opening and the report of a restart, with `AlarmDetectTask` preempting `AutoprotectTask` inside a pass.

### BusTamper, Lan485Poll
`BusTamper` is the three tamper machines in a pass of `AlarmDetectTask` and, in `LAN485_Task`, the
watchdog of the panels and the read-modify-writes of `Rot485_flag` and `FSM_FLAG_1`, in which a pass may
fall. Of a module it has what the tampers see: whether it is `P485_NG` (`ng`) and whether it has
`COMM_TROUBLE` (`trouble`), which differ through `P485_WAIT`, up to three hours; when it gets from one to the
next is free. `Lan485Poll` is what decides that: the count of silences, the machine of a module, the event
that is acknowledged before it is logged, and the command to arm. `Watched` limits the mishaps that are told
apart, to keep the instances small; one that is not watched is excused nowhere.

Both have the record `PTM485NG_HistoryWrite` makes. It holds the modules in `P485_NG` and whether
`fsm_rotura485` is in `ROT`, not who has `COMM_TROUBLE`: a write made while a module is in `P485_WAIT`, by
another module or by `fsm_rotura485` at 2714 or 2723, drops it, and a restart then takes it for good. At the
end of the wait `COMM_TROUBLE` is cleared (`lan485.c` 522) before the report, which blocks, and the state
follows (524): in between `AlarmDetectTask` may leave `ROT` and record the module as `P485_NG` once more. The
actions `GivenUp`, `SetTrouble`, `Answers`, `BeginWait`, `Recovers`, `FillPtmHistory` and `WritePtmHistory` are these
steps in `BusTamper`, and `VisitIdle` to `Save` in `Lan485Poll`. `TamperSaved` says what the record is worth:
all modules given up, none that is well, those in their wait or not. `TroubleStands` says when the flag
stands: from `P485_NG` on, to the end of the wait and not while the return is reported.

### DataFlash, Eeprom, ConfigCopies, SerialTx, SerialRx
`DataFlash` is the four steps of `flash0_write` by tasks that preempt each other, and the chip with its
two buffers. `Eeprom` is the driver of the I2C bus status by status, with one task: several in it at once
is a hazard without a property; calls longer than its buffers, which it refuses (`mem_i2c.c` 468, 585), are left
out, and so are the frames of `flash0_read` in `DataFlash`. No field of `eeprom_map.h` crosses a page of the chip. `ConfigCopies` is
the console's writes, the choice at start-up and the refilling of the flash, with the power cut between
any two writes or inside one. Start-up fills an erased page of the flash from the EEPROM by
`pgm_server1`, which writes the EEPROM, then the only good copy, again: a second cut there loses both
copies, and after a third a torn name can have a checksum of its own, as the address. That is why
`WritesKept` speaks of one cut, and of two. The bits behind `DF_FIDUDT_OFFSET` are dead code: nothing clears
them. `SerialTx` and `SerialRx` are the two rings with their semaphores.

## 3. Runs

All with breadth-first search, complete; sizes are distinct states.

| Run | States | Constants | Shows |
|---|---|---|---|
| `EF_log` | 2.3 M | 1 station, in MACROMODE with 1 held event; 6 slots, index to 7, ring of 2, window of 1, 7 events, 1 power loss, 1 format | marks, indices, restart, no second transmission, order: `TagSound`, `IndexUnique`, `RestartContinues`, `NoResend`, `LogInOrder` |
| `EF_journal` | 81 k | 1 station, 4 slots, index to 5, ring and window of 1, 5 events (1 filtered), 1 failed write, 1 power loss | `ImplementsJournal` (with its fairness), `WindowDrains` |
| `RL_one` | 1.4 M | 2 events, numbers 1..3, short acknowledgements, 1 report, 1 loss of the link | `OneNumber`, `OnlyReuseLoses` |
| `LQ_safe` | 4.9 M | queue of 3, 5 events, producers of priority 4, 7 and 10, the last without the semaphore | `PositionInside`, `CountSound`, `Fifo` |
| `WD_loss` | 17 k | `HBRESET_RETRIES` = 5, 3 power cycles, all feeding but `AppTaskStart` | `ReportedFirst`, `SilenceEnds` |
| `Alarm` | 2.1 M | one kind of alarm, 1 request, 1 meddling, 1 restart, at most one mishap (`FewMishaps`); a guard machine of two partitions, 3 events, a ring of 3; two zones with readings of every band, debounce of 2, 3 changes; the door and a button; five more parts of `MCAlarm` | see below |
| `Tamper` | 3.7 M | 2 panels, one module (240), 1 restart, every race told apart, at most one race (`FewMishaps`) | `SupplySafe`, `TampersKept` |
| `Devices` | 2.8 M | 2 modules, one special, 1 event, 1 change of a line, 1 command, 1 restart, at most two mishaps (`FewMishaps`); ten more parts of `MCDevices` | see below |
| `LiveAlarm` | 173 k | one zone; one station with 2 events; a guard machine with 2 events | `AskedIsGiven` (and `AlarmEnds`), `EveryEventIsRead` (and `Decided`) |
| `LiveLines` | 201 k | the door; the tampers, of a module that has the supply cut, and of one that has not and one of relays; one module on the bus, the queue, the R3K, the flash | `Settles` (and `OpenDecided`), `TroubleAlarmed`, `AllDelivered`, `EveryEventStored`, `EveryEventSent` |
| `RL_lost` | violation | 2 events | finding 1 |
| `WD_fed` | violation | 2 retries, all feeding, as in the code | finding 2 |

`Alarm`: `StationKnows` and `AlarmSaved` (the station's and the flash's picture of the alarms), `NotForgotten`
and `SentOnce` (an alarm held for the Macro waits or was told, and is not sent once closed), `FullDebounce` (no
break before its whole debounce), `OpeningsRight` (an opening has its alarm or its user: one in alarm has asked
for it, a button from before opens nothing, only who was let in is valid, and the watchdog is suspended for
such a user alone), `OthersKnow` (two kinds of alarm; the station's picture of the broken zones; ring 0 under
its two writers; a guard machine of one partition; the line and the flags of the door, and `OpeningsRight`
through a restart), `OthersKeep` (no early report and only true restores with four zones; `SentOnce` with one partition; two
stations, no step takes back a mark). `Tamper`: `SupplySafe` (the
supply is cut and the zones are blind only while a machine counts), `TampersKept` (the flag and the flash
say what the panels are in, the record of the modules who is given up). `Devices`: `ModulesReported` (a module is reported and taken for what
its answers and silences say), `ModulesServed` (an event, a command to arm, is kept until it is where it
belongs), `Integrity` (DataFlash, three pages in two buffers), `CallsRight` (what the EEPROM's driver
returns and leaves behind), `EachOnce` (each character received goes to one reader), `OthersHold` (the ring
and the line of the R3K; a single page of the DataFlash; the EEPROM with callers in a hurry; the transmit
ring; a receive ring that is cleared), `WritesKept` (the configuration after a power cut; the bytes of a write
of the DataFlash that none interrupts; the bytes of the EEPROM that nobody writes; the character in the
transmitter). `TypesOK` in `Alarm` and `Devices` is the type invariant of every
part.

**Why the bounds are enough.** The queue is filled, overrun and wrapped (5 events over 3 elements). In
`EF_log` the flash ring wraps (7 events over 6 slots) and the index too, at another slot than the first;
the transmit ring is overrun; a hold, a reload, a format and a power loss can meet. In `EF_journal` the
log is full and drops its oldest event. Numbers 1..3 come round while old packets are about. One failed
write and one power loss each can hit at every step. `WD_loss` uses the real number of retries and enough
power cycles to go beyond it. In the suites each part is the smallest instance in which its mishaps
occur: a mishap that never occurred could be dropped from the property, and each property is broken by a
mutant in its instance. Where an instance is too small to say something of larger ones, section 5 tells
what is proved for all.

**What a bound hides, as far as it is known.** `ImplementsJournal` does not hold for every behaviour:
with a sixth event after a failed write and a power loss the slot of the failed write is a hole that a
restart moves across, and TLC finds a step that drops two events; the run stops at five events, and the
theorem (section 5) excludes failed writes. `LogInOrder` excuses failed writes for the same reason: with one
failed write and one power loss TLC finds it true (4 slots, 7 events), with two failed writes and a loss
between the two writes of `Set_evwrptr` false. `TakesOldOrTried` of `ConfigCopies` speaks of two cuts at
most.

In `Alarm`, `Tamper` and `Devices` a state after more mishaps than `FewMishaps` allows is checked and not continued:
the properties excuse most of what comes later, and the theorems have no such bound.

`CHECK_DEADLOCK FALSE` stands in `LQ_safe` and the four suites, where the inputs stop at their bounds and
a task that polls has nothing to do, and in `WD_fed`, where the panel really hangs in `while (1)`.

**Fairness.** The tasks are endless loops under a preemptive scheduler: weak fairness on their steps, and
on timers that have been set. Strong fairness is asked where a step needs a moment that comes again and
again: a producer that holds the semaphore gets the processor in `LogT_Task`'s delays, and so does a task
that is preempted at the points where it may be; the flash does not refuse a record for ever; a packet
repeated for ever gets through, and its answer too; the R3K answers one of the transmissions it gets; a
zone whose reports block is looked at in the end. `EveryEventSent` supposes the R3K mode on for good and
`SilenceEnds` a technician who leaves. Nothing asks that power is lost, an event is logged, a report is
made, a door closes, a line becomes good or a station answers in `WdogR3k`; where a property needs that,
it says so itself.

## 4. Findings

1. `RL_lost` (`rabbit.c` 734). An event's exchange that is broken off leaves `EVESND_FLAG` set. The next
   socket starts with a heartbeat under the same number, and its acknowledgement is taken for the
   event's: the event leaves the ring, is marked in the flash, and is never sent again, which is what the
   reload announced at `rabbit.c` 740 is for. `OnlyReuseLoses` states what does hold.
2. `WD_fed` (`rabbit.c` 1306). The panel counts on the hardware watchdog to reset it ("me reseteo por
   watchdog"), but `AppTaskStart` at priority 1 feeds it every second, and `WDT_Init`/`WDT_Start` are
   commented out (`main.c` 2505-2507). `App_Task_1` then spins until someone cycles the power.

Smaller disagreements between a comment and the code, met while modelling. The modules state them; no
run checks them; TLC finds each one violated in an instance of the suites:

* `MacroHold!OtherAsLogged`: the conversion of codes "para el Macro" (`log_event.c` 429) reaches station 1
  too, when the event is held: the function returns (502) before the code is restored (569).
* `SerialTx!Fits`: the wait for room announced at `serial.c` 456 is let through for every waiting task by
  each character that leaves (`OS_OPT_POST_ALL`, 272).
* `SerialRx!NeverWaits`: `CommIsEmpty` (`serial.c` 390, comment 355) counts a character already promised
  to `FsmLedsTask`; `App_Task_1` then waits for the next one.
* `ConfigCopies!AllRight`: "los checksum dieron todos bien" (`rabbit.c` 73), where the EEPROM's checksum
  was not compared.
* `Eeprom!WriteReported`: a write the chip refused is reported as made (`mem_i2c.c` 486, comment 459).
* `Eeprom!NeverStarted`: "never gets started" (`mem_i2c.c` 325) is also returned for a transfer that was
  made while the task was kept from the processor (339).

What a proof attempt showed of a model, its property or the code:

* `ZoneBreak!RestoreIsTrue` said that a restore of a line that reads as broken is logged only when the panel's
  zones were each broken at one of the last two readings. It is false: the status of a line that jumps
  between two levels of which neither is broken is kept from before (`zonescan.c` 204-218), so a zone still counts as
  broken two readings later, and with it the three together (TLC: three zones, readings 500, 2000 and 2800, 5
  changes). It now says what the code does: each reads as broken or jumps.
* `BusTamper!SupplyOwned` is false in general once there are two panels: `FSM_WriteHistory` can put an old
  FSM_FLAG_1, with `ROT943`, back in flash (`fsm_deteccion.c` 3463), setting the clock makes each panel enter
  its watchdog again (`main.c` 4017), and the history it then reads takes the machine of the panels to `ROT`
  (`fsm_deteccion.c` 3487) while `fsm_roturaEVO` has the supply cut; nothing gives it back. The model did not
  have that; it now names it (`torn`), and `SupplySafe` excuses it.
* `BusTamper!FlagHasPanel` as first stated failed with three panels after an old byte of the history was
  written back (`byte`, `flag1`). TLC's instance had two.
* `MacroHold!RingRaces`, which names what `LogT_Task` undoes when it writes ring 0 inside a release, was a
  `CASE` whose arms overlapped: between the load and the store of the count, with the position past the
  array, it undoes both the count and the position, and the model noted whichever `CHOOSE` took. It notes both now.

## 5. Proofs

Eight modules, all for every value of the constants that the modules' `ConstantsAssumption` allows, and
for any number of events, losses, restarts and the like, since the bounds of the actions are constants
too. (`ZoneAlarm`, `MacroHold`, `ZoneBreak`, `Autoprotect`, `BusTamper`, `R3kSerial`, `Lan485Poll` and `DataFlash` are
instantiated with several values, so that their assumption is a hypothesis of each theorem instead of an `ASSUME`.)

* `LogQueueProofs`: `ReadptrCorrect`, `CountCorrect`, `OverstatedCorrect`, `UnderstatedCorrect`,
  `CountSoundCorrect`, `PositionCorrect`, `FifoCorrect`. The count's invariant adds to it the increment or
  decrement in hand (the registers of the producers and of `logT`). `Fifo` needs a geometric invariant:
  with *b* pushes begun and *p* pops done, the two positions are *b* and *p* modulo the length (`Turn`
  avoids the modulo), element *i* of the window between them holds event *i*, except one a producer
  has not written yet, and `LogT_Task` has event *p*+1 in hand. `Fifo` alone is not inductive: it speaks
  only of what is already out. `PositionCorrect` needs only who is inside a push.
* `RabbitLinkProofs`: `TypeCorrect`, `WaitsCorrect`, `EventSentCorrect`, `OneNumberCorrect`,
  `ReuseCorrect`. The invariant adds `NoReport` (without reports no flag of theirs is set), `Numbered`
  (packets of the event at the head carry the current number or there are none) and `SecSound` (what is
  under way with the current number is in `usedFor`, and an acknowledgement with it means one of these
  was delivered).
* `WdogR3kProofs`: `TypeCorrect`, `RetriesCorrect`, `ReportedCorrect`. `RetriesInv`: if both callers are
  past the test the count is still below `HBRESET_RETRIES`, if one is, at most equal.
* `EventFlashSafety`: `TypeCorrect`, for which it needs `Working`: who works on a station works on one in
  use, a reload has a slot left, and `LogT_Task` has the head of the queue in hand until it takes it off.
  Then `TagSoundCorrect`, `IndexUniqueCorrect`, `RestartContinuesCorrect`,
  `NoResendCorrect`, `LogInOrderCorrect`, which are the five invariants of `EF_log`, and `TagsKeptCorrect`.
  The invariant measures a slot by its `Age`, how many records back from the write position it lies:
  `Queued` (what waits has not been taken), `Hand` (where `LogT_Task` is with its record), `Records` (the
  older a slot, the older its event), `Entries` (each entry of a transmit ring points to a record that
  is still that event's, because it is at most a ring's length and the records of a reload old, for
  which the rings' positions are counted in laps), `Tagging` and `Reloading` (the record in `RabbitTask`'s
  hands ages by `rabbit.pace` at most), `Indexed` (the index tells the age), `Erasing` (a format), and for
  `NoResend` `Dense` (no hole), `AllMarked`, `Past`, `Once` and `NotYet` (what a reload has yet to look at is
  not in the ring). None of the properties is inductive: that a mark goes to the right record follows
  only from the age of everything that points to one.
  *Hypothesis.* `HeldFit`: ring + window + twice the pace + the number of held events is at most the number
  of slots. Held events move the log on without taking a place in the ring of their station, so an entry
  may get that much older while it waits; without it the theorems are false (TLC: 5 slots, ring 2, window
  1, pace 1, one event held; after 7 events a mark is written back over a record that `LogT_Task` has
  meanwhile put there). `Held` counts over the whole behaviour, although only those held while some
  entry waits matter; in a panel, 25 + 25 + 2·2 of 4224, the theorems as they stand cover behaviours
  with at most 4170 held events in all.
  The refinement is proved in the same module. `StepsOfJournal`: without failed writes, formats and holds
  `Spec` implies `Journal!Init /\ [][Journal!Next]_(Journal!vars)`. `StepsOfJournalHeld`: with holds, every step is
  one of the journal or leaves it alone as long as no power loss has come between the two writes of
  `Set_evwrptr`: after one, with two stations, the mark of a hold can be written back over another. To the
  invariant above it adds `Solid` (the log has no hole, whatever restarts there were) and `Fresh` (the
  record `RabbitTask` is about to mark is as it read it).
* `R3kSerialProofs`: `TypeCorrect`, `CountSoundCorrect`, `ReadOutWasSentCorrect`, `ReadOutWasReceivedCorrect`,
  that is, what `MCDevices!OthersHold` says of the R3K, until the mishaps that the properties name. The line:
  `LineInv`, the flag of the acknowledgement is never up while the machine is idle (which is why a
  transmission need not clear it), and while it waits the flag and the answer to come are of what was last
  sent and has arrived. The ring: `CountInv` (who has loaded the count has what it still is), `CardInv`
  (pushes begun and counted differ by the producers in between), and `Geometry`, `Places`, `Contents`,
  `InOrder`, as in `LogQueueProofs`, but with any number of producers inside at once.
* `AlarmProofs`, `ZoneAlarm`: `TypeCorrect`, `StationKnowsCorrect`, `AlarmSavedCorrect`, `ResetArmedCorrect`. `Located`: a
  task in the middle of an alarm is at one of the alarms. `KnowsInv`: while `DeteccionEventos` reports, what
  the station was told, less the ends and with the beginnings it is still to be told, is what is on.
  `ArmedInv`: an alarm whose reset machine has run in this pass is armed; nothing raises one between the
  zones and the end of the pass, nothing disarms one. `AlarmSaved` is inductive once types are known.
  `MacroHold`: `HoldTypeCorrect`, `NotForgottenCorrect`, `SentOnceCorrect`, `PositionInsideCorrect`,
  `CountSoundCorrect`, for a machine of one partition and of two. `Placed` says which bits the machine has
  left to clear at each of its steps. `NotForgotten` needs `Owed`: while an alarm is owed, nothing that clears
  its bit without telling it is under way. `SentOnce` needs `Open`: what waits is open but for what is about to
  be cleared, and so is what the machine releases, until one of the four mishaps. For ring 0, `Inside` says
  where the position may stand while the machine has yet to wrap it, and `Between` that the position has moved on
  before the count (`ToCount`): read position and count are the write position and some number of rounds. That is how
  `CountSound` is stated too, since the provers know nothing of a remainder by a constant without a value.
  `ZoneBreak`: `BreakTypeCorrect`, `FullDebounceCorrect`, `BreaksKnownCorrect`, `RestoreIsTrueCorrect`. `Debouncing`: a zone
  in its wait has been seen broken for as long as the timer has run, or longer, so that whoever sets the shared
  timer again only adds to the wait. `Telling`: what the station knows, with the report about to go out, is
  what the machines hold. `Seen`: between two rounds a status other than broken is that of a line that reads so,
  but for the panel's zones when all three were broken.
  `Autoprotect`: `DoorTypeCorrect`, `OpeningsRightCorrect`, `LineFollowsCorrect`, `FlagsSavedCorrect`. `Alarmed` looks for an
  opening in alarm wherever it can be: the machine, `FSM_FLAG_1`, the copies in flash, the buffer on its way
  there and what is left to do with the bit; without these a restart would bring one back that nobody
  asked for. `ButtonFresh`: a button that waits was pressed after the machine was last idle. `Visit`: who is being
  let in is in the cabinet, and valid.
* `DeviceProofs`, `Lan485Poll`: `TypeCorrect` and the five safety properties of the bus, `TroubleStandsCorrect`,
  `ArmKeptCorrect`, `EventKeptCorrect`, `ReportedAsStandsCorrect`, `RecoveredAnsweredCorrect`; together they are
  what the run checks, `ModulesReportedCorrect` and `ModulesServedCorrect`. `Located` ties `currentEvent` to what
  `LAN485_Task` is doing. `Built`: what it has built is still there unless another task's event is. `Ahead`:
  while a report is out and not yet in the state, the log is ahead. For `RecoveredAnswered`, `GivenUp` (the
  count of a module given up is zero only after an answer) and `Waiting` (one in its wait has answered to
  within one silence of the limit, except in the visit that finds it silent). The hypothesis `AllWatched`,
  every mishap is told apart, belongs to all but the first.
  `DataFlash`: `FlashTypeCorrect`, `IntegrityCorrect`, `OnePageSafeCorrect`, `OwnBytesCorrect`. `Frames`: the frame
  that is open is that of a task in one, and no task above it is in the driver; until two frames are
  mixed, a task in its second frame has it open on a chip that is ready. `Integrity` looks at a chip that is
  ready, so `Contents` says the same of what the memory will hold when the chip is done (`Coming`), and of a
  buffer with the right page in it: its bytes are those. For `OnePageSafe` `Loaded`: while a task is past its
  first frame, the one buffer holds the one page or is being loaded with it. That fails for two pages even
  in a buffer each, because a load is ignored while the chip programs the other, which is the hazard at
  `DataFlash.c:291`; so the hypothesis `Pages = {q}` is what the property means. For `OwnBytes`, `TopFinds`.
  `Eeprom`: `EepromTypeCorrect`, `CallsRightCorrect`, `OthersKeptCorrect`. `PhaseInv` pairs where the task is with
  what the bus does; `BusInv` says how far a transfer has come, `Come` what a read has got by then and `Landed`
  what a write has left in the chip. *Hypothesis* of `CallsRightCorrect`: `InTime`, the callers wait for the
  chip's write cycle (as the console does, `console.c:2024`) or the task looks at the bus before a
  transfer is over. With neither, a read that was refused while the task was kept away is not tried again
  (`I2CStart` has timed out, and `result` is "0"): TLC finds it at once.
  `SerialRx`: `RxTypeCorrect`, `EachOnceCorrect`, for one reader or two, and for one that clears. `CountInv`: the
  counter is the semaphore and the readers it has let in, so it never goes below zero; this needs that
  App_Task_1, which is stopped by no one on that port, waits at the semaphore only when the other reader is
  not on the way there. `RingInv`, the geometry: the ring holds the last of the accepted characters.
  `SerialTx`: `OnTheWayCorrect`, `FirstSentCorrect`, for any tasks. `TxInv`: the transmitter is busy exactly while it
  has a character or an interrupt to come, and an idle one has an empty ring; a character is taken
  from the ring only where one was put. How far `waiting` may go beyond the ring (`Fits`, section 4) is
  bounded in the runs only.
* `BusTamperProofs`: `TypeCorrect`, `SupplySafeCorrect`, and `TampersKeptCorrect`, which puts together
  `TamperSavedCorrect`, `AlarmKeepsFlagCorrect`, `PanelSavedCorrect` and `FlagHasPanelCorrect`; each supposes
  only that its own races are told apart. For the supply, `Blind` says which machine has cut it in each pair
  of states. Types need `EntryClean` (the entry of `fsm_roturaEVO` is left before any tamper can be in flash, so
  that its branch for one that is there is never taken) and `Named` (a panel's step has a panel in hand, a
  module's a module). `Recorded` is about the record of the modules that has been filled and not yet written and the module in hand,
  `Kept` about the flag's load and store in `LAN485_Task`, `Written` (with `PanelsWritten`) about the word and
  the copy of the panels in the middle of a pass, `Claimed` about who stands behind the flag.

The theorems of `R3kSerialProofs` have the names of what `MCDevices` checks in two instances of it; the
others are about the very properties of the runs. The inductive invariants were checked by TLC before they
were proved, in larger instances than the runs have: `R3kSerial` with two producers and three events to a
depth of 25 steps, `ZoneAlarm` completely for one kind of alarm with a request, a restart and a reset,
`Lan485Poll` completely for one module with every mishap, two changes of the line, a command and a restart
(1.5 million states), `DataFlash` with three tasks or three pages,
`MacroHold` with four events (3.1 million states), `ZoneBreak` (19 million states) and `Autoprotect` with two
buttons and two restarts (26 million, neither complete), `BusTamper` with two and three panels. `ResetArmed`, `RetriesBounded` and
`EventSentWaits` are proved and no run checks them.

**Only model-checked.** The liveness properties and the fairness of `ImplementsJournal` (liveness and
`ENABLED` are out of the prover's reach); the refinement with failed writes (false in general, see
section 3); the properties of `ConfigCopies`, and the bound of `waiting` in `SerialTx!TxTypeOK`. No module uses a recursive operator.

## 6. Not modelled, and the plan

Not modelled, by file: of `fsm_deteccion.c` the treasure zone (`fsm_deteccion_tesoro`), the other openings,
devices (1150-1230), the second fire zone and power supply (1712 ff.); of `lan485.c` what an event of a
module means (`ProcessEvents`), the filter of its status (818-850), the lock gates (2978-3060) and the
signalling (3733-3775); the second door's debounce (`autoprotect.c` 196-247); the console but for what it
writes and resets (`ConsoleEntry`, `main.c` 4570-4720); of `rabbit.c` the protocol EYSE1 and
`init_lan_cfgfile`; several tasks in the EEPROM's driver at once; the UDP server, iButtons, dates, encoders,
modem, radar, AES, DHCP. Vendored code (`Micrium/`, `LPC1769_CMSIS_Driver/`, `BSP/`) and the Iridium modem
(compiled out) stay outside. `PROJECT.json` says of each component what is in and what is out.

Next, in this order:

1. A proof for `ConfigCopies`.
2. The composition of `RabbitLink` with the marks of `EventFlash`.
