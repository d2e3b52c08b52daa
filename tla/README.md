# Verification of the fire panel firmware

TLA+ models, TLC runs and TLAPS proofs about the firmware of the fire alarm and extinguishing panel
(ППКУ, STM32H523) in this repository. The models are translated from `src/Core/Src`; the documents in
`src/doc` are used only for statements to compare the code with. All paths below are relative to the
repository.

1. [The system](#1-the-system)
2. [The modules and the code they model](#2-the-modules-and-the-code-they-model)
3. [What the runs check](#3-what-the-runs-check)
4. [Disagreements between the code and its documents](#4-disagreements-between-the-code-and-its-documents)
5. [What is proved](#5-what-is-proved)
6. [What is not modelled](#6-what-is-not-modelled)
7. [Plan](#7-plan)
8. [Running it](#8-running-it)

## 1. The system

The panel sits on two CAN buses with its devices (MCUs with detectors, buttons and igniters), on UARTs
with a host and a radio module, and has a serial flash. One **main loop** (`main.c` 234–287) calls the 1 ms
task, the 10 ms task, the processing of received CAN frames and the transmitter, one after the other. The
interrupts (tick, CAN receive, UART receive) fill rings and counters; one of them, the UART receive
callback, runs application code. So the handlers of most components run to completion one at a time, and
the interleavings that matter are those of the events: buttons, frames, time, answers of the MCUs, the power.

| Component | State | Operations | Talks to | Hard behaviour | What makes it correct |
|---|---|---|---|---|---|
| Fire scenario `fire.c` | table of 16 slots, state of the FSM, global pause/stop, suppressed sources | fire reports, START/STOP/PAUSE/RESUME from buttons and bus, GOST reset, periodic deadlines and retries | igniters over CAN, configuration, menu | flags of one slot written by a dozen handlers in any order; deadlines; retries racing END_ACK and the operator | a zone is launched once, not while stopped, blocked or paused, and is launched in the end; the state agrees with the table |
| Command retry pool `fire.c` 840–1120 | 64 items | queue, cancel, acknowledge, resend | fire scenario, CAN | START and STOP of one igniter resent independently | a cancelled command is never resent |
| Event log `event_logger.cpp` | flash ring of sectors, count and last index in RAM | scan at the start, write, read by logical index | SPI flash; called by all | power failures between two flash commands; ring wrap; a write from an interrupt | nothing acknowledged is lost but the sector reclaimed |
| Log dump `log_stream.c`, `log_transport.c` | session, transmit ring | request, pump, stop | event log, two UARTs | pump run both from the interrupt and the loop while the ring moves | every record once, in order |
| CAN/UART bridge `can_bus.c` | receive ring, duplicate filter, transmit rings | receive, process, forward | all | interrupt moves the tail on overflow; filter without a time window | each frame handled once |
| Configuration sync `config_sync.cpp`, `config_ign_block_sync.c` | one operation with its targets, step, word, retries; a pending request | read all, verify, apply, periodic check, serial number, blocking of igniters | MCUs over CAN, image of the configuration, monitor | lost, late and repeated answers; MCUs that restart or move; edits by the host | a reported success is true of the MCUs; every operation ends |
| Configuration monitor `config_monitor.cpp` | streaks and latches of differing checksums, missing and found devices | periodic check, notices | sync, menu | results of a check in flight | only real differences are reported |
| Configuration storage `config.cpp` | flash image | load, save | all | rewriting in place sector by sector | a start finds the old or the new image |
| Power control `power_control.cpp` | output state, one retry | switch, fault, retry | relay outputs | retry inside the fault window | state agrees with the output |
| Warnings `warning.cpp` | table of acknowledged warnings | raise, acknowledge, clear | display, log | the same warning raised again | no new warning hidden by an old acknowledgement |
| Application `app.cpp`, `main.c` | active devices, timers | tasks, dispatch of frames | all | ticks lost between loop and interrupt | order of the calls |
| Menu, buttons, LEDs, beeper, log viewer, GUI, RTC, ADC, firmware update, ESP restart | presentation, debouncing, register access | – | – | – | out of scope |

`PROJECT.json` lists them under `components` with what is modelled of each, and under `hazards` the places
of the code that are hard to test, each with the properties that watch over it or the reason why none does.

## 2. The modules and the code they model

| Module | Models | |
|---|---|---|
| `Fire` | `fire.c` | state machine, properties |
| `MCFire` | – | values of the constants of `Fire` for TLC |
| `FireProofs` | – | theorems about `Fire` |
| `RecentLog` | the promise of `doc/ЛОГЕР_СОБЫТИЙ.md` line 16 | abstract specification |
| `EventLog` | `event_logger.cpp`, `event_log_reader.c`, `spif.c` | state machine, refines `RecentLog` |
| `EventLogProofs` | – | theorems about `EventLog` |
| `ConfigSync` | `config_sync.cpp`, `config_ign_block_sync.c`, parts of `config_monitor.cpp` and `app.cpp` | state machine, properties |
| `MCConfigSync` | – | values of the constants of `ConfigSync` |
| `MCConfigSyncStale` | – | one long behaviour of `ConfigSync`, see section 4 |
| `ConfigSyncProofs` | – | theorems about `ConfigSync` |
| `LogDump` | `log_stream.c`, `log_transport.c`, the transmit side of `can_bus.c` | state machine, properties |
| `LogDumpProofs` | – | the typing of `LogDump`; the stream of frames between the dump and the host, their numbers |
| `LogDumpRecordProofs` | – | the records of a stream: order and completeness; the order of the frames when some are lost |
| `CanRx` | the receive side of `can_bus.c` | state machine, properties |
| `CanRxProofs` | – | theorems about `CanRx` |
| `StartRetries` | what `Fire` takes for granted of the retry pool | abstract specification |
| `FireRetry` | the retry pool of `fire.c` | state machine, refines `StartRetries` |
| `MCFireRetry` | – | values of the constants of `FireRetry` |
| `FireRetryProofs` | – | theorems about `FireRetry` |
| `ConfigStore` | `config.cpp`, the start in `app.cpp` | state machine, properties |
| `MCConfigStore` | – | values of the constants of `ConfigStore` |
| `ConfigStoreProofs` | – | theorems about `ConfigStore` |

How they fit together: `Fire` decides which command an igniter gets and knows of the retry pool only which
zones have a START in it; `FireRetry` lets the panel give any command and says what becomes of it on the bus. `StartRetries` is where
they meet: its `StartZone`, `StopZones` and `Settle` are what `QueueStart`, `CancelStarts` and `StartSettled` of `Fire` do to
`start_retry` (one zone after the other; a zone that finds the pool full is one that is settled at once), and `FireRetry` is shown to implement it.
`EventLog` is one tier of the log down to the flash commands; `LogDump` reads two tiers by logical index and
takes from `EventLog` which cells of a sector begun are empty (`Reclaimed`). `ConfigStore` and `ConfigSync`
share nothing but the image: the one keeps it in the flash of the panel, the other in the MCUs.

The `map` of `PROJECT.json` names for every definition the lines it stands for. Operators marked *(mutant)*
are the deliberately wrong variants used to show that each property can fail; no action uses them.

### Fire

`fire` is one record: `g_fire`, the zones with an outstanding START in the retry pool (`start_retry`), the
list of acknowledged sources (`suppress`) and, for the properties, the commands the last handler sent
(`sent`). `slots[i]` is `fire.slot[fire.table[i]]`. The other variables are what the module reads of its
surroundings: the launch modes of the zones, `PPKYConfig.fire_mode = 2`, whether two detectors are needed,
the igniters, an open configuration session.

| Action | Code |
|---|---|
| `Tick` | `Fire_Timer1ms`: deadlines, extinguishing retries, FIRE1 promotion, `Fire_SyncStateFromSlots` |
| `OnStatusFire` | a fire report of a detector or button: new slot, FIRE1 waiting, FIRE2, suppression |
| `BtnStartSp`, `BtnStartAll`, `BtnStopPressed`, `GostReset` | ПУСК for a selected zone or all, ОСТАНОВ, СБРОС |
| `OnStartExtinguishment`, `OnStopExtinguishment`, `OnPauseExtinguishmentTimer`, `OnResumeExtinguishmentTimer` | the commands from the bus |
| `TransitionOnly` | events that only run `Fire_Transition` |
| `StartSettled` | acknowledgement or last resend of a START: it leaves the retry pool |
| `Fire_Init` | initialisation |
| `IgnitersSeen`, `Configured`, `ConfigSession` | the surroundings change |

A handler is a chain of operators on the record, in the order of the calls of the code
(`ProcessAutoDeadlines`, `ProcessExtinguishRetries`, `SyncStateFromSlots` behind most of them: `Settle`), so
that it is one atomic action as in the main loop. Deadlines are kept as the time left; one `Tick` stands for
the unit in which the constants `Delay` and `Grace` are given. Choosing a zone on the panel is a choice
among the active ones. Abstracted: texts, LEDs, sounds, log records, message identifiers of the retry pool.

### EventLog

One of the two tiers (they share only the flash commands). `flash` is the array of cells: empty, a record
(the number of the post), or bytes with a wrong checksum. `tier` is the `EventLogTier` in RAM, `writer` the
`EventLogTier_Write` under way: which command comes next, at which index, with which record. Each flash
command is a step of its own: `Post` (the write index and whether to erase are chosen), `Erase`, `Program`,
`Commit` (the indices in RAM). `Fail` is a command that reports an error, `InterruptPost` a whole write by the
receive interrupt between two steps, `PowerLoss` cuts a command short and drops the RAM, `EventLogTier_Init` is the scan
of the next start. Programming a cell that is not empty leaves a wrong checksum, as bits of flash only fall.
`Tears`, `InterruptedAt`, `RestartLimit`, `MaxFailures` say which of these may happen.

`RecentLog` is a sequence to which records are added; when it holds `Capacity` records the oldest
`Reclaimed` of them go, at once or together with the addition. `EventLog` implements it with `kept` = what a
reader gets (`EventLogReader_ReadLogical`), oldest first; without power: what the next scan finds. A record
that is programmed and not counted yet is masked (`Shown`); `ReadFrom` goes through the logical indices and
`RecordsOf` leaves the empty and the bad cells out.

### ConfigSync

| Variable | Code |
|---|---|
| `image`, `blocked` | `PPKYConfig` image of the MCUs, zones in the blocked mode |
| `active` | the zone of each active MCU (`app.cpp`) |
| `sync` | `g_cfg_sync`, with the history field `unsure` |
| `pending`, `boot` | `g_pending_request`, the run at the first igniter seen (`config_ign_block_sync.c`) |
| `streak`, `latched`, `serials` | results of the periodic check, serial numbers read (`config_monitor.cpp`) |
| `requests`, `replies` | frames on the bus |
| `mcu` | the MCUs: zone, working and saved configuration |
| `spent` | how much of each bound has been used |

An MCU is named by its slot in the image, which stands for its type and address. A configuration is two words, the
zone and the block of the igniter; a checksum is the configuration itself. The bus is a FIFO in either
direction that may lose a frame or, with `LateAnswers`, deliver it after the timeout (both runs let it). The software of the MCUs is not in the
repository: `McuAnswers` follows how the panel uses the answers (words are read from the working
configuration, the checksum is that of the saved one, Save copies and moves the MCU to its zone) and is
marked external. `ConfigSync_Process1ms` is the timeout with its retries, `OnListenerMessage` the handlers
of the replies, `ConfigIgnBlockSync_Process1ms` the blocking of the igniters; the operations start from the
menu, the host and the periodic task.

### LogDump

| Variable | Code |
|---|---|
| `log` | how many records each tier has been given; a record is the number of its post |
| `session` | `s_session` (`log_stream.c`) |
| `tx` | the ring of frames and its transmitter (`log_transport.c`), the UART, the queue of the bridge (`can_bus.c`) |
| `loop`, `irq` | where the main loop stands in `LogTransport_Process`, how many packets the interrupt may still pump |
| `panel`, `host` | ESP on, `HOST_LINK` logged, next stream; what the host has received of its stream |

The receive interrupt of the requests (`RequestStart`, `RequestStop`, `RequestOther`, then `Pump` until its budget is spent) runs while
`irq > 0` and stops the main loop; it may begin between any two steps of it. The steps of the main loop are
`LogTransport_Process`, `NextPacket`, `ReadRecord` or `ReadRecordFails`, `StoreRecord`, `PumpEnds`: a packet
of the main loop is read record by record, and the read is apart from the store, which uses the index the
session has by then. `log_transport_try_tx_uart2` of the main loop, called at the beginning (`LogTransport_Process`) and
at the end (`PumpEnds`), is taken apart as well: the busy test (`TestUart`), the look at the ring
(`LookAtRing`), the copy with the move of the tail (`CopyFrame`), the transmission (`SendBuffer`) and the flag behind it
(`MarkBusy`); an interrupt may come between any two of them. If it moved the ring between the look and the copy
(`CopyCrossed`), the bytes copied are a mixture of two frames or old ones and the tail may end anywhere the two
assignments put it; one action allows each of these outcomes and more. In the interrupt
`log_transport_try_tx_uart2` (`TryTx`) and a whole packet (`WholePacket`) are one step, since the main loop waits. `TxComplete` and `LineError`
are the ends of a transmission as the HAL reports them; `BridgeTx`, `CanMirror`, `EspOff`, `EspOn` are what
else uses the UART. `BridgeTx` is one step, since the bridge counts as busy from before its test to behind its transmission.

### CanRx

`ring` is `can_rx_ring` with its two indices, `push2` a push of the FDCAN2 interrupt that the one of FDCAN1
may preempt (`BeginPush2`, `EndPush2`; `Push1` is whole), `main` the loop of `CanProcess`: the entry is remembered
by its place (`TakeEntry`), the tail moves on (`AdvanceTail`), the entry is read, compared and parsed
(`HandleEntry`). `last` is the last frame of each bus for one entry of the tables of `CanProcess`; all devices of a zone share
one, since the seven low bits of the identifier that choose it are those of the zone. A device sends each
frame on both buses (`Send`), where one of the copies may be lost (`Lose`). Either bus may be behind the other
by any number of frames up to the bound `Lag`, since frames of one zone may follow each other closely; the ghost `missed.apart` remembers
that a copy overtook an earlier frame of the other bus. `device_can_error` and the
`pending_` fields behind it are written and never read, and left out.

### FireRetry

`pool` is `g_fire_retry_items`; an item names the kind and the igniter and counts its attempts. The panel
gives commands (`StartZone`, `RestartZone`, `StopZone`, `StopAll`, `ResetFire`, `PauseZone`, `ResumeZone`): each drops
the items its caller cancels, then queues one item for each igniter and sends it, as `Fire_SendPhase2Zone`,
`Fire_SendPhase2ZonePending`, `Fire_SendStopZone`, `Fire_SendStopAllMcus`, `Fire_GostResetFire`,
`Fire_PauseZoneCountdown` and `Fire_ResumeZoneCountdown` do. The igniters are those online, of which `Collected` takes as many as the buffer of the caller
holds (`ZoneCap`, `AllCap`; 16 and 32 in the code); `Fire_SendPhase2ZonePending` has no buffer. A command may be
given at any time, also while frames of earlier ones are under way. `Resend` and `GiveUp` are `Fire_RetryProcess` for one
item, `Acknowledged` is `Fire_RetryAckByMsgId`. `wire` and `acks` are the bus; `CarryOut` is the igniter, of which the repository
has only the acknowledgement (external). `burning`, `ordered`, `fate` and `late` are kept for the properties: the
last START or STOP an igniter carried out, the last one the panel meant for it, what became of a command, and which
commands were given while an earlier one of the kind, or its acknowledgement, was under way.

### ConfigStore

`flash` is the header and the sectors of the image, `config` is `PPKYConfig`, `saved` is `SavedPPKYConfig`.
A save (`BeginSave`, then one `Operate` or `OperationFails` for each command of the flash, then `EndSave`) walks
through the sectors that differ from `saved` – erase, header if it is the first, write – or erases all of
them first if all differ (`FlashWriteData_Full`). The code does not look at the results of the flash
functions, so a failed operation is passed over. That goes for the header too, which is read at the start and at the
end of a save: if the read fails, the code looks at what was on the stack, so that the header may look valid or not
whatever the flash holds (`HeaderLooks`). Only `ReadSavedConfig` looks: it reads the image part by part (`ReadChunk`) and repeats
a part that fails (`ReadChunkFails`). `PowerFails` may come at any time; the next start is `BootFromFlash`, or `BootWithDefaults` when
the header does not look valid. Two ghosts: `known` says that `saved` was read from the flash, or written by a save that did all its work upon
such a copy; `promise` is what the last completed save has to have stored. Writing a sector that is not erased leaves something else than was written (`Garbled`).

## 3. What the runs check

| Run | Bounds | Properties |
|---|---|---|
| `fire_one_zone` | 1 zone, 2 detectors, every launch mode, FIRE1/FIRE2 or not, igniters in any state, configuration sessions, delay 2, grace 1, 1 retry | `TypeOK`, `SlotsConsistent`, `IdleMeansNoFire`, `NoSecondLaunch`, `PanelPauseFreezes` |
| `fire_two_zones` | 2 zones, 2 places, delay 1 | `OneSlotPerZone`, `StoppedZoneIsQuiet` |
| `fire_live` | 1 zone, 2 retries, fairness | `LaunchEventually`, `RetriesEnd` |
| `event_log` | 3 sectors of 2 records, 14 posts (the ring wraps twice), 2 failed commands, 2 power failures before the ring has wrapped, interrupts between writes | `TypeOK`, `NothingLostBeforeFull`, `RecentRecordsKept`, `KeepsRecentLog` |
| `config_sync` | 1 MCU, 2 zones, 1 resend of a request, no resend of Save, 2 operations, 1 change of a mode, 1 edit of the image, 1 restart of the MCU, 1 lost or late frame | `TypeOK`, `AppliedIsStored`, `BlockingIsStored`, `ImageIsRead`, `LatchedDiffers` |
| `config_sync_live` | 3 MCUs: one known, one not in the image, one not on the bus; 1 operation, 1 change of a mode, 1 MCU that falls silent, 1 late frame, fairness | `BusyEnds`, `IgnitersFollow` |
| `log_dump` | 2 tiers of 2 sectors of 2 records, holding 1 or 5 records at first; 2 records in a packet, 3 frames in the ring, 2 packets pumped by the interrupt and 1 by the main loop; 2 requests, 1 record logged meanwhile besides `HOST_LINK`, 1 failure | `TypeOK`, `NumberedWithoutGap`, `RecordsInOrder`, `PromisedIsDelivered`, `NeverRunsBack` |
| `log_dump_live` | the same with 3 records in each tier and none logged meanwhile, fairness | `DumpEnds` |
| `can_rx` | 4 frames of 2 contents, 1 copy lost, ring of 6, at most 2 frames of a bus not yet in the ring | `TypeOK`, `ParsedOnceInOrder`, `ChangesAreParsed` |
| `fire_retry` | 2 zones of 1 igniter, 2 items, 2 attempts, 3 commands, each given with at most 1 frame of earlier ones under way, 1 frame lost, fairness | `TypeOK`, `OneItemPerCommand`, `GeneralStopIsRetried`, `AcknowledgedStopPrevails`, `NoStartAfterStop`, `KeepsStarts`, `GeneralStopIsCarriedOut` |
| `config_store` | 3 sectors of 2 contents, any number of edits, saves, failed operations and power failures | `TypeOK`, `CopyIsFlash`, `SaveIsKept`, `CleanSectorsStay` |
| `event_log_wrap` | see section 4 | refutes `RecentRecordsKept` |

Why the bounds are enough to meet the interesting cases:

* *Fire.* The handlers treat zones alike; what one zone can do to another goes through the table of places,
  the global flags and the retry pool, all of which two zones share. A delay of two ticks separates
  "started", "shortened" and "due"; one retry separates "retry left" from "retries used up". The theorems of
  section 5 hold for any number. `fire_two_zones` has as many places as zones; the overwriting of a
  full table (`PutSlot`) is covered by the theorems, which do not relate the two numbers.
* *EventLog.* Two records per sector make a first and a last record of a sector differ; three sectors make
  the sector being erased, the newest and the oldest differ. Fourteen posts wrap the ring twice. In the
  passing run the power fails only in the first six posts, while the ring has not wrapped; the restart of a
  wrapped ring is `event_log_wrap`. Deadlock is not checked in the runs of the event log, since
  the posts are bounded and the model stops when they are used up.
* *ConfigSync.* The retries of the code (5, and 3 for Save) only repeat a step; one resend already makes
  a late answer meet the request of the next step. Two operations are needed for the leftovers of the first
  to meet the second. These bounds do not show what leftovers of several operations can do together: that
  is `MCConfigSyncStale.cfg` (section 4).

* *LogDump.* Five records make a tier of four wrap and its oldest sector be reclaimed; one record fits into
  one packet, three need two, so that a dump of both tiers has a packet behind the change of the tier. The interrupt pumps
  two packets and the rest is left to the main loop, so both pumps take part in one dump. A second request
  meets a dump under way.
* *CanRx.* One more content than one makes "the same as before" and "the same as before that" differ; four frames
  are the shortest history in which a frame comes again behind another one. A lag of two lets one bus overtake
  the other by a frame; the ring of 6 has room for four frames, and what happens in a crowded one is excepted by the properties (`missed.crowded`).
* *FireRetry.* The pool has as many places as igniters, the fewest the assumption allows, so that a command of
  another kind finds it full. Two attempts and one loss make a resent frame follow a later command;
  three commands give START, STOP, START or STOP, START, STOP to one igniter. One frame under way when a command
  is given is enough for an acknowledgement to meet the next command of its kind (`late`); the theorems hold for any number.
* *ConfigStore.* Any operation and any read may fail, any number of times. Three sectors make the first (with the header), a middle and the last one differ; the state space is
  finite without bounds.

Deadlock is not checked in the runs of `LogDump`, `CanRx` and `FireRetry` either: requests, frames and
commands are bounded and the model stops when they are used up. In `config_store` a panel that is switched
off without a power supply simply stays off.

The properties of `config_sync` leave out MCUs the panel itself left half written: an operation that fails between two words
leaves unsaved words in the MCU, and a later blocking of the igniters takes them for its own (hazard at
`config_sync.cpp:569`). `HalfWritten`, `unsure` and `Sure` say exactly which MCUs these are. The same holds
of an MCU whose image the host edits while it is being compared.

**Fairness.** `Fire`: weak fairness of `Tick`; the main loop calls `Fire_Timer1ms` every millisecond and
nothing in the module can prevent it (an open session does not stop the loop, so `Held` and `RetriesEnd`
treat a session as an excuse). No button, report or command is fair. `ConfigSync`: weak fairness of
the two 1 ms tasks and of the processing of a received frame (the main loop), of the answer of an MCU to a
request that has reached it (unless it is lost) and of the status frames of the MCUs on the bus (they send them periodically). The
operations, changes of modes, losses and restarts are not fair. `LogDump`: weak fairness of the interrupt
that has begun and of the end of a transmission (hardware) and of the steps inside `LogTransport_Process`;
strong fairness of the calls the main loop repeats for ever (`uart_bridge_process_tx`, `LogTransport_Process` when the
bridge is idle) and of the frames mirrored from the CAN bus, so that the bridge does get in between. `CanLeavesGaps` says
that the UART is fast enough to become idle between them. Requests, failures and power switches are not
fair. `FireRetry`: weak fairness of `Fire_RetryProcess` for each item (it runs every millisecond; commands are bounded, so
no item is renewed for ever), of the handling of an acknowledgement and of the delivery of a frame that is not lost.

**Mutants.** For each property of each passing run `PROJECT.json` has a plausible mistake in a mapped
definition under which TLC finds the property violated with the same configuration: a launch not
guarded by the lock, a slot given without looking for an existing one, a retry not counted, a pause resumed
from the wrong time, a sector erased too late, a log read from the wrong end, a reply accepted for another
word, a pending request dropped, an index of a ring that wraps one place late, a STOP that leaves the STARTs in the
pool, a sector written without an erase.

## 4. Disagreements between the code and its documents

The run `event_log_wrap` checks one property and TLC refutes it; `findings` in `PROJECT.json` has the quotation:
`event_logger.cpp:189` – a restart after the ring has wrapped takes the last address for the newest record and counts
the erased cells as missing; the next posts program cells that hold records.

The other configurations of this directory are instances to run by hand. Each checks one property of the
module and TLC refutes it (in a few seconds; `MCFireGlobal.cfg` takes about a minute). The properties of the passing runs except
the case, or the runs leave it out, and the hazards name it
(the last one is the hazard at `config_sync.cpp:665` taken far).

| Configuration, module | Property refuted | What it shows |
|---|---|---|
| `MCFireBlocked.cfg`, `MCFire` | `BlockedZoneNeverStarted` | `fire.c:1912` – a broadcast START from the bus marks a zone that is blocked but has igniters as launched, and the extinguishing retries send START to it; `config_zone_block.h:18` says launching is blocked. |
| `MCFirePause.cfg`, `MCFire` | `PauseFreezes` | `fire.c:1394` – a pause from the bus on a zone the panel has paused recomputes the frozen rest from a stale deadline: the countdown shortens while it is frozen. |
| `MCFireGlobal.cfg`, `MCFire` | `LaunchEventually` | `fire.c:2402` – with `fire_mode = 2` the FSM returns to WAIT_MANUAL after an extinguishing, where the deadlines of automatic zones are not looked at; `fire.c:2782` says the global mode does not stop the zones. |
| `MCFireFull.cfg`, `MCFire` | `StoppedZoneIsQuiet` | `fire.c:1709` – with more zones than the 16 places, START ALL sends START to a zone that gets no place; a fire of that zone in manual mode then takes the place of another one, is shown as stopped, and the START is still being resent. |
| `MCEventLogTorn.cfg`, `EventLog` | `NothingLostBeforeFull` | `event_logger.cpp:178` – after a power failure in the middle of a program the next record goes over the torn cell, is acknowledged and cannot be read. |
| `MCEventLogInterrupt.cfg`, `EventLog` | `NothingLostBeforeFull` | `log_transport.c:285` – the receive interrupt logs a record between two commands of a write of the main loop, and both take the same cell (`SPIF_Lock`, `spif.c:75`, locks nothing). The model lets the interrupt log any number of records; the code logs `HOST_LINK` once per medium and session, and one is enough for the trace. An interrupt that finds the flash chip busy is taken to be served as soon as the command is over. |
| `MCLogDumpOff.cfg`, `LogDump` | `DumpEnds` | `app.cpp:1501` – the main loop calls `LogTransport_Process` only if `rs485_on` is set; without it a dump longer than the interrupt pumps at once never ends and every later request is answered BUSY, while `doc/ПРОТОКОЛ_ЧТЕНИЯ_ЛОГОВ.md:113` says the panel sends the series of `LOG_DATA` at once. |
| `MCLogDumpRace.cfg`, `LogDump` | `OnlyDumpNumbered` | `log_transport.c:316`–337 – the main loop tests the UART and takes a frame without masking the receive interrupt. A first START that comes in between sends its answer and fills the ring; the main loop then takes packet 0, copies it over the buffer being sent and gets HAL_BUSY: the packet is lost, and the dump goes on to its LAST. `doc/ПРОТОКОЛ_ЧТЕНИЯ_ЛОГОВ.md:21` says the numbers are without a gap. |
| `MCCanRxLag.cfg`, `CanRx` | `EachParsedOnce` | `can_bus.c:758` – when one bus is a frame behind the other, A1 B1 A2 B2 reaches the filter as A, B, A, B and A is parsed again behind B; `can_bus.h:47`–48 promises one parse for a unique packet. |
| `MCFireRetryCap.cfg`, `FireRetry` | `StopReachesAll` | `fire.c:1378` – the stop to all goes to the first 32 igniters collected, while the table of devices holds 32 MCUs with 16 virtual devices each (`app.hpp:52`, 75); the comment at `fire.c:1376` says it goes to each active igniter. |
| `MCFireRetryLate.cfg`, `FireRetry` | `AcknowledgedMeansOff` | `fire.c:1075` – an acknowledgement does not say which of two STOPs of an igniter it answers: that of the earlier one, arriving late, frees the item of the later one, which is not repeated if it was lost, while a START in between has been carried out. |
| `MCFireRetryReset.cfg`, `FireRetry` | `EveryStopIsConfirmed` | `fire.c:2691` – the reset of a fire sends STOP to the igniters online and empties the pool at once: a STOP lost on the bus is not repeated, nor are those still waiting for igniters that are not online, while `doc/Протокол_команд_и_статусов.md:38` lists the STOP (143) as a command that is confirmed (by 145). |
| `MCConfigStoreBlind.cfg`, `MCConfigStore` | `EverySaveIsKept` | `config.cpp:350`, `app.cpp:1235`–1266 – when there is no valid header, or it cannot be read, the copy in RAM is all zeros, whatever the flash holds: sectors of the default configuration that are all zeros are taken to be written already and keep what was there (0xFF at the first start), which the next start reads. |
| `MCConfigStoreCopy.cfg`, `MCConfigStore` | `CopyOfTheFlash` | `config.cpp:61`–67 – if the header cannot be read at the end of a save, the copy is set to `PPKYConfig`, also when the save left sectors that are something else; no later save finds them. `app.cpp:29` says that the copy is of the configuration in the flash. |
| `MCConfigSyncStale.cfg`, `MCConfigSyncStale` | `LatchedDiffers` | `config_sync.cpp:528` – a reply is matched by command and index, not by the request it answers. A scripted behaviour of 64 states: attempts to write the image fail, one after the other, while what they repeated is still under way, and in the end a comparison takes the size and the checksum the MCU gave before it carried out a Save; a mismatch is latched although the MCU has saved what the image has. It takes six operations after the first blocking, ten frames on the wire at once and a dozen timeouts before their answers, which is out of reach of a search and improbable on a bus that answers within milliseconds. |

## 5. What is proved

For every value of the constants that satisfies the assumptions, checked by TLAPS:

| Theorem | Statement |
|---|---|
| `FireProofs!Invariance` | the inductive invariant `Inv = TypeOK /\ SlotsConsistent /\ OneSlotPerZone /\ IdleMeansNoFire` |
| `FireProofs!TypeCorrectness` | `Spec => []TypeOK` |
| `FireProofs!SlotsAreConsistent` | `Spec => []SlotsConsistent` |
| `FireProofs!OneSlotPerZoneAlways` | `Spec => []OneSlotPerZone`, with more zones than places too |
| `FireProofs!IdleExactlyWithoutFire` | `Spec => []IdleMeansNoFire` |
| `FireProofs!SoundInvariance` | the inductive invariant `SoundInv = Inv /\ Sound(fire)`: the retries and the START part of the retry pool go with the slots |
| `FireProofs!NoSecondLaunchAlways` | `Spec => NoSecondLaunch` |
| `FireProofs!StoppedZoneIsQuietAlways` | `Spec => []StoppedZoneIsQuiet` if no more zones than places |
| `FireProofs!PanelPauseFreezesAlways` | `Spec => PanelPauseFreezes` |
| `EventLogProofs!TypeCorrectness` | `Spec => []TypeOK`, torn commands and interrupts at any step included |
| `EventLogProofs!NothingIsLostBeforeFull` | `Spec => []NothingLostBeforeFull` under `Undisturbed` |
| `EventLogProofs!RecentRecordsAreKept` | `Spec => []RecentRecordsKept` under `Undisturbed` and `EarlyRestarts` |
| `EventLogProofs!ImplementsRecentLog` | `Spec => KeepsRecentLog` under the same: `EventLog` implements `RecentLog` |
| `ConfigSyncProofs!TypeCorrectness` | `Spec => []TypeOK`, late, lost and repeated frames, restarts and edits included |
| `ConfigSyncProofs!AppliedIsStoredAlways` | `Spec /\ SettledStarts => AppliedIsStored`: answers may be late within an operation, but it begins with nothing of an earlier one under way |
| `ConfigSyncProofs!BlockingIsStoredAlways` | `Spec /\ SettledStarts => BlockingIsStored` |
| `ConfigSyncProofs!ImageIsReadAlways` | `Spec /\ SettledStarts => ImageIsRead` |
| `ConfigSyncProofs!LatchedDiffersAlways` | `Spec /\ SettledStarts => LatchedDiffers` |
| `ConfigSyncProofs!InTimeIsSettled` | `Spec => SettledStarts` if no answer comes after its timeout |
| `ConfigSyncProofs!InTimeAlways` | `Spec` implies all four if no answer comes after its timeout |
| `LogDumpProofs!TypeCorrectness` | `Spec => []TypeOK` |
| `LogDumpProofs!NumberedWithoutGapAlways` | `Spec => []NumberedWithoutGap`, for a host whose START does not come into a packet or the hand-over of a frame |
| `LogDumpRecordProofs!RecordsInOrderAlways` | `Spec => []RecordsInOrder` |
| `LogDumpRecordProofs!PromisedIsDeliveredAlways` | `Spec => []PromisedIsDelivered` |
| `LogDumpRecordProofs!ReadsInRangeAlways` | the main loop never asks for a record behind the end of its tier while the host waits |
| `LogDumpRecordProofs!NeverRunsBackAlways` | `Spec => []NeverRunsBack`, in streams that lost frames too |
| `CanRxProofs!TypeCorrectness` | `Spec => []TypeOK`, for any lag of the buses |
| `CanRxProofs!ParsedOnceInOrderAlways` | `Spec => []ParsedOnceInOrder`, for any lag of the buses |
| `CanRxProofs!ChangesAreParsedAlways` | `Spec => []ChangesAreParsed`, for any lag of the buses |
| `FireRetryProofs!TypeCorrectness` | `Spec => []TypeOK` |
| `FireRetryProofs!OneItemPerCommandAlways` | `Spec => []OneItemPerCommand` |
| `FireRetryProofs!GeneralStopIsRetriedAlways` | `Spec => []GeneralStopIsRetried` |
| `FireRetryProofs!AcknowledgedStopPrevailsAlways` | `Spec => []AcknowledgedStopPrevails` |
| `FireRetryProofs!NoStartAfterStopAlways` | `Spec => NoStartAfterStop` |
| `FireRetryProofs!ImplementsStartRetries` | `Spec => KeepsStarts`: `FireRetry` implements `StartRetries` |
| `FireRetryProofs!HaltedIsQuietAlways` | `Spec => []Starts!HaltedIsQuiet` |
| `ConfigStoreProofs!TypeCorrectness` | `Spec => []TypeOK` |
| `ConfigStoreProofs!CleanSectorsAreLeftAlone` | `Spec => CleanSectorsStay` |
| `ConfigStoreProofs!CopyIsFlashAlways` | `Spec => []CopyIsFlash` |
| `ConfigStoreProofs!CompletedSavesAreKept` | `Spec => []SaveIsKept` |

**Assumptions.** TLC evaluates the assumptions of a module in every run.

* `Fire`: the zones are a finite set of positive numbers, there is at least one place, the
  delays are natural numbers, and the surroundings choose within their sets (`ZonesAssumption`,
  `BoundsAssumption`, `SurroundingsAssumption`).
* `EventLog`: positive sizes of the tier and natural bounds.
* `ConfigSync`: at least one slot, zones with positive numbers (zone 0 is nobody's), natural retries and sizes, and an MCU with an
  igniter whose configuration is not one word only, since the block is the second (`ConstantsAssumption`).
* `LogDump`: sizes of at least one, a tier of whole sectors, a ring with room for the answer and all the
  packets the interrupt may pump (`SizesAssumption`; the code has 32 and 16).
* `CanRx`: a ring of at least two places, natural bounds, and a value that no frame carries for "nothing
  received yet" (`RingAssumption`, `BusAssumption`, `ContentAssumption`; `can_bus.c:758` compares the identifier
  with one that no frame has).
* `FireRetry`: an igniter belongs to a zone, the igniters are finitely many and the pool has an item for each
  (`IgnitersAssumption`, `PoolAssumption`; the code has 64 items, and bounds the igniters online by nothing smaller than the
  table of devices. Only `GeneralStopIsRetried` needs it).
* `ConfigStore`: a last sector, and a default configuration of known contents (`ContentAssumption`).

Some theorems have a hypothesis of their own. For each a configuration of section 4 shows that the property fails without it
(of the four of `ConfigSync`, `LatchedDiffers`):

* `Undisturbed` (`EventLog`): no cell is torn, and the interrupt comes between writes only –
  `MCEventLogTorn.cfg`, `MCEventLogInterrupt.cfg`. Failed commands and power failures between two commands stay.
* `EarlyRestarts` (`EventLog`): the power fails only while no more was posted than the log holds – `MCEventLogWrap.cfg`.
  After that any number of posts, failed commands and interrupts between writes may follow.
* `Cardinality(Zones) <= MaxSlots` (`Fire`, for `StoppedZoneIsQuiet` only) – `MCFireFull.cfg`.
* `SettledStarts` (`ConfigSync`, for all theorems but the types): when an operation begins, no frame of an earlier one is
  under way – `MCConfigSyncStale.cfg`. Within an operation requests are repeated while they or their answers are still
  under way, any number of them, late answers meet the next request, frames are lost, MCUs are missing or restarted and the host
  edits the image. If no answer comes after its timeout (`LateAnswers = FALSE`), the hypothesis holds of
  every behaviour (`InTimeIsSettled`) and nothing is left to assume (`InTimeAlways`). The code waits at no place for the bus to be
  quiet; the periodic task begins its operations seconds apart, the menu and the host when they are asked.

**Fire.** The consistency of a slot (`phase2_sent = extinguish_locked`, an aborted zone is stopped, ...) is
inductive only together with the second conjunct of `Consistent`: a zone without a place has the zero
slot, since a place given to a zone does not clear its slot. That the state is IDLE exactly while the
table is empty is not kept by the single operators of a handler, only by the whole, and needs the other
two parts. That no zone has two places rests on the ranks by which `EnsureSlots` gives free places to zones
without one: two free places have different ranks (`RanksDiffer`), so they get different zones. The proof follows the calls of the code: one lemma for each operator
says that it keeps `Good` (typing, `Consistent` and `Distinct`) and what it does to the table (`OnSlots`: the table
stays; `Aside`: slots and state as well); one lemma for each action composes them; the agreement of the state
is restored at the end by `SyncStateFromSlots` (`SyncOK`, `SettleOK`) or, in the handlers that set the state
directly, from what they do to the table.

The STARTs take a second walk along the same chains. `Sound` adds to the invariant that a stopped slot has no
retries left to give (`Halted`) and that, with a place for every zone, each zone with a START in the pool has a slot that is not
stopped (`Hushed`); the pigeonhole for it is in `EnsureFits`, by the ranks of the free places. What a handler launches is
composed from three relations between the record before and behind an operator: `Calm` (nothing is launched), `Led` (a launched
zone gets a START only as a retry or because its launch was aborted) and `Bound` (and in the second case a START was asked for).
For the countdowns the relations are `Frozen` (what is pending behind an operator was pending before it, with the
same time left), `Same` and `Marked` (a START from the bus only launches slots or gives new ones); the operators that set deadlines
are treated one by one.

**EventLog.** The invariant adds to the typing a description of a ring that fills (`Filling`): the cells in use are a
prefix of the tier, cells behind the prefix are empty, the indices in RAM name its end at every step of
the writer, and every acknowledged record is in the prefix. A restart keeps it because the scan of a prefix
finds its end, whichever command was cut. Until the tier is full no
erase touches a cell in use.

Once it is full the tier is a ring: `Log(f, t, e)` says that there are `e` free cells from the write index on and that the
records behind them go up (`Placed`, `Blank`, `Ordered`). Every step is one of three moves of the log as a reader sees it:
`Stays`, `Erases` and `Adds`, and these are a stutter, `Reclaim` and `Add` of `RecentLog`. `Writing` says what the
writer relies on between two commands: nothing but the end of the interrupted write has moved the index, and
its record is newer than all in the flash. A loss of power before the first wrap finds the prefix again
(`ScanPrefix`); a record that was programmed and not yet counted is counted then, which is an `Adds`. `RecentRecordsKept`
follows by counting: a record that is lost is older than all that are left, and at most a sector is free. What a reader gets
(`RecordsOf`) is recursive in the length of the log; the lemmas about it are inductions over that length by
`SetInduction`, the least element of a set of naturals.

**ConfigSync.** The types hold only with where the operation stands: it rests, has begun, or is at a target with a request
out (`Stage`), and then the step, its command, the operation and the word asked for belong together (`AtStep`). An answer is
taken for the request it matches by slot, zone and command alone, so the handler it reaches may be one whose
request it never answered; `AtStep` is what makes each of them find a word within the configuration and an operation it knows.
That no slot of a running operation is a cleared one, and that zone 0 never gets into an MCU by a word of the image, is `Listed`.
The failures are counted against the targets passed (`s.failed < s.pos`). The targets are a sequence in the order
of the slots (`InOrder`), which exists for any set of slots by `SetInduction`.

What a success says rests on `Timely`. Repeated requests and their answers are still under way when the operation goes
on, so that the wire holds frames of earlier requests in front of those of the one that waits (`Trail`, `Current`). An answer
to the waiting request says what the MCU still is (`Answers`). Any other answer is not taken for it (`Stale`): it
has another slot or command, or is of another word of the same MCU, where the handler
compares the index. An earlier request does no harm where the operation stands (`Harmless`): a late word arrives
before the Save that is to save it, and a late Save saves once more what is saved. Each new request turns the frames
of the last one into earlier ones (`Turned`); some facts hold of a frame whenever it comes (`Plain`). An MCU
listens where it has saved (`Housed`), the size the panel reckons with is that of
the MCU (`Sized`), the checksum it compares with that of the image (`Compared`), and no MCU is a target twice (`Targeted`), so that
frames for one target are not taken for another. `Tracked` follows an operation that has not failed through
its targets: those behind are as the operation is to leave them (`Reached`), those ahead as it has to find them (`Untouched`), and the
one at work is where the step says (`InWork`): in reading, the words so far are those of the MCU, which has
saved them; from writing to the readback, the image has the blocking of the zone, or a change of the zones waits (`Told`).
An operation that has failed promises nothing, and what it leaves on the wire is what `SettledStarts` keeps from the
next one. That answers in time leave nothing is the simpler invariant `OneFrame`: at most one frame is under way, the
request that waits or its answer.
An answer is then one of three things (`Outcome`): a failure, after which nothing is promised; the next target, with this one
reached; or another request to it. Each handler is shown to be one of them, and `AfterAnswer` takes it from there. A
checksum that matches is the point: it says of an MCU that was restarted or lost frames that it has saved what the image
has, so that `Reached` needs no memory of the words that were sent. A change of the modes during the operation is
covered by `pending`, an edit by the host by the history `unsure`; a restart changes nothing where what
is worked with is saved.

**ConfigStore.** That a completed save is in the flash has to be carried through a save under way, from any
mixture earlier saves may have left. `CopyIsFlash` says that a copy the panel knows (`known`) is what the flash
holds, mixture or not; while the image is being read it holds of the parts read so far (`ReadSoFar`). `Progress` then says where a
save stands that began with a valid header and a known copy and has not failed: the
sectors behind hold the new content (`Behind`), the one at work is as the next operation needs it
(`AtErase`, `AtHeader`, `AtWrite`), those ahead hold the old content or, when everything was erased at once,
nothing (`Ahead`). With `Dirty` fixed during the save, a clean sector passed over is right because its old content is the
new one; at the end all are behind (`AtEnd`), and only therefore the copy is right when the header cannot be read back and
`PPKYConfig` is taken for what was written. `Withdrawn` says that nothing is promised while a save is
under way, so that a failure or a loss of power breaks no promise. `LoadedBlind` keeps apart the start whose header was not read.

**CanRx.** The typing is inductive: an index remembered over a preemption is a valid index, though perhaps
an old one. The order rests on `Uncrowded`: as long as the ring never was full, the two indices and the interrupts agree on which
entries are live (`Indices`), copies not yet in the ring are in the order of their bus (`Outside`), every copy to come is of a frame
that was sent (`Genuine`), the live entries come in the order `Precedes` (`Ordered`), a copy of a parsed frame that is still to come is one the
filter knows (`Filtered`), and what has been parsed goes up (`Sorted`). `Precedes` orders the copies of one bus and, until a bus
overtakes the other by a frame (`missed.apart`), those of both together. For the completeness `Progress(m)` adds where each bus
stands, with `m[b]` the number of its last copy that was handled: the table holds that frame (`Known`), every later copy of
the bus is still to come (`Coming`), what is to come is behind all that was handled (`Later`), and every frame up to there that differs from the one
before it has been parsed (`Done`). Both claim nothing once the ring was full, and the second nothing after a lost copy, a meeting of
pushes or an overtaking, as the properties do.

**LogDump.** Apart from the typing and from `NeverRunsBack`, the proofs speak of one thing, the stream as the host will have it: `Flow` is what it has heard
and the frames between the dump and the host (`InFlight`): the one being sent, the one the main loop has in its
buffer, and the ring (`Queued`). `Transport` says that while the host waits the code knows what the UART sends, except
between the transmission and the flag behind it (`Unmarked`),
that the ring has room for what the interrupt may still pump, that all frames under way are of the stream the host waits
for, and that the main loop has not been overtaken in a hand-over (`Handing`); an error of the receiver taken for the end of a frame of
the bridge is a case of its own (`Astray`). A step then
does one of few things to `Flow` and `session`: it begins a stream, leaves it, leaves both as they are, adds a whole
packet, or is a step of the main loop inside of a packet (`NewStream`, `OffStream`, `SameStream`, `WholeStep`, `BeginStep`,
`ReadStep`, `StoreStep`, `CompleteStep`, `FailStep`); the steps of `log_transport_try_tx_uart2` are `SameStream`. Each property is proved over these
classes: `NumberedFlow` counts the frames;
`OrderedFlow` says that `Flow` is in order and open at the next record of the session, where a record read once bounds from
below what the next index can give however the log moves on (`Known`); `PromisedFlow` says that the
labels brought and those still to read (`Unread`) are together as many as the answer promised.

`NeverRunsBack` is about the streams that have lost frames, of which `Flow` says nothing. `Course` says that what the host has and what is
under way to it is in order, whichever frames are missing; `Behind` and `InTier`, that whatever the session
adds is later than all of them. What the transport does with frames never adds one with records: it passes them on or drops
them, so that a step leaves what was under way before it with some frames missing (`Thins`), and the order survives that
(`CourseThins`). Only the session adds such frames, at the end (`CourseSent`, `CoursePacket`). A later stream
has a greater number than all under way (`Issued`), so that no frame of an earlier one is taken for its own. As the property, the
invariant leaves out a stream whose packets the interrupt and the main loop built, or handed to the UART, at the same time (`host.mixed`, `SendIsMixed`).

**FireRetry.** The invariant is `TypeOK /\ OneItemPerCommand /\ StoppedIsOff /\ GeneralStopIsRetried`. `StoppedIsOff` says of an igniter
the panel has stopped that no START of it waits in the pool and every START on the wire has a STOP behind it (none is in `Loose`), so that
no frame that comes later leaves it burning. Unless an earlier STOP or its acknowledgement was under way (`late`), no START is
behind a STOP on the wire at all (`InTime`), and one that has acknowledged is off with no START to come: that part is
what `AcknowledgedStopPrevails` needs. That there is always an item for a STOP to all, and none is evicted, is a pigeonhole: items of one kind are of different
igniters, and the others have been dropped or replaced (`RoomForOneKind`); a reset empties the pool and promises nothing. The
commands for the igniters go into the pool one after the other (`QueueAll`, recursive in the number done); `QueueAllSteps` carries the facts
through by `SetInduction`, for any sequence of commands, so that the caps of the collectors need no case of their own.

For `StartRetries` the state is seen through `StartsOf`: the zones with a START in the pool, those with a START on the wire
that no STOP of the igniter follows, and the
zones all igniters of which were stopped (`Halted`). Each order of the panel, resend, settled item and delivered frame is
shown to be one step or none (`StartZoneStarts`, `StopStarts`, `ResendStarts`, `SettleStarts`, `ArriveStarts`); a zone without igniters, a
full pool and an item that is not the last of its zone are the cases where it is none or a smaller one.
`HaltedIsQuiet` is inductive in `StartRetries` itself, so that what it promises is enough for a stop to be a stop.

**Induction.** The induction theorems of the library take an operator as a parameter, which the installed provers
cannot instantiate. Where a definition is recursive in a length the proofs take the least number without the property,
stated as a set; this serves for one formula at a time and is used where no other way was found.

**Only model-checked:**

* the liveness properties `LaunchEventually`, `RetriesEnd`, `BusyEnds`, `IgnitersFollow`, `DumpEnds` and
  `GeneralStopIsCarriedOut` (fairness and ENABLED are beyond the prover);
* `AppliedIsStored`, `BlockingIsStored`, `ImageIsRead` and `LatchedDiffers` of `ConfigSync` when an operation begins
  while frames of an earlier one are under way: within the bounds of `config_sync` they hold, far beyond them `LatchedDiffers`
  fails (section 4);
* `StoppedZoneIsQuiet` with more zones than places, `EventLog` with torn commands, with interrupts inside a write and with
  restarts after the wrap: there the properties fail (section 4), as do those of section 4 that have no exceptions.

## 6. What is not modelled

* The components marked `not_modelled` in `PROJECT.json`; presentation and register access will stay so.
* *Fire:* the wrap of the 32-bit tick (a countdown is the time left, hazard at `fire.c:2095`). Message identifiers and
  the 64 places of the retry pool are the matter of `FireRetry`; in `Fire` a START leaves the pool at any time.
* *FireRetry:* which igniters are online, and which of them the collectors meet first, is left open at every command; the
  identifiers of the messages (an acknowledgement is matched by kind and igniter, as the code does). The bus delivers in order or loses. The
  retries stand still during a configuration session (`fire.c:3377`),
  of which the fairness says nothing when one stays open.
* *EventLog:* errors while the scan reads, the filter for debug records, the contents of a record.
* *LogDump:* what exactly the bytes are when the interrupt moves the ring between the look and the copy (`CopyCrossed` allows
  more than the code does: a frame picked from the ring stands for any old one, `Torn` for a mixture). A frame is taken to be
  longer on the line than the rest of a hand-over of the main loop (`TxComplete` waits for it; some instructions against milliseconds). What
  the main loop does in `log_transport_send_cb` at the end of a packet, and `EspOff`, are one step each. UART4, whose receive interrupt nothing enables; the first ten seconds after a start, in which
  the main loop does not call `LogTransport_Process` (`warning_process_delay`); the bytes of a frame, its escaping and its checksum.
* *CanRx and the bridge:* the transmit rings of CAN, the recovery from bus-off, the watchdog; more than one
  entry of the duplicate tables (they do not share anything).
* *ConfigStore:* the contents of a sector, the migration of `zone_fire_mode`; a power failure in the middle of a flash
  command (between two commands it is modelled). A failing read of the image is repeated for ever by the code and may
  be in the model; nothing is claimed of its end. What a header that could not be read looks like is left open each time.
* *ConfigSync:* words other than the zone and the block, the checksum function (two configurations
  never share one), the reassignment of slots by a read of all MCUs (hazard at `config_monitor.cpp:65`), missing
  and found devices with their debouncing.
* *Power control* (four states and one retry), *warnings* (a table of sixteen faults with their delays) and the restart of
  the ESP: small state machines driven by inputs of their own, last in the plan.

## 7. Plan

In this order; the first seven are done.

1. `Fire`, `FireProofs` – the reason the panel exists.
2. `RecentLog`, `EventLog`, `EventLogProofs` – the only persistent state written all the time, with an
   abstract specification worth stating.
3. `ConfigSync`, `ConfigSyncProofs` – the longest protocol with other nodes.
4. `LogDump`, `LogDumpProofs`, `LogDumpRecordProofs` – a dump pumped from the interrupt and the main loop over a moving log.
5. `CanRx`, `CanRxProofs` – the receive ring and the duplicate filter.
6. `StartRetries`, `FireRetry`, `FireRetryProofs` – the retry pool on a bus that loses frames.
7. `ConfigStore`, `ConfigStoreProofs` – rewriting sector by sector with power failures.
8. Missing and found devices with assigned slots (`config_monitor.cpp`), device discovery (`app.cpp`),
   `PowerControl` with wrapped ticks, warnings (`warning.cpp`).

A theorem to come: that every handler of `Fire` is a sequence of steps of `StartRetries`.

## 8. Running it

    tlc -workers 2 -config MCFire1.cfg MCFire          # a run of PROJECT.json
    tlapm FireProofs.tla                               # about five minutes from nothing
    tlapm EventLogProofs.tla
    tlapm ConfigSyncProofs.tla                         # about five minutes
    tlapm ConfigStoreProofs.tla
    tlapm CanRxProofs.tla
    tlapm FireRetryProofs.tla
    tlapm LogDumpProofs.tla
    tlapm LogDumpRecordProofs.tla                      # about three minutes

The largest runs are `log_dump` (3.8 million distinct states, about two minutes with two workers), `can_rx` (2.5 million), `config_sync`
(2.2 million), `fire_retry` (0.7 million, with liveness) and `log_dump_live` (0.2 million, the slowest for its size: about a minute).
