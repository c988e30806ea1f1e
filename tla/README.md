# A verification project for URUS

URUS is an autopilot: the ArduPilot libraries and vehicles, and a port of its
own, `AP_HAL_URUS`, to small and hosted cores (AVR, Cygwin, Android). This
directory holds TLA+ modules for the parts whose correctness rests on
interleavings, interrupts, power failures, lossy links and long sequences of
calls, the TLC configurations that check them on small instances, and TLAPS
proofs for every size.

## 1. Inventory

| component | state | operations | talks to | hard because |
|---|---|---|---|---|
| `AP_FlashStorage` | two flash sectors (header and log), `mem_buffer`, `current_sector`, `write_offset`, `reserved_space`, `write_error` | `init`, `write`, `switch_sectors`, `switch_full_sector`, `write_all`, `load_sector`, `erase_sector`, `erase_all`, `re_initialise` | callbacks of the storage driver to read, program and erase | power fails between any two flash operations; `write` is recursive; the write callback re-enters the library |
| Storage driver (`AP_HAL_ChibiOS/Storage`) | `_buffer`, `_dirty_mask`, `_initialised` | `read_block`, `write_block` (main thread), `_timer_tick` (storage thread) | `AP_FlashStorage` or `AP_RAMTRON`; `Bitmask` | two threads share the image and the mask without a lock |
| `ByteBuffer` (`AP_HAL/utility/RingBuffer`) | `buf`, `head`, `tail` | `write`, `reserve`/`commit`, `read`, `peekiovec`, `advance`, `read_byte`, `update`, `clear` | serial ports, logging | a writer and a reader without a lock |
| URUS scheduler (AVR, Cygwin) | `_timer_suspended`, `_timer_event_missed`, `_in_timer_proc`, `_timer_proc[]`, `_num_timer_procs` | `register_timer_process`, `suspend_timer_procs`, `resume_timer_procs`, `_run_timer_procs`, `_run_io_procs` | drivers (callbacks), the vehicle's failsafe | nested interrupts on the AVR, a thread on Cygwin, no lock |
| URUS serial port (AVR) | two rings, the data-ready interrupt, `_open`, `_nonblocking_writes` | `begin`, `end`, `read`, `flush`, `write`, the RX and TX handlers | the USART, GCS and GPS | interrupt handlers share the rings with the main loop |
| URUS semaphores | `_taken` | `take`, `give`, `take_nonblocking` | drivers | the cores disagree about a timeout of 0 |
| `ObjectBuffer`, `ObjectArray` | a `ByteBuffer`, or an array, of objects | `push`, `pop`, `push_force` | sensors, UAVCAN | `push_force` moves the reader's index |
| `AP_Scheduler` | `_last_run[]`, `_tick_counter` | `tick`, `run`, `time_available_usec` | the vehicle's task table | 16-bit ticks, starvation |
| `AP_Param` | the list of saved parameters: magic, entries, sentinel | `setup`, `scan`, `load`, `load_all`, `save`, `erase_all` | `StorageManager`; the vehicle's `load_parameters` | every entry is several writes, and power fails between any two |
| `StorageManager` | none; the areas of each owner are fixed by the board | `read_block`, `write_block` across areas | the HAL's storage | blocks that cross from one area into the next |
| `AP_Mission` | `_flags`, `_nav_cmd`, `_do_cmd`, `_jump_tracking`, the stored list | `start`, `stop`, `resume`, `reset`, `clear`, `update`, `set_current_cmd`, `get_next_nav_cmd`, the edits of the list | the list in storage, `_cmd_start_fn` and `_cmd_verify_fn` of the vehicle, the ground station's edits | jumps make the searches loop; the list is edited while commands are cached |
| GCS mission protocol (`GCS_MAVLINK`) | `waypoint_*` members, the deferred request | handlers of COUNT, WRITE_PARTIAL_LIST, ITEM, REQUEST, REQUEST_LIST, CLEAR_ALL; retry and timeout in `update` | `AP_Mission`, the ground station over a link | lost, late and repeated messages |
| `AP_SmartRTL`, `AP_Terrain`, `DataFlash_File` | paths, grid cache, write buffer | IO-thread work against the main thread | the HAL's IO thread, files | two threads |
| vehicles, EKF, controllers, sensors, other HALs, tools | | | | floating point, device registers, third-party kernels |

Interaction of the modelled parts: the vehicle's code writes blocks into the
image of the storage driver; the storage thread saves one dirty line a tick
through `AP_FlashStorage::write`, which calls the driver back to program and
erase flash and to ask whether erasing is allowed. Serial drivers hand bytes from
thread to thread, or from interrupt to thread, through rings. Timer callbacks of
drivers run in interrupt context (AVR) or on a thread (Cygwin), guarded by the
flags of the scheduler. A ground station uploads a mission message by message into
the list that `AP_Mission` steps through; parameters are saved into their areas of
the same storage.

What makes each part correct: a save that was acknowledged survives power
failures, and one that was interrupted leaves old or new bytes (flash); a line
that differs from the backend will be saved (driver); bytes come out once, in
order, as they went in (rings); drivers are not entered twice or while suspended,
and the failsafe is called whatever hangs (scheduler); waypoints are flown in
order, jumps are taken as often as they say, and every call returns (mission); a
list that was acknowledged is the list that was sent (upload); after any power
failure the parameters are the saved ones (parameters).

## 2. Modules

| module | models | proofs |
|---|---|---|
| `DurableStore` | the promise of a persistent store: abstract specification | |
| `FlashStorage` | `AP_FlashStorage.cpp`, its caller, arming and the power supply | `FlashStorageProofs` |
| `ByteFifo` | the promise of a ring: abstract specification | |
| `ByteBuffer` | `RingBuffer.cpp` | `ByteBufferProofs` |
| `StorageDriver` | `AP_HAL_ChibiOS/Storage.cpp`, with `Bitmask` and the backend | `StorageDriverProofs` |
| `UrusScheduler` | `CoreUrusScheduler_Avr.cpp`, `CoreUrusScheduler_Cygwin.cpp` | `UrusSchedulerProofs` |
| `UrusUart` | `CoreUrusUARTDriver_Avr.{cpp,h}` | `UrusUartProofs` |
| `MissionStore` | the command list in storage: the edits and reads `AP_Mission` offers (extended by the next two) | |
| `ApMission` | `AP_Mission.cpp`: stepping through the list | `ApMissionProofs` |
| `MissionUpload` | the mission protocol of `GCS_Common.cpp`, the ground station and the link | `MissionUploadProofs` |
| `ParamList` | `AP_Param.cpp` (the list in storage), `StorageManager.cpp`, the EEPROM of the AVR core, `load_parameters` | `ParamListProofs` |

`MC...` modules instantiate them for TLC.

**FlashStorage.** `flash` is, per sector, the state of the header and the blocks
of the log by offset; `obj` the C++ object with `mem_buffer`; `stack` the call
stack, since `write`, `switch_full_sector` and `write_all` call each other. One
action is one flash operation of the function on top of the stack, so a power
failure finds every intermediate state. A half-word program is atomic
(`stm32_flash_write`); data behind a `WRITING` header are not read by anybody and
are kept out of flash until the header says `VALID`. A block programmed over a
sector header (`write_offset` 0) destroys the signature and may or may not pass
the read-back check. With `ProgramFault` flash may refuse a block header, and the
callback may then call `re_initialise` from inside `write`. `may` is a history
variable: what `DurableStore` promises of each byte. `PowerFailAt` names the
moments at which power may fail; four pairs of sector headers have names of their
own because each is a loss of data of its own (section 4).

**StorageDriver.** Main-thread calls are atomic: that thread has the higher
priority and does not sleep in them. The storage thread is interrupted between
any two bytes it copies, around the flash write, and between the load and the
store of a mask word. `raced` is a history variable: the lines that were written
in one of the two windows in which an update of the mask is lost. `wrote` is what
the caller wrote since power-up. The backend keeps what it acknowledges, which is
what `FlashStorage` is checked for. Flash may refuse a line, or save the whole
image when it changes sectors. FRAM never refuses (its `take(0)` waits for the bus
for ever on this HAL) but may be left with half a line by a power failure.
`using_fram` is chosen at the start and then fixed, as the board fixes it.
`write_block` is not called before the first `read_block` (`AP_Param::setup` reads
the header first).

**ByteBuffer.** One action is one access to `head`, `tail` or a byte. `peekiovec`
reads `tail` twice. `set_size` is modelled with an unchanged size.

**UrusScheduler.** `core` is the core the program is built for, chosen once. `act`
is the stack of activations on the AVR (only the last one runs) and the pair of
threads on Cygwin (both run). A callback is entered and returns in two steps and
may never return. `_failsafe` is registered. `MaxNest`
bounds the nesting, so `FailsafeRuns` makes an exception for a hang at that depth.

**UrusUart.** Handlers are atomic (`ISR_BLOCK`), main-loop calls are not. Bytes
are numbered in the order they enter a ring, so loss, duplication and reordering
show. `LeaveRoom` says that callers of the buffered write ask for less than
`txspace()`.

**ApMission.** All calls come from the main loop, so a call is not interrupted; but
a call that searches the list takes one action for each command `get_next_cmd`
reads, so that a search that does not end is a behaviour and not a missing step.
`call` holds the locals of the search and the function it works for. Starting a
command may take the vehicle out of AUTO, which stops the mission from inside the
call. A command is its kind, its jump target and its repetitions; locations and
parameters are not told apart. `started` and `edited` are history variables.
`jump_index`, `max_loops` and the limit on "do" commands are constants, so that the
limits are reached on short lists.

**MissionUpload.** One action is one message handler or the part of `update()`
behind the parser. The clock counts ticks since the last item and the last request,
up to the first tick that is too late. The link keeps the order, loses messages up
to `MaxLoss` of them and all that find it full; with `slow` a message may outlast
the retry timer, so that requests are answered twice. A message for which the
serial port has no room is deferred and sent with the state at that later time.
The ground station is external: it uploads whole or partial lists, announces a list
again, clears, and downloads in between.

**ParamList.** A call fixes the bytes it writes, in the order the code writes them,
and one action writes one byte, so power fails between any two. Headers are
bit fields, decoded as the code decodes them, but narrower: a half-written header
mixes the fields of the sentinel with those of the new entry, as in the code.
`Version` holds the formats of the firmwares that may be installed; `may` is the
history of the values a parameter may have after a power failure.

## 3. Runs

Passing:

| run | question | bounds |
|---|---|---|
| `powerfail` | do acknowledged saves survive power failures between any two flash operations, is the log readable and inside its sector | 2 bytes, sectors of 8, 2 values: a sector holds three blocks, so sectors fill, switch and are rewritten within a few saves; boots and failures are unbounded |
| `reserve` | is the reserve enough for the rewrite at boot; does the recursion end; do boot and `write` return | as above, whole-image saves, power fails while idle |
| `faults` | the same durability when flash refuses block headers and the store is re-initialised from inside `write` | 1 byte |
| `ring` | is the ring a FIFO, with vectors that never overlap | 4 cells, so 3 bytes at most, all request lengths |
| `driver` | which updates of the mask may be lost; what reads return; are dirty lines saved, over flash and over FRAM | 3 lines of 2 bytes, 2 lines to a mask word (two words), 2 changes between power-ups: one to start a save, one to race it |
| `sched` | AVR: are the flags of `_run_timer_procs` as good as a lock; is the failsafe called although a driver or the main loop hangs. Both cores: is a driver registered before it can be called | 2 slots, 3 drivers (one does not fit), 5 activations: the main loop and 4 nested interrupts |
| `uart` | order and completeness of both rings; progress of the transmitter and of blocking writes | rings of 4, 5 bytes each way: both wrap |
| `mission` | are jumps counted right, is no waypoint skipped, is what is started what is stored; do searches end, and the mission | every list of up to 3 commands behind home (waypoint, "do", jumps to the first two commands, once or for ever), 2 jump slots for 3 possible jumps, 3 jumps to a search, 3 calls besides `update()`: enough to stop, edit and resume |
| `upload` | is an accepted list the stored one; do its jumps resolve; does receiving end; are losses made up for | 3 commands in storage, 5 lists (one too long, one unsupported, one with a jump outside), 2 messages in flight each way, 1 loss, 2 unasked operations: an upload, and another or a repeated announcement |
| `param` | after a power failure between any two bytes: does the boot keep the list, are the loaded values the saved ones, does the list end, are other areas untouched | 2 parameters and the format version in 18 bytes of two areas (so entries cross the gap and the list fills up), 2 firmware formats; boots and failures are unbounded |

`powerfail` switches deadlock checking off: the system stops in `panic` or, with
the excluded header pairs, has no power failure to take. `mission` does too: when
the bounded calls are used up and the mission has ended, nothing has to happen.
Type correctness is a run's invariant where it is not a theorem, or where it says
that an index stays in bounds. Every property of a
passing run has a mutant in PROJECT.json, a plausible slip in the code that
breaks it.

Fairness: the storage thread runs every 10 ms (`_storage_thread`), so its steps
are weakly fair; a write to the backend is strongly fair for `Drained`: that flash
does not refuse a line for ever is an assumption about the chip. On the AVR the timer and an enabled data-ready
interrupt are served and the processor runs; driver callbacks get no fairness.
For the mission, a call that was entered goes on (weak fairness of the search and
of the rest of `update`), and `update` with a completed navigation command is
strongly fair: the vehicle reaches each waypoint in the end. For uploads, the main
loop handles messages, the clock runs and the ground station reads its link;
starting an upload and losing a message get no fairness.

## 4. Disagreements between the code and what it says

Two are runs whose expected result is a violation, each with a finding in
PROJECT.json that quotes the line:

- `driver_race`: a line can stay unsaved. `OnlyRacesLose` says when: the theorem
  shows there is no third window.
- `mission_hang`: `set_current_cmd()` on a "do" command that an endless jump leads
  back to never returns, while `advance_current_nav_cmd()` has a bound for just
  that.

The models show more, kept as hazards in PROJECT.json with the constant that brings
them out:

- four header pairs at which a power failure loses saved data: add `"marked_full"`,
  `"lone_sector_1"`, `"erased"` or `"formatted"` to `PowerFailAt` of `powerfail`. For
  the instance of `powerfail`, which leaves out exactly these, there is no fifth;
- boots that are cut short use up the reserve, and the recursion of `write` goes
  deeper than `StackLimit` (`RewriteFits` with `PowerFailAt = {"idle", "step"}`);
- a sector can be erased while armed, and outside `init()`;
- on Cygwin a thread runs what was written for an interrupt: `OneCallsDrivers`,
  `SuspendedIsQuiet` and `FailsafeRuns` hold on the AVR only;
- `txspace()` of the serial port is one too large, and a write that fills the ring
  empties it (`LeaveRoom = FALSE` in `uart`);
- when the announcement of a second upload is lost while the first is still
  requested, the vehicle stores a mixture and acknowledges it (`Patient = FALSE` in
  `upload`).

Read off the code while modelling it:

- the comment on `AP_Mission::clear` says it "returns true if mission was running so
  it could not be cleared"; it returns false;
- `resume()` reads the navigation command again "to ensure cache coherence", but
  starts the cached "do" command; the command read again may be a "do" command or a
  jump by now;
- a running mission truncated to nothing stays RUNNING;
- a "do" command behind a jump that has just been used up starts one pass early,
  beside the waypoint the jump leads back to;
- after an item is rejected the channel goes on receiving until the timeout; an
  upload of zero commands is never acknowledged;
- `find_by_header()` ignores the group element of a top-level parameter and `scan()`
  does not, so an entry whose header was cut short is loaded but not found.

## 5. Proofs

Checked by TLAPS for every value of the constants, from the ASSUMEs of the
component modules only.

`ByteBufferProofs`: type correctness, `WriterStaysOff`, `ReaderStaysIn`,
`AgreementKept`, and that `ByteBuffer` implements `ByteFifo`. The inductive
invariant `RingInv` adds to the types that what the writer reserved still fits
(the reader only adds space) with its copied bytes in place, and that what the
reader was promised is still available (the writer only adds bytes) with its
copied bytes equal to the front of the queue. The step from one index to a
sequence is in the lemmas on `Contents`: `commit` appends, `advance` drops.

`StorageDriverProofs`: type correctness, `OnlyRacesLose` and `ReadsLastWrite`. The inductive
invariant `DriverInv` adds that a busy thread has an open image and its line is
dirty (`BusyInv`), that what it has copied equals the image unless the line was
raced (`CopyInv`), and that the line it wrote is saved and the mask word it holds
lacks raced lines only (`ClearInv`). The arithmetic lemmas say that lines do not
overlap and that `_mark_dirty` covers the block. For `ReadsLastWrite` it is enough
to add that nothing has been written to an image that is not open (`ReadInv`).

`UrusSchedulerProofs`: type correctness, `FlagIsTrue`, `OneCallsDrivers`,
`SuspendedIsQuiet`, `MissedIsMadeUp` and `CallsRegistered`, for every set of drivers,
table size and depth of nesting. `SchedInv` says that slots below the count are
filled and a loop that has found a driver is below the count (`TableInv`); on the
AVR, that the flag is set exactly when one activation is inside, and that nobody
below an activation about to enter is inside (`LockInv`: the stack discipline of
interrupts is what makes the test and set safe without a lock); and that suspension
changes only when the main loop is alone on the stack (`SuspendInv`).

`ApMissionProofs`: type correctness, `LoadedHasIndex`, `StartsStored`,
`OneSlotPerJump` and `JumpsWithinBudget`, for every set of commands, size of the
storage, number of slots and limit of the searches. `MissionInv` adds that while a
search for a navigation command is on none is loaded, and that neither the search
nor the current command is at home (`SearchInv`): without it the end of a search
could leave a loaded command without an index, and `resume()` could read home past
the end of an empty list. The budget rests on the slots being distinct, so that the
slot `get_jump_times_run` finds is the one that is counted.

`UrusUartProofs`: type correctness, `RxInOrder`, `TxInOrder` and that the `memcpy`
of `write(buffer, size)` stays inside the ring, for every ring size and number of
bytes. The receive side needs only that head and tail are moved by one side each.
For the send side the invariant follows a call through its steps while the interrupt
handler takes bytes: what was measured still fits (`Measured`, the handler only
frees), the parts of a write that wraps meet at the end of the ring (`CallInv`), and
in front of the step that moves the head the copied bytes are in place (`Copied`).
`TxInOrder` is proved where callers leave a byte of room (`LeaveRoom`); without it a
write of exactly `txspace()` bytes makes a full ring look empty (the disagreement in
section 4). The other three need no such assumption.

`MissionUploadProofs`: type correctness for every ground station, and
`AcceptedIsStored` and `AcceptedJumpsResolve` for one that lets an upload end before it
starts the next (`Patient`, the protocol's rule), for every list, timeout,
number of messages in flight, losses and repetitions. `UploadInv` says of the messages
in flight that they belong to the last upload and that an acceptance is only on its
way when that upload is done (`Sent`, `Told`: the links are sequences over these
sets, so that loss, duplication and delay change nothing), and of the vehicle that all
commands before the one it requests are stored and their jumps checked (`Progress`).

`FlashStorageProofs`, for every size of storage, block and sector:

- `TypeOK` and `InBounds`, however power fails, flash refuses and the recursion of
  `write`, `switch_full_sector` and `write_all` nests. `TypeInv` gives the stack its
  shape (each frame waits for the one above it, `Awaits`) and says that in front of
  the three steps of a block there is room for the largest block and the reserve
  (`RoomInv`). The rest is arithmetic: a block is never longer than `MaxWrite` and
  never crosses the end of the storage.
- `LogIsReadable`, where power does not fail in the two pairs of headers from
  which the next `init()` goes on in a sector it has not read (`LogSafe`; section 4 shows
  what happens there). `LogInv` has one part per phase. At work, the log
  of the current sector is a chain of blocks that ends at `write_offset`, or behind the
  block being written (`Open`). In `init()`, a sector that has been read ends where
  `load_sector` came to, and the one in use is read last (`LoadInv`). A rewrite in
  `init()` that runs out of room neither switches nor erases nor succeeds: it can only
  overrun its stack (`Stuck`).
- `RewriteFits`, where power fails only while the caller is idle, flash refuses nothing
  and five calls fit on the stack (`Calm`). Then the recursion comes to one round
  (`Shape`), and a store whose other sector is full has room in the current one for a
  rewrite of all that is left of the storage (`RestFits`). The reserve is a member of
  the object and is lost with the power; that it outlives a failure is the property
  `Reserved` of flash itself: every block of a sector in use beside a full one
  ends `ReserveSize` in front of the end.

`ParamListProofs`: type correctness, `OthersUntouched`, `ListEnds`, `BootKeeps` and
`LoadsSaved`, for every layout of the areas, every table of parameters, every set of
firmware versions and a power failure between any two bytes. What the properties
say about a walk over the list follows from what the bytes are, so the invariant
describes the bytes:

- storage holds a list whose entries do not overlap, with the format version first,
  no entry taken for a parameter behind the entry of that parameter and an open end
  (`Listed`), or what `erase_all()` makes of the first header (`Formed`);
- while `save()` adds an entry, the bytes written so far are a prefix of the new
  sentinel, the value and the header, in the order of the code, and the old end is
  still read as the end until the header can be seen (`Added`, `Visible`), which a
  header without its last byte may be; while it overwrites one, the list keeps its
  shape (`Overwritten`);
- how far the magic byte and the first sentinel of `erase_all()` are written
  (`ClearInv`), that the magic byte is there once `setup()` is through (`MagicInv`), and
  that the save of the version finds an empty list (`VersionInv`);
- what each parameter loads is among the values it may have (`LoadsInv`), and a boot
  keeps a list that nobody has asked to erase (`KeepsInv`).

`TableAssumption` says of the table what `check_var_info()` checks at start-up, and one
thing it does not: no member of a group has an element number that a header cut in
front of its last byte shows (252 to 255 in the code: index 3 of a subgroup at index 60
to 63). No table of a vehicle has such a member; were there one, a cut save of
another member with its key would be loaded as its value. `SizeAssumption` is that the
version and a sentinel fit, which the smallest layout of `StorageManager` exceeds by far.

Only model-checked: liveness under fairness (`Drained`, `FailsafeRuns`, `TxDrains`,
`CallReturns`, `MissionEnds`, `ReceivingEnds`, `LossesAreMadeUp`, `CallsReturn`),
which is out of the prover's reach; and the refinement of `DurableStore` by
`FlashStorage`, which needs what replaying a whole log gives.

## 6. Not modelled

- Flash that fails other than by refusing a block header; a refusal inside the rewrite
  of `init()`, which then erases everything; an erase cut short (it is one step);
  worn cells.
- `re_initialise` more than once in one `write` (the code waits five seconds).
- `set_size` of a ring to another size; `ObjectBuffer`.
- Nested `suspend_timer_procs` (no caller nests them; an inner resume would end the
  outer suspension); `delay()`, the clock and `reboot()` of the schedulers; registration of IO
  callbacks (they run as one step).
- Serial baud rates and register values.
- Mission: conversion to and from MAVLink items, `jump_to_landing_sequence`, the
  record of previous commands, the content of commands.
- Upload: guided-mode items (`current` 2 and 3), a second channel, the other messages
  of GCS_MAVLink. Two channels that upload at once write the one list through two sets
  of `waypoint_*` members.
- Parameters: the table of variables (names, nested groups, conversion of old
  parameters, defaults files), vectors, the tolerance that skips a save of nearly the
  default; the 4-byte header of the list is its magic byte. The storage is written
  through: the list over the write-behind driver of ChibiOS, which saves lines out of
  order, is a hazard without a property.
- The components marked `not_modelled` in PROJECT.json, with the reasons there. Most
  of the repository's 464,000 lines are floating-point estimation and control,
  device drivers, vendored file systems and ports of other boards: TLC has nothing to
  say about them, and the modelled share of all lines stays small whatever is added.

## 7. Plan

1. Proof that `FlashStorage` implements `DurableStore`.
2. `UrusSemaphore`: AVR and Cygwin `take`/`give` against one abstract semaphore;
   16-bit tick counts, a timeout of 0, `in_main_thread`. Compose with
   `UrusScheduler`.
3. `ApScheduler`: `tick`, `run`, the 16-bit tick counter and starvation under a
   time budget.
4. `ObjectBuffer` over `ByteFifo`, with `push_force` by the writer.
5. `StorageDriver` over `FlashStorage`, and `ParamList` over `StorageDriver`
   (compositions).
6. `AP_Terrain` and `AP_SmartRTL`: the IO thread against the main thread.
