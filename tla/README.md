# A TLA+ model of pi86-rp2350

pi86-rp2350 runs native 8086 programs on a real Intel 8086 or NEC V30. A PC
("Host") manages the run over USB, an RP2350 microcontroller owns the memory,
the clock and the bus of the processor, and the processor executes. This
directory holds a TLA+ model of the parts of that system whose correctness
depends on the order of events, the TLC runs that check it and the proofs that
TLAPS checks.

## 1. Inventory

### Parts and how they interact

| Part | Source | Modules |
|---|---|---|
| Periodic tick of the executor | `firmware/runtime/workload_executor.c` | `TickPipeline` |
| FreeRTOS 8086 port | `processor/ports/freertos/8086` | `FreeRTOSTick` |
| Workload manager, executor life cycle, dispatch | `workload_manager.c`, `workload_executor.c`, `canonical_runtime.c`, `prepared_runtime.c` | `CanonicalRuntime` |
| Execution clock | `execution_clock_controller.c`, its PIO programs | `ExecutionClock` |
| Memory service and mailbox | `memory/*.c`, `host_service_dispatch.c`, `shared_mailbox.asm`, `mailbox.py` | `Mailbox` |
| Flash service | `flash_service.c`, `filesystem.py` | `FlashFiles`, `FlashListing` |
| Flash disk | `flash_disk.c` | `FlashDisk` |
| USB slot, reply endpoint, Host request layer | `spsc_record_slot.h`, `usb_transport.c`, `request_channel.py`, `service_client.py`, `workload_client.py` | `RequestChannel`, abstractly `Rpc` |
| Evidence over CDC | `evidence_queue.c`, `canonical_runtime.c`, `console.py`, `transport.py` | `CdcStream` |
| Runtime control | `cli.py`, `transport.py`, `canonical_runtime.c` | `RuntimeControl` |
| Packages and upload | `workload.py`, `workload_manager.c` | `WorkloadPackage` |
| Host session | `session.py`, `session_evidence.py`, `runtime_state.py` | `HostSession`, `SessionProbe` |
| Broker and ownership | `broker.py`, `device_ownership.py`, `session.py` | `DeviceOwner`, `BrokerSession` |
| Deployment command | `start_workload.py` | `Deploy` |
| Web and remote applications | `rp86_web_api.py`, `rp86_remote.py` | `WebOwner`, `WebGateway` |
| Line editor of the shell | `console.py`, `shell_commands.py` | `ShellInput` |
| FreeRTOS telemetry | `freertos_system/main.c`, `freertos_system.py`, `freertos_status.py` | `Telemetry` |

Five modules put these together for model checking: `Board`, `RemoteCalls`,
`LongCommands`, `HostShell` and `DeviceSharing` (section 2). `PROJECT.json` lists
every part with its status, and the parts that no module models.

The Host sends one 64-byte record at a time and waits for its reply. The main
loop of the firmware takes at most one record between two services of the
executor, and one service completes at most one physical bus cycle. The
processor raises bus cycles; the executor answers them from memory, from its
I/O ports, or with the interrupt vector of the tick. The firmware is single
threaded apart from the USB callbacks and the DMA interrupt. On the Host, the
first session owns the device and runs a broker thread; later sessions run the
same loop (`cli.py:244-274`) and send every record through that broker, so the
commands of several shells interleave record by record. The deployment command,
the telemetry tool and the Web applications are such clients too.

### What makes it hard

* The tick is a wall-clock source delivered through an interrupt handshake that
  spans several bus cycles of a processor which may be late, masked, restoring a
  task or about to halt.
* A 32-bit cycle counter serves as a deadline and its value 0 as "no deadline".
* Requests can time out on the Host after the firmware has executed them, and
  are then repeated or reordered.
* A workload has two life cycles, the manager's and the executor's, that are
  changed by different handlers, and a second kind of workload (the calculator
  of the prepared runtime) that runs without the executor.
* Power can fail between the unlink and the rename of a file replacement and
  between the erase and the program of a flash block.
* Several shells, a deployment and a browser share one device through a broker
  that serialises records, not commands.
* Text for people and signals for the session share one byte stream that is cut
  into arbitrary chunks, partly queued and partly written directly.

### What should hold

A tick is neither lost nor delivered early, and never interrupts the restore
that follows its own handler. The Host's view of a workload (its state, reason,
deadline and diagnostics) agrees with what the processor does. The processor has
one bus owner. An acknowledged STOP means a processor in RESET. A committed
image is the image that was sent. A request is executed at
most once, and what is reported to have succeeded did. A file is whole, and a
flash sector reads as it was written. There is one owner of the device and it can
be found. PASS, wherever the Host prints it, is about the workload, file or
request of that command. Each hazard in `PROJECT.json` names the line where such a
property is at risk and the properties that cover it, or why none does.

## 2. How the modules relate

* `FreeRTOSTick` extends `TickPipeline`: the processor runs the port or, chosen at
  the start, an arbitrary workload, for which the pipeline stays as it is.
* `Rpc` is the abstract specification of a remote call. `RequestChannel`
  implements it over USB records, and `Mailbox` implements it a second time, on
  top of memory requests that behave as `Rpc` allows (`Calls == INSTANCE Rpc WITH
  ...`, `ImplementsCalls`).
* `FlashFiles` and `FlashListing` sit on the file system; `FlashDisk` is the disk
  below it. FatFs lies between them: its directory is in `FlashListing`, its calls
  are steps of `FlashFiles`.
* `HostSession`, `Deploy` and `WebGateway` see the device through its replies;
  `CanonicalRuntime` shows that the life cycle they rely on is the firmware's.
  `DeviceOwner` shows what `BrokerSession`, `Deploy` and `WebOwner` assume of
  ownership; `CdcStream` shows when the line arrives that `HostSession` waits for.
* `FlashCommands` puts `FlashFiles` and `FlashListing` together: the commands on
  files.
* `MCCanonicalRuntime`, `MCLongCommands` and `MCHostShell` hold constants that a
  configuration cannot spell: sets of manifests, packages, sessions and inputs.
* The modules named `*_proofs` extend the module of a run, or a component of one,
  and hold its theorems (section 5).

Five modules compose the parts that belong to one subject:

| Composition | Extends | Instances |
|---|---|---|
| `Board`: what the board does below the services | `FlashDisk`, `ExecutionClock` | `CdcStream` twice, with two runs and with one run and two status requests; the queue overflows in both |
| `RemoteCalls`: something is done elsewhere and the caller learns of it | `Mailbox` | `RequestChannel`; `BrokerSession`; `RuntimeControl` |
| `LongCommands`: commands of many records | `FlashCommands`, `WorkloadPackage`, `Telemetry` | |
| `HostShell`: one Host session | `ShellInput` | `HostSession`; `SessionProbe` |
| `DeviceSharing`: programs that share the device | `DeviceOwner` | `Deploy`; `WebOwner`; `WebGateway` |

The parts of a composition share no variable. Each part models what it meets of
the others as an environment that may do anything they do (a lost record, a
client that interferes, an owner that dies), so nothing is gained by letting two
parts move in one behaviour, and the product of their state spaces would be out
of reach. The variable `part` is chosen in the initial state; that part moves and
the others stay as they began. A composition is therefore a family of checks, one
for each instance, and says nothing about joint behaviour beyond what the
environments contain. Where one part does rely on another, the reliance is an
abstract specification (`Rpc`) or is named in the module's header.

Definitions named `X_Y` are `X` with the fault `Y` planted in it; no
specification uses them. They document what each property would catch.

## 3. Modules

### TickPipeline

Models the tick half of `workload_executor.c`. The variables carry the names of
the fields of `rp86_workload_executor_t`; `not_before_us` and
`not_before_cycle` are the two delivery gates, `cycles` is the 32-bit counter of
completed bus cycles, taken modulo `Modulus`. `pc` splits
`rp86_workload_executor_service` where time may pass: `UpdatePeriodicTick` reads
the clock, then one of the bus cycle actions is what
`rp86_clock_stepped_service_cycle` meets. Each such action is the whole cycle,
the callback, the commit to the statistics and the failure path included:
`PlainCycle`, `NoCycle`, `TerminalHalt`, `BusFault`, `InterruptAck`, `EoiWrite`,
`IdlePrepare`. `Start`, `StartFails` and `StopBetweenServices` are the handlers
of the main loop. Four history variables record the unwrapped cycle count, the
cycles since the last fence, the start and the last EOI.

### FreeRTOSTick

Extends `TickPipeline` with a processor that runs the FreeRTOS port. `cpu` is the
code it executes and whether interrupts are enabled; its value "any" stands for a
workload other than the port, which may do whatever the pipeline allows. The interrupt sampling and the two INTA cycles are the behaviour of the
8086 and are marked external in the map.

### CanonicalRuntime

Models `workload_manager.c`, the life cycle half of `workload_executor.c` and
the dispatch of `canonical_runtime.c`. `ex` is the executor, `hw` the RESET pin,
the clock mode, `g_bus_active` and the availability of the prepared runtime; the
other variables are those of `rp86_workload_manager_t`, the configured timeout,
the boot id and the image in memory. There is one action per Host record that
changes state and one per outcome of a service. RUN and RESTART contain the
whole start, with every point at which it can fail. Data are abstracted: a DATA
record carries a chunk, a CRC stands for the chunks it was computed from (so it
has no collisions), an image is one to `RegionSize` chunks, and a deadline is
armed or not, and may be due at any service. A step in which the firmware only
replies is a stuttering step. History variables record whether the Host wrote to
the image since the last BEGIN, whether the executor was started since then, and
whether the last attempt was the prepared runtime's.

`rp86_workload_complete` can refuse a transition in the code;
`LifecycleAgreement` shows that it never does, so the refusal is not an action.
The same holds for the preconditions of `start_calculator_workload`, for the
reset handoff (at most 14 of its 16 bytes are used) and for the mailbox of the
SRAM backing.

### ExecutionClock

Models `execution_clock_controller.c` with both PIO programs. `tx` and `rx` are
the FIFO levels, `place` the program counter of the state machine, `doing` the
wait of the core, `routed` and `enabled` the pin and the state machine. The core
waits for tokens up to a deadline that may pass at any moment, while the state
machine goes on by itself; a failed step or switch contains the forced safe
state that its callers apply. `late` records that some deadline has passed.

### FlashDisk, FlashFiles, FlashListing

`FlashDisk` is `flash_disk.c`: sectors on a flash that is erased in blocks, one
cached block, flush on a change of block or on sync. Erase, program and verify
are separate steps; each may fail and power may be cut between any two.
`FlashFiles` is one file under `put` and `cat` from several shells: BEGIN, DATA,
COMMIT with its unlink and rename as separate steps, lost and late records, power
cuts and the recovery at startup. A chunk names the put that sent it, so that a
mixed file is visible. Power may be lost between two calls of FatFs or inside one
that writes; in the second case any file may be lost or damaged, because a block is
erased before it is programmed and may hold clusters of two files or part of the
directory. Three history variables say which put was renamed last (`stored`), that
a failure or power loss fell between unlink and rename (`gap`), and that a call was
cut short (`torn`). `FlashListing` is `ls`: one request per entry, by number,
while another shell uploads. The number of a file is that of the visible files at
earlier places of the directory, which is what the loop of `handle_list` counts; the
places are those that `dir_alloc`, `dir_register` and `dir_remove` of `ff.c` take and
free, with names of the 8.3 form. A call of FatFs that returns is taken to be durable.

### Rpc, RequestChannel, Mailbox

`Rpc` says what a remote call is: one open call at a time, carried out at most
once, possibly after the caller gave it up; a success means that this very call
was carried out; every call ends. `RequestChannel` is `exchange_hid_request` with
its four clients (services, live requests, the identity probe, workload requests)
against the record slot, the handler and the reply endpoint. The identity probe sends
a record that looks like a live request. It and the workload client keep the sequence
of a failed request; `kept` records those, and `doubtful` the calls that repeat one.
`Mailbox` is the Host's `mailbox` command, the write window of the memory service
and the polling workload `shared_mailbox.asm`.

### BrokerSession, DeviceOwner, Deploy, WebOwner, WebGateway

`DeviceOwner` is the life of Host processes around the device lock and the
registry file: acquire, start of the broker thread with its timeout, open, stop
in its steps, crash at any point. `BrokerSession` is one broker: handlers that
await futures, the owner's loop that serves them, clients that time out, the bounded
audit and the two-step `publish`. `Deploy` is `--start-workload` with every early
return, for deployers that may overlap, among clients that upload, run, restart and
stop; `overtaken` records that somebody else committed between a deployer's COMMIT and
its RUN. `WebOwner` is `ensure_runtime_owner`, the recovery thread, the handlers that
start it and `stop_owned_runtime`, during which the other threads run on; a discovery
may miss a broker that is slow. `apart` says whether the start has a thread of its own,
as in `rp86_remote.py`. `WebGateway` is a request of a browser from the token check to
the answer: `request_lock`, hello, records, retry. The device has its life cycle, what
the owner knows of it lags behind (`known`), and what the broker publishes lags behind
that (`view`).

### HostSession, SessionProbe, ShellInput

`HostSession` is the loop of `persistent_monitor` with the records it sends, the
refresh a CDC line asks for, the verdict of a regression, the evidence and the
exit code. The device is what its replies show, `dev`; `view` is what the session
believes. The variable `setting`, chosen at the start, is the session: owner or
client, regression or not, among others who upload or do not, with its bounds.
`SessionProbe` is the probing half of that loop. The device has a boot id, a counter
of services, an image or none (`loaded`) and a general workload on the bus or not
(`general`). Workload records of this session and of others change it; their replies
reach the session or do not, and `unseen` records that a run went by without any reply
since. `ShellInput` is the line editor on a POSIX terminal or, with `nt`, a Windows
console. `term` holds the keys that are not read to their end and `got` how many
characters of the first are; `input` says which keys are typed and how many. Any poll
inside a sequence may come up empty, which covers slow lines and the read-ahead of
Python's text layer; `cut` records that it happened to the key at hand.

### CdcStream, RuntimeControl, WorkloadPackage, Telemetry

`CdcStream` follows evidence lines, in pieces, from `evidence_printf` through the
queue or past it, through USB, to the session's line splitter or to a status
request. A line is known by its first two pieces. `spoiled` records the lines that the
queue dropped or that a direct write cut, joined to another or separated from the rest
of their answer; `taken` records the runs during which a status request read the
stream; what it reads reaches neither the log nor the line splitter. `RuntimeControl`
is `--reboot` and `--bootloader` over broker, HID and CDC, and how the firmware obeys. `WorkloadPackage` has the manifest checks of Host
and firmware, with the firmware's sums taken modulo `Word`, and the upload. The
transfer ids of the uploads are random; `same_id` says whether they coincide. The
packages are a constant, `Files` for those that are loaded and `Checked` for those
whose manifests the two checks are compared on. `upload` and `uploaded` are the
fields `transfer_id` and `received` of the manager, `image` is the memory it writes.
`Telemetry` has the publishing tasks, restarts of the workload whose startup code
clears the record word by word, the reader that works word by word, and the verdict
of `freertos_status`. `lives` records in which life of the workload a sample was taken.

## 4. Runs

| Run | Module | Instance | Result |
|---|---|---|---|
| `tick_counter_wrap` | `TickPipeline` | counter modulo 8, 5 time units | violation |
| `tick_retained_in_service` | `TickPipeline` | Period 2, Recovery 2, counter modulo 32, 9 time units | violation |
| `freertos_tick` | `FreeRTOSTick` | Period 2, Recovery 3, restore of 1 cycle, counter modulo 64, 8 time units, 13 cycles | 3,003,568 states |
| `canonical_runtime` | `MCCanonicalRuntime` | three packages of up to two chunks, two transfer ids, ids modulo 3 | 90,876 states |
| `diagnostics_after_prepared` | `MCCanonicalRuntime` | the same | violation |
| `restart_after_timeout` | `MCCanonicalRuntime` | the same | violation |
| `board` | `Board` | see below | 261,646 states |
| `remote_calls` | `RemoteCalls` | see below | 117,509 states |
| `long_commands` | `MCLongCommands` | see below | 1,831,089 states |
| `put_is_atomic` | `FlashFiles` | two shells, two puts of at most one chunk | violation |
| `host_shell` | `MCHostShell` | see below | 1,095,430 states |
| `device_sharing` | `DeviceSharing` | see below | 264,955 states |

Deadlock is checked in every run.

### Bounds

**Tick and life cycle.** A complete delivery takes two INTA cycles, the EOI and
`Recovery` further cycles. In `freertos_tick` that is 6 cycles, so 13 cycles hold two
deliveries with their recovery windows, and eight time units are four periods: a
delivered tick, a late or coalesced one and one after the recovery. The processor is
the FreeRTOS port or any other workload, which may answer at any cycle. `Recovery` and
`Period` are larger than 1 so that a gate can be half open. In `tick_counter_wrap` (5
time units, 12 cycles) the counter passes 0 inside the bound. In the life-cycle run
nothing is cut off: the state space is finite, ids come round after two uploads or
two starts, the second general package has the size of the calculator so that
memory writes turn one into the other, and the third asks for a free-running
clock.

**Board.** Four sectors in two blocks and two writes: a write can stay in the
cached block or move the cache, and span both. FIFOs of depth 4 as in the PIO, and
three pulses. The evidence queue holds 4 pieces, fewer than the lines of two runs and
fewer than one status answer, so that both overflow it; there are two status requests,
so that the second can meet what the first left behind.

**RemoteCalls.** Two chunks, generations that come round after two, three mailbox
commands and two starts of the workload, so that a late record can meet a later
command and a new run. Three record requests, each of any of the four kinds of client,
with sequences that wrap inside the run. Two clients of the broker with two requests
and an audit list of one entry. Two control commands for different operations, with
one lost acknowledgement and one failed open.

**LongCommands.** Two shells, two puts of up to two chunks and one read, with a failing
or an interrupted call of the file system anywhere; four directory places and three
names; three images at two load addresses, one package in the mailbox and two that were
cut, two uploads with different ids or one, and one lost record; manifests at every
load address and size up to and past an address space of 16, with `Word` 64, so that
sums wrap; telemetry counters modulo 4 with four updates, so that they come round, and
one restart.

**HostShell.** Two uploads, two runs, up to three commands, up to three acts of
others and one lost record, in four sessions that each put the bound where a
property needs it: a client that loses a reply, one among busy others, the owner and
a regression. Three rounds of probes with a counter modulo 4, five services, three
boots and four requests. Any two keys; three of those that edit, four of those that
complete and five of those that recall; on both terminals, with every poll free to come
up empty.

**DeviceSharing.** Three processes: one that stops late, its successor and one
that dies. Two deployers that may overlap, two lost records and three acts of others.
Three children, two handlers, one recovery and one reboot. Two browsers, two threads,
uploads of three records, two requests, one lost reply and one act outside.

### Fairness

| Part | Fairness | Why |
|---|---|---|
| `CanonicalRuntime` | weak, `Service` | every iteration of the main loop calls `rp86_workload_executor_service`, whatever the Host sends |
| `Mailbox` | weak: send or lose a record, give up, the processor | Host code runs on and its waits have deadlines; a running processor polls |
| `RequestChannel` | weak: the Host's step, give up | the same; nothing is assumed of the device |
| `BrokerSession` | weak: the owner's step, a ready handler | the loop of the session turns; the event loop runs what is ready |
| `RuntimeControl` | weak: each command, the firmware's handlers, restart and boot | every wait has a deadline; the main loop runs on |
| `DeviceOwner` | weak: acquire, the start and stop steps, open | a process that was not killed runs on |
| `WebOwner` | weak: threads, handlers, recoveries | they run, and the page keeps asking for the processor's state |
| `CdcStream` | weak: drain of the queue; strong: the session's read | the main loop drains in every iteration; the session reads CDC again and again, also when a status request has just emptied it |
| `HostSession` | weak: the session's step, for the owner | the loop turns |

All other parts are checked for safety only.

### What the passing runs show

* `TickAccounting`, `RecoveryBeforeDelivery`: every period is accounted for, and
  INTR respects both gates, for any processor, late services, faults and stops.
* `InterruptNeverRefused`, `ServiceMatchesHandler`, `ForegroundProgress`: with
  the FreeRTOS port the two sides agree about the handler in service, no INTA is
  refused, and a restored task makes progress before the next tick.
* `LifecycleAgreement`, `SingleBusOwner`, `StoppedIsQuiet`: manager, executor,
  prepared runtime and hardware agree about who runs the processor, also after
  failed starts and lost acknowledgements.
* `AttemptIsCurrent`, `DiagnosticsOfThisUpload`: deadline, reason and diagnostics
  belong to the present attempt and upload.
* `StagedImageComplete`: lost, repeated, reordered and foreign records cannot
  make COMMIT accept a wrong image. It excludes Host writes to the image through
  the memory service, which the CRC of the upload does not see.
* `ParkedAttemptEnds`: an attempt on a parked processor ends.
* `SyncMeansStored`, `CutSparesOtherBlocks`: a successful sync has everything in
  flash, and a power cut damages at most the block that waits to be written back.
* `PulsesAreWhole`: a step that succeeds is one pulse, a stopped clock is low, and
  before any deadline passes no switch cuts a pulse short.
* `EndIsNoticed`: a run that ended is noticed by the session, unless its last line was
  spoiled on the way (the queue was full, or a direct write met a queue not yet
  drained) or a status request read the stream during the run.
* `StatusIsWhole`: what a status request returns is one whole answer of the firmware,
  unless the queue dropped a line of that answer or the workload ended while part of
  the answer was queued.
* `ImplementsCalls`, `ChannelImplementsCalls`: mailbox commands and record
  exchanges are calls as `Rpc` says, liveness included. The second is for every kind of
  client; a success counts for nothing when the request repeats type and sequence of an
  earlier one that failed, since the reply may be the earlier one's.
* `AcceptanceResynchronises`: with any client, nothing that was late before an
  accepted reply is accepted after it.
* `HandlersEnd`, `AuditBecomesVisible`: handlers of the broker that await without
  a limit still end, and an audited control reaches the published snapshot.
* `PassIsObeyed`: a restart command that reports PASS is obeyed.
* `TargetIsWhole`: while no call of the file system was cut short, the stored file is
  the whole text of the put that was renamed last; it is absent only before the first
  put, between unlink and rename, and after a failure or a power loss there.
* `ReadingIsExact`: `ls` names every file once unless a COMMIT falls into it, and
  `cat` joins no texts of different sizes.
* `UploadIsOwn`, `ChecksAgree`: a reported upload staged its own image, and the
  two manifest checks are safe and do not contradict each other.
* `PassMeansProgress`: a sample is one published record and PASS means that every
  counter moved, unless the workload was restarted meanwhile.
* `EvidenceIsTrue`, `RegressionPassIsReal`, `CompletionIsSeen`: the evidence of a
  session is about what happened, a regression's PASS about its own workload
  (others may run and stop workloads, not upload), and the owner learns how a run
  ended when no reply is lost.
* `ProbesAreSound`: a round counts only a service of its own, across reboots and
  the wrap of the counter (only the identity probe that sets the flag may be repeated),
  and a periodic probe reaches a general workload only while the session has not seen
  it start.
* `LineIsSound`, `TextIsKept`: the cursor stays in the line; characters of a key become
  text only when its sequence was not read as one, and the editor is back in step with
  the next key; history and completion lose nothing that was typed.
* `OwnerIsRegistered`, `LockIsGivenUp`: a serving owner can be found whoever
  crashes or stops late, and a process that stops gives up the lock.
* `PassMeansDeployed`: deployment PASS means that this package was started, with
  deployments and other clients overlapping, unless the deployer was overtaken: another
  one replaced the image between its COMMIT and its RUN.
* `NoOrphans`, `LostOwnerIsReplaced`: the Web application leaves no owner behind, except
  in five races that the model names (a broker too slow for a discovery; the broker of
  another process taken for that of a starting child; a handler that starts a recovery
  late; a child started after `stop_owned_runtime` has looked; an interrupt of
  `rp86_web.py` during its start), and replaces an owner that is lost or reports an
  error.
* `UploadIsStaged`: an upload answered with ok is staged whole, and one fails only after
  a lost record or an act outside, or at its first record when the snapshot was stale;
  tabs of the browser do not break each other's uploads.

### What the violations show

* `tick_counter_wrap`: the gate computed by a fence can be 0, which means "no
  gate", so INTR may follow at once. It takes a counter value of 2^32 - 65 at a
  fence. The theorem below therefore assumes that the counter does not wrap.
* `tick_retained_in_service`: the interrupt map document says that one request
  is retained while a tick is in service; the code coalesces all of them.
* `diagnostics_after_prepared`: a snapshot outlives a later execution of the
  same workload by the prepared runtime.
* `put_is_atomic`: `host_runtime.md:216` says "atomically upload/replace files"; COMMIT
  unlinks the target before the rename, and a rename that fails leaves neither version.
* `restart_after_timeout`: the documents offer `restart` and `stop` after a fault
  or a timeout; the firmware accepts only a new upload.

## 5. Proofs

Eight modules hold theorems. A theorem holds for every value of the constants that
satisfies the named assumptions of its modules; those only give the constants their
types and state what the code fixes (a backing store inside the address space, a
counter with an even modulus, fewer requests than sequences). The properties marked
* are checked by a run as well, which shows that a plausible fault of the code would
break them. Every inductive invariant below was checked by TLC on the instance of
section 4 before it was proved.

A composition moves one part and leaves the others alone, so what holds of a part
holds of the composition: `[SharingNext]_sharingVars` is a step of the part or leaves
its variables unchanged. The theorems about parts that a composition extends are
stated for the specification of the part, and the composition implies it by that
argument (proved for the line editor, `SessionHasItsEditor`); the others are stated
for the composition itself, `SharingSpec`, `CallsSpec` or `ShellSpec`.

| Module | About |
|---|---|
| `Firmware_proofs` | `TickPipeline`, `FreeRTOSTick`, `FlashDisk`, `ExecutionClock` |
| `Workload_proofs` | `CanonicalRuntime`, `Telemetry` |
| `Memory_proofs` | `WorkloadPackage`, `Mailbox` |
| `FlashCommands_proofs` | `FlashFiles`, `FlashListing` |
| `RemoteCalls_proofs` | `RequestChannel` |
| `HostShell_proofs` | `HostSession`, `SessionProbe` |
| `ShellInput_proofs` | `ShellInput` |
| `DeviceSharing_proofs` | `DeviceOwner`, `Deploy`, `WebOwner`, `WebGateway` |

### The tick (Firmware_proofs)

For every period, recovery distance, counter modulus and bound (`TickConstants`) and
every restore path no longer than the recovery distance (`RestoreConstant`):

| Theorem | Statement |
|---|---|
| `TypeCorrect` | `TypeOK` of the pipeline |
| `DeliveryCorrect` | `DeliveryStates`: the delivery flags stay in the five states of the audit |
| `AccountingCorrect` | `TickAccounting` * |
| `PhaseCorrect` | `SourcePhase`: generation is phase-locked to the start |
| `PendingKept` | `PendingConsumedByAck`: only INTA #1 or the end of the source consumes a request |
| `RecoveryCorrect` | `RecoveryBeforeDelivery` *, assuming `NoWrap` |
| `PortImplementsPipeline` | every behaviour of the port is one of the pipeline |
| `NeverRefused` | `InterruptNeverRefused` * |
| `ServiceIsHandler` | `ServiceMatchesHandler` * |
| `TasksProgress` | `ForegroundProgress` *, assuming `NoWrap` |

Type correctness is proved in two halves, flags and numbers, because they need
different provers. `DeliveryStates` is inductive on top of it. Its last clause (a
stopped or disabled source leaves nothing behind) is what `PendingKept` rests on: a
start clears the pending flag without an INTA, which is harmless only because none
can be set then. `StepKinds` sorts the steps by what they do to the delivery state.
`RecoveryBeforeDelivery` is not inductive: INTR is raised by comparing the counter
with the gate, so the proof carries an invariant that ties `cycles` to the unwrapped
count, the gate to the last fence and the time gate to the last EOI (`GateStep`), and
shows that modular comparison is exact while nothing wraps (`ModSmall`,
`ReachedMeansPassed`).

`PortImplementsPipeline` carries all of this over to the port. A workload other than
the port stays one (`WorkloadStays`), and for it the properties say what the executor
alone guarantees. What the port adds is `HandlerAgreement`: the executor has a tick in service exactly while the processor is
in the handler, and between the two INTA cycles exactly when the processor is; an
INTA begins only while INTR is asserted. `TasksProgress` counts: once a tick was
closed, every cycle since the fence was a restore or a foreground cycle
(`FenceInv`), there are at least `Recovery` of them when INTR is up, and the restore
takes at most `RestoreCycles`.

### The life cycle of a workload (Workload_proofs)

For any set of manifests, any calculator image, any size of memory and any modulus of
the ids (`RuntimeConstants`): `LifecyclesAgree` (`LifecycleAgreement` *), `OneOwner`
(`SingleBusOwner` *), `QuietWhenStopped` (`StoppedIsQuiet` *), `StagedIsComplete`
(`StagedImageComplete` *), `DiagnosticsAreFresh` (`DiagnosticsOfThisUpload` *) and
`AttemptStaysCurrent` (`AttemptIsCurrent` *).

The six hold together. Three facts are added to make them inductive: a workload that
runs without the executor was started by the prepared runtime (`SupersededRuns`),
diagnostics exist only if the executor was started since the BEGIN
(`DiagnosesAttempt`; this is why an id that comes round does no harm), and while an
upload is received, memory holds what has come unless the Host patched it
(`PrefixStored`). RUN and RESTART contain the whole start with every point of
failure; the lemmas `GeneralEffects` and `CalculatorEffects` say what a start can
leave behind, and the steps are then sorted by kind as above.

### Remote calls (RemoteCalls_proofs, Memory_proofs)

Record exchange, for any range of sequences, any first one and fewer requests
than sequences: `AcceptanceIsInStep` (`AcceptanceResynchronises` *) and
`ChannelRefinement` (every kind of client implements the safety part of `Rpc`;
`ChannelImplementsCalls` * adds liveness). Sequences wrap, so the proof compares them
by `Rank`, the distance from the first one. The invariant says that the request in hand
carries the client's sequence (`RequestIsCurrent`), that nothing under way, in the slot,
the handler, the endpoint or the Host's buffer, is ahead of it (`NothingAhead`), and that
what was under way when a reply was accepted stays behind for good (`AcceptedIsPast`):
the sequence advances on acceptance and never returns. For the refinement, a record under
way with the client's sequence answers the request in hand, or has type and sequence of a
request that failed (`LateIsKept`, `DoubtIsKnown`), and a call is executed once
(`ExecutedOnce`).

Mailbox commands, for every mailbox size and any number of commands:
`WholeRequests` (`RequestIsWhole`: the processor is handed only whole requests),
`HostStaysOut` (`NoConcurrentWrites`), `PassIsRight` (`PassIsTheAnswer`) and
`Refinement` (every step is a step of `Rpc` or a stutter; `ImplementsCalls` * adds
liveness). The invariant describes the processor's progress through the data, where a
late record may still be (`LatePart`), how far the commit has come (`CommitPart`),
what the Host waits for and which call is open. A late record is harmless because the
write window refuses it once the owner word has changed hands, or because the next
command writes over it before the owner word.

### Commands of many records (FlashCommands_proofs, Memory_proofs, Workload_proofs)

Files, for any shells, puts, sizes, names and directories:

| Theorem | Statement |
|---|---|
| `NeverTorn` | `TargetIsWhole` * |
| `PassIsRight` | `PassMeansStored`: a put that passes has just stored its own content |
| `ReadsAreOfOneSize` | `ReadsNeverMixSizes`: the half of `ReadingIsExact` about `cat` |
| `ReadingIsExactTheorem` | `ReadingIsExact` *, of both `cat` and `ls` |

The invariant of the files (`FilesInv`) says that the upload file is what the running CRC
has seen (`UploadPart`), that the file COMMIT is about to rename is whole (`CommitPart`),
and that the shell waiting for its reply is the one that sent it (`CommitterPart`), also
with records of a command given up still under way (`LatePart`); for `cat`, that the
chunks collected so far come from puts of the size the first reply announced, and that
the command ends exactly when it has that many.

For `ls` the invariant says that a name stands in the directory once (`NamedOnce`) and
that the entries received are the files with the numbers below the cursor; when the
listing has ended, no file has the number asked for last (`ReadSoFar`). That these are
then all files is a fact about numbers: they grow with the place (`NumbersGrow`), so no
two files share one (`NumbersDiffer`); the file before one with number n > 0 has number
n - 1 (`NumbersHaveNoGap`), so a number that no file has is above all of them
(`NumbersEnd`). The least and the greatest place that these lemmas need come from the
well-foundedness of `<` and the numbers from the cardinality theorems, since counting
along a sequence would be an induction. An upload that begins or is dropped may take
and free places, but changes no number (`SameListing`).

Packages, for any packages, any uploaders and any widths and sizes:

| Theorem | Statement |
|---|---|
| `ValidManifestFits` | what `manifest_valid` takes lies in memory and off the mailbox, although its sums wrap |
| `FirmwareTakesIt` | what the Host decodes and memory has room for, `manifest_valid` takes |
| `ManifestChecksAgree` | `ChecksAgree` *, from the two |
| `UploadsStayWhole` | `UploadIsOwn` * |

`WordSum` says what a wrapped sum of two words is; the checks of `manifest_valid` are
then shown to exclude the wrapped case. For the upload, the manager's memory holds
what the running CRC has seen (`PrefixInMemory`), and an upload past its BEGIN whose
id the manager holds has its own manifest there (`OwnTransfer`), which needs different
ids; that a staged image is whole does not.

Telemetry, for any counters, numbers of samples and restarts: `SamplesShowProgress`
(`PassMeansProgress` *). The sequence is odd exactly while an update is under way
(`OddWhileUpdating`), within an attempt it has moved by two for every update
(`AttemptInStep`; so it returns to the value read first only after `Modulus \div 2`
updates, which the model excludes as section 6 says), and in one life of the workload an
older record has the smaller counters (`LivesAreCounted`, `CountersGrow`).

### The session (HostShell_proofs)

For any sessions, numbers of uploads, runs, commands, lost records and acts of others,
and any modulus of the service counter:

| Theorem | Statement |
|---|---|
| `EvidenceIsTrueTheorem` | `EvidenceIsTrue` * |
| `RegressionPassIsRealTheorem` | `RegressionPassIsReal` * |
| `ProbesAreSoundTheorem` | `ProbesAreSound` * |

Neither of the first two is inductive, since evidence and verdict are taken from the
session's view, which lags behind the device. `SessionInv` says of the device which
ids have this session's image (`ImagesKnown`) and that a failure with a snapshot has a
reason (`ReasonKnown`); of the view that it is a state the device was in (`ViewKnown`);
that the last result is the view's when that has stopped (`LastIsCurrent`), and that an
image is bound only to an id of this session (`ImagesReported`). An id that was
uploaded or that passed stays so (`DeviceStep`), which is why a stale view does no
harm. For the probes, the counter seen last stands for some service at or before the
present one, and none after it was credited (`CreditIsSeen`): a counter that has come
round is a later service. A session that still probes a general workload has seen no
reply since the run began (`ProbesSuspended`).

### The line editor (ShellInput_proofs)

For any keys and any number of them, on both terminals, with any outcome of every poll
and any completions: `LineIsSoundTheorem` (`LineIsSound` *) and `TextIsKeptTheorem`
(`TextIsKept` *).

`TerminalInv` says that a key of which only some characters are read is an arrow or
editing key whose sequence was cut. `LineInv` says that line, history and draft are text
(`LineTypes`), that the cursor is within the line (`CursorIsWithin`), that the draft is
the line the navigation began with (`DraftIsOrigin`) and that a line ends in one way
(`OneOutcome`). Lemmas say what slices, insertion and removal give and what a common
completion begins with.

### Programs that share the device (DeviceSharing_proofs)

For any processes, deployers, children, handlers, recoveries, threads and browsers:

| Theorem | Statement |
|---|---|
| `OwnerStaysRegistered` | `OwnerIsRegistered` * |
| `OnlyTheHolderPublishes` | `PublisherHoldsLock`: only the holder of the lock writes the registry |
| `WebLeavesNoOrphan` | `NoOrphans` * |
| `PassIsDeployed` | `PassMeansDeployed` * |
| `UploadsAreStaged` | `UploadIsStaged` * |

Owners: the lock is held exactly in the phases that acquired and did not release it,
a broker thread that has not registered yet belongs to a process that is starting or
gave up starting (`YoungThreadIsStarting`), and a serving thread is the registered
one. The middle clause is the one the code argues least: it is why a thread that
comes up after its start was given up publishes itself only under a lock still held.

The Web application: `NoOrphans` needs that at most one thread is in
`ensure_runtime_owner`. No lock guards it. It follows from `recovery_active`, which
admits one recovery (`OneRecovery`), and from the mode, which keeps handlers from asking
for a recovery before the first call has returned (`FirstCallAlone`). As long as none of
the five races has happened, `owned_runtime` is the only child that may own the device
(`OnlyOwnedMayOwn`), a recovery that settles began in the mode "web-owned"
(`RecoversOwned`), and a child starts only while somebody waits for it
(`StartIsAwaited`).

Deployments overlap, but the manager commits one transfer at a time: a deployer about to
run has been committed, and its image is still there, or cannot be run, or it was
overtaken (`AboutToRun`). Browsers: whoever is past `request_lock` holds it
(`DriverHoldsLock`), and while nothing has disturbed an upload since its hello, the device
expects the record that the upload sends next (`UploadInStep`).

### Flash disk and clock (Firmware_proofs)

For any geometry, `ReadsAreCurrent` (`ReadsSeeWrites`: a read returns the last write,
through the cache), `SyncIsDurable` (`SyncMeansStored` *) and `DamageIsOneBlock`
(`CutSparesOtherBlocks` *). The invariant says that the chip lags behind the writes
only inside the dirty cached block; lemmas about division and remainder locate a
sector in its block.

For FIFOs of any depth and any number of pulses, `ClockIsSound` (`PulsesAreWhole` *).
In stepped mode one token goes round for each step, from the FIFO through the state
machine and back (`StepToken`); a free-running clock that no deadline has disturbed has
at most the one token that stops it (`StopToken`); a clock that has been disturbed is on
its way to the safe state (`FreePart`), and a stopped one has lost the pin.

### Only model-checked

* Liveness, the liveness half of `Rpc` included: `ParkedAttemptEnds`, `EndIsNoticed`,
  `HandlersEnd`, `AuditBecomesVisible`, `PassIsObeyed`, `LockIsGivenUp`,
  `LostOwnerIsReplaced`, `CompletionIsSeen`. Fairness and ENABLED are outside the
  prover.
* `StatusIsWhole`, which joins and cuts sequences of pieces: what the joined text is
  needs induction over the length of a sequence, which the provers do not do.

## 6. Limits met while modelling

The properties of section 4 hold under the conditions stated there. Without them
they do not, or a neighbouring statement that one would expect fails. Each of the
following is a counterexample that TLC gave for an instance or a property that is
not kept as a run; the source line is where it begins.

* A workload request that times out leaves the sequence unchanged, so the next
  request may take its late reply (`workload_client.py:45`), although
  `request_channel.py:35` says "ignore records belonging to earlier requests".
* The device lock is released before HID and CDC are closed (`session.py:1411`):
  a new owner may open them while the old one still has them open.
* Clients take sequences from a snapshot, and two may send the same one
  (`session.py:364`).
* Two shells on one broker can both see the mailbox owned by the Host and mix the
  records of their requests (`session.py:1204`).
* A regression through a broker takes the result of whatever workload completed,
  also one that another client uploaded in between (`session.py:701`).
* A session bounded by `--rounds` never ends once its probe is suspended
  (`session.py:1362`).
* An `OSError` from opening HID ends a control command without the CDC fallback
  (`cli.py:303`).
* A direct write past a queue that is not empty puts the COMPLETED line into the middle
  of a queued one, and the session does not recognise it (`workload_executor.c:529`).
* A status request over CDC consumes output that then misses in the raw log and is not
  split into lines (`session.py:387`).
* The status block, some 2,200 bytes, is larger than the 2,048 bytes of the evidence
  queue (`evidence_queue.c:13`): while a workload runs it arrives with lines missing.
* A run whose reply was lost is not known to the session, whose next periodic probe goes
  into the general workload (`session.py:1270`); the comment at line 1273 says that none
  is injected.
* The remote application checks the token before a request runs, not while it
  runs (`rp86_remote.py:425`): the request may act after its session was released.
* A processor command of the Web application whose reply is lost is sent again
  and executed twice (`rp86_web_api.py:322`).
* `sys.stdin` reads ahead on POSIX, so `select` does not see the rest of an
  escape sequence, which becomes text (`console.py:298`).
* A deployment that another one overtakes starts the other's image and prints PASS,
  because RUN names no workload (`start_workload.py:259`); and a deployment whose
  child loses the lock gives up although an owner is up (`start_workload.py:119`).
* After a timed-out stop, a second stop token restarts the clock until the core
  reacts; RESET is asserted then.
* A file that is replaced by one of the same size while `cat` reads it can be
  shown mixed.

Assumptions of the models: random transfer ids differ, except where
`WorkloadPackage` makes them equal; fewer requests are in flight than there are
sequences; CRCs do not collide; what a call of FatFs did is durable once it has
returned; a direct CDC write completes within the firmware's five seconds; an
acknowledgement counted as not sent is not delivered later; fewer than 2^15 updates fall
into one attempt to read the telemetry; nobody writes the mailbox header by hand through
`mem`.

## 7. Not modelled

* Electrical timing, byte lanes and pad checks of the bus, the PIO programs and
  DMA streams of the prepared responder, wait states: their correctness is timing.
* Byte layouts, wording, colours, pages and static files; the observer's
  classification of bus cycles; UDP telemetry, `df`, listing of devices: no state of
  another part depends on them.
* Mounting, formatting and the self test of the flash volume, which run once at
  boot; the FAT library beyond the places of its directory; the FreeRTOS kernel, of which only the port is here.
* The PSRAM backing, which nothing selects; board tables.
* The sequences of requests that a broker forwards for its clients; `RequestChannel` has
  the clients that own their transport.
* Build, packaging and laboratory tools, which are offline.
* Liveness of tick delivery: a task that yields more often than every 64 bus
  cycles can postpone it without bound.
* Joint behaviour of parts beyond the environments they model (section 2).
