-------------------------- MODULE CanonicalRuntime --------------------------
(***************************************************************************)
(* The life cycle of a workload on the RP2350: the workload manager        *)
(* (workload_manager.c), the life cycle of the executor                    *)
(* (workload_executor.c), the prepared runtime with its calculator         *)
(* workload, and the RESET line, the clock and the bus they share          *)
(* (canonical_runtime.c).  The tick of a running attempt is the subject of *)
(* TickPipeline; here one service of the executor is one of the ways in    *)
(* which it can change the life cycle.                                     *)
(*                                                                         *)
(* The Host is arbitrary: any record may come at any time, repeated, out   *)
(* of order or left over from an earlier upload.  A record the firmware    *)
(* refuses changes nothing and is a stuttering step.  Wall time is left    *)
(* out: an armed deadline may be due at any service.  A CRC stands for the *)
(* data it was computed from.                                              *)
(***************************************************************************)
EXTENDS Integers, Sequences

CONSTANTS
    Chunk,          \* contents of one WORKLOAD_DATA record
    Blank,          \* contents of the zeroed backing
    CalcImage,      \* g_calculator_workload_contract, as chunks
    Manifests,      \* the valid manifests: size, crc, at_entry, clock
    RegionSize,     \* chunks of memory at the load address
    TransferIds,    \* transfer ids the Host uses
    IdModulus       \* 2^32, the modulus of workload and boot ids

ClockFlags == {"FREE_RUNNING", "STEPPED", "AUTO"}

ASSUME RuntimeConstants ==
    /\ IdModulus \in Nat /\ IdModulus >= 2
    /\ RegionSize \in Nat
    /\ Blank \in Chunk
    /\ CalcImage \in Seq(Chunk) /\ Len(CalcImage) <= RegionSize
    /\ Manifests \subseteq [size : 1 .. RegionSize, crc : Seq(Chunk),
                            at_entry : BOOLEAN, clock : ClockFlags]

VARIABLES
    \* rp86_workload_manager_t
    state, manifest, transfer_id, workload_id,
    received,       \* the chunks accepted: `received` and `running_crc32`
    \* rp86_workload_executor_t: active, processor_idle, clock_mode, deadline
    \* (armed or not), diagnostic_workload_id, diagnostic_boot_id, reason
    ex,
    timeout,        \* timeout_ms # 0
    \* the RESET pin, the physical clock, g_bus_active, g_prepared_runtime
    hw,
    boot_id,        \* g_processor_boot_id
    memory,         \* the backing at the load address
    patched,        \* history: the Host wrote the image since the last BEGIN
    attempted,      \* history: the executor was started since the last BEGIN
    superseded      \* history: the last attempt was the prepared runtime's

mgrVars == <<state, manifest, transfer_id, workload_id, received>>
vars == <<state, manifest, transfer_id, workload_id, received, ex, timeout, hw,
          boot_id, memory, patched, attempted, superseded>>

\* Definitions named X_Y are X with the fault Y planted in it; no module uses them.

States == {"EMPTY", "RECEIVING", "STAGED", "RUNNING", "STOPPED", "COMPLETED",
           "FAULTED", "TIMED_OUT"}
Reasons == {"NONE", "START_FAILURE", "STOP_REQUESTED", "EXECUTION_DEADLINE",
            "NATIVE_HLT", "NO_BUS_CYCLE", "BUS_FAULT"}
NoManifest == [size |-> 0, crc |-> <<>>, at_entry |-> FALSE, clock |-> "AUTO"]

NextId(n) == IF n + 1 = IdModulus THEN 1 ELSE n + 1

-----------------------------------------------------------------------------
(***************************************************************************)
(* rp86_runtime_context_init, rp86_workload_executor_init and the startup  *)
(* of rp86_canonical_runtime_run: the resident runtime owns the processor. *)
(***************************************************************************)
IdleExecutor == [active |-> FALSE, processor_idle |-> FALSE,
                 clock_mode |-> "STOPPED", deadline |-> FALSE,
                 diag_workload |-> 0, diag_boot |-> 0, reason |-> "NONE"]

ResidentRuntime == [reset |-> FALSE, clock |-> "FREE_RUNNING",
                    bus_active |-> TRUE, available |-> TRUE]

Init ==
    /\ state = "EMPTY"
    /\ manifest = NoManifest
    /\ transfer_id = 0
    /\ workload_id = 0
    /\ received = <<>>
    /\ ex = IdleExecutor
    /\ timeout = FALSE
    /\ hw = ResidentRuntime
    /\ boot_id = 1
    /\ memory = [i \in 1 .. RegionSize |-> Blank]
    /\ patched = FALSE
    /\ attempted = FALSE
    /\ superseded = FALSE

-----------------------------------------------------------------------------
(***************************************************************************)
(* The hardware operations.  SafeHalt is rp86_processor_bus_safe_halt or   *)
(* _force_safe_state.  Park is park_physical_processor, and also what a    *)
(* stop of the executor does: SafeHalt, then g_bus_active = false.  None   *)
(* of them touches the availability of the prepared runtime.               *)
(***************************************************************************)
SafeHalt(h) == [h EXCEPT !.reset = TRUE, !.clock = "STOPPED"]
Park_BusLeftActive(h) == SafeHalt(h)
Park(h) == [SafeHalt(h) EXCEPT !.bus_active = FALSE]

(***************************************************************************)
(* prepare_general_workload_bus and disable_prepared_runtime, when the     *)
(* switch to the stepped clock succeeds.                                   *)
(***************************************************************************)
GeneralBus_NotRetired(h) ==
    [h EXCEPT !.reset = TRUE, !.clock = "STEPPED",
              !.bus_active = @ /\ ~h.available]
GeneralBus(h) ==
    [h EXCEPT !.reset = TRUE, !.clock = "STEPPED",
              !.bus_active = @ /\ ~h.available, !.available = FALSE]

(***************************************************************************)
(* rp86_workload_executor_stop; its callers see to it that the executor is *)
(* active.                                                                 *)
(***************************************************************************)
StopExecutor(e) ==
    [e EXCEPT !.active = FALSE, !.processor_idle = FALSE,
              !.clock_mode = "STOPPED", !.deadline = FALSE,
              !.reason = IF @ = "NONE" THEN "STOP_REQUESTED" ELSE @]
StopBus(h) == IF ex.active THEN Park(h) ELSE h

ClearDiagnostics_Kept(e) == e
ClearDiagnostics(e) == [e EXCEPT !.diag_workload = 0, !.diag_boot = 0]

(***************************************************************************)
(* rp86_workload_executor_stage.                                           *)
(***************************************************************************)
StageExecutor(e) ==
    [ClearDiagnostics(e) EXCEPT
        !.processor_idle = FALSE,
        !.reason = "NONE",
        !.clock_mode = manifest.clock]

-----------------------------------------------------------------------------
(***************************************************************************)
(* rp86_workload_executor_start from the executor e and the hardware h.    *)
(***************************************************************************)
StartEntry(e) ==
    [e EXCEPT !.deadline = FALSE, !.diag_workload = workload_id, !.diag_boot = 0,
              !.reason = "NONE"]

FailedStart(e) == [StartEntry(e) EXCEPT !.reason = "START_FAILURE"]

\* A FREE_RUNNING manifest is refused before the bus is touched.
StartRefused(e, h) ==
    /\ manifest.clock = "FREE_RUNNING"
    /\ ex' = FailedStart(e)
    /\ hw' = h
    /\ state' = "FAULTED"
    /\ UNCHANGED boot_id

\* The clock cannot be switched; g_bus_active and the prepared runtime stay.
PrepareFails(e, h) ==
    /\ manifest.clock # "FREE_RUNNING"
    /\ h.clock # "STEPPED"
    /\ ex' = FailedStart(e)
    /\ hw' = SafeHalt(h)
    /\ state' = "FAULTED"
    /\ UNCHANGED boot_id

\* A step of the reset sequence fails, after the boot id was taken.
ResetSequenceFails(e, h) ==
    /\ manifest.clock # "FREE_RUNNING"
    /\ boot_id' = NextId(boot_id)
    /\ ex' = [FailedStart(e) EXCEPT !.processor_idle = FALSE,
                 !.clock_mode = "STOPPED", !.diag_boot = boot_id']
    /\ hw' = Park(GeneralBus(h))
    /\ state' = "FAULTED"

GeneralRuns(e, h) ==
    /\ manifest.clock # "FREE_RUNNING"
    /\ boot_id' = NextId(boot_id)
    /\ ex' = [StartEntry(e) EXCEPT !.active = TRUE, !.processor_idle = FALSE,
                 !.clock_mode = "STEPPED", !.deadline = timeout,
                 !.diag_boot = boot_id']
    /\ hw' = [GeneralBus(h) EXCEPT !.reset = FALSE, !.bus_active = TRUE]
    /\ state' = "RUNNING"

StartGeneral(e, h) ==
    /\ \/ StartRefused(e, h)
       \/ PrepareFails(e, h)
       \/ ResetSequenceFails(e, h)
       \/ GeneralRuns(e, h)
    /\ attempted' = TRUE
    /\ superseded' = FALSE

(***************************************************************************)
(* start_calculator_workload: the streams are rebuilt under RESET, the     *)
(* clock is switched, RESET is released and a native round proves that the *)
(* processor runs.  Every failure parks the processor.                     *)
(***************************************************************************)
StartCalculator(e, h) ==
    /\ \/ /\ state' = "FAULTED"         \* stream rearm or reset clocks
          /\ hw' = Park(h)
          /\ UNCHANGED boot_id
       \/ /\ state' = "FAULTED"         \* free-running clock or proof round
          /\ hw' \in {Park(h), Park([h EXCEPT !.available = TRUE])}
          /\ boot_id' = NextId(boot_id)
       \/ /\ state' = "RUNNING"
          /\ hw' = ResidentRuntime
          /\ boot_id' = NextId(boot_id)
    /\ ex' = e
    /\ superseded' = TRUE
    /\ UNCHANGED attempted

-----------------------------------------------------------------------------
(***************************************************************************)
(* calculator_workload_valid: the staged image, as it is in memory now, is *)
(* the calculator contract.                                                *)
(***************************************************************************)
CalculatorValid ==
    /\ state \in {"STAGED", "STOPPED", "RUNNING"}
    /\ manifest.size = Len(CalcImage)
    /\ manifest.at_entry
    /\ \A i \in 1 .. Len(CalcImage) : memory[i] = CalcImage[i]

IdMatches(id) == workload_id # 0 /\ id \in {0, workload_id}

Unsupervisable == CalculatorValid /\ timeout

(***************************************************************************)
(* The WORKLOAD records: rp86_workload_begin, _write and _commit with what *)
(* handle_workload_record does around them.                                *)
(***************************************************************************)
BeginAllowed_WhileCompleted == state # "RUNNING"
BeginAllowed == state \notin {"RUNNING", "COMPLETED"}

Begin(tid, m) ==
    /\ BeginAllowed
    /\ manifest' = m
    /\ transfer_id' = tid
    /\ received' = <<>>
    /\ state' = "RECEIVING"
    /\ ex' = ClearDiagnostics(ex)
    /\ patched' = FALSE /\ attempted' = FALSE /\ superseded' = FALSE
    /\ UNCHANGED <<workload_id, timeout, hw, boot_id, memory>>

InOrder_AnyOffset(offset) == offset <= Len(received)
InOrder(offset) == offset = Len(received)

Data(tid, offset, chunk) ==
    /\ state = "RECEIVING"
    /\ tid = transfer_id
    /\ InOrder(offset)
    /\ Len(received) < manifest.size
    /\ memory' = [memory EXCEPT ![offset + 1] = chunk]
    /\ received' = Append(received, chunk)
    /\ UNCHANGED <<state, manifest, transfer_id, workload_id, ex, timeout, hw,
                   boot_id, patched, attempted, superseded>>

CommitMatches(tid, crc) ==
    /\ tid = transfer_id
    /\ Len(received) = manifest.size
    /\ crc = manifest.crc
    /\ received = crc

Commit(tid, crc) ==
    /\ state = "RECEIVING"
    /\ \/ /\ CommitMatches(tid, crc)
          /\ workload_id' = NextId(workload_id)
          /\ state' = "STAGED"
          /\ ex' = StageExecutor(ex)
       \/ /\ ~CommitMatches(tid, crc)
          /\ state' = "FAULTED"
          /\ UNCHANGED <<workload_id, ex>>
    /\ UNCHANGED <<manifest, transfer_id, received, timeout, hw, boot_id, memory,
                   patched, attempted, superseded>>

-----------------------------------------------------------------------------
(***************************************************************************)
(* WORKLOAD_CONTROL: RUN, STOP and RESTART.                                *)
(***************************************************************************)
controlUnchanged == <<manifest, transfer_id, workload_id, received, timeout,
                      memory, patched>>

Run(id) ==
    /\ ~Unsupervisable
    /\ IdMatches(id) /\ state \in {"STAGED", "STOPPED"}
    /\ IF CalculatorValid THEN StartCalculator(ex, hw) ELSE StartGeneral(ex, hw)
    /\ UNCHANGED controlUnchanged

Stop(id) ==
    /\ IdMatches(id) /\ state \in {"RUNNING", "COMPLETED"}
    /\ state' = "STOPPED"
    /\ hw' = IF ex.active \/ CalculatorValid THEN Park(hw) ELSE hw
    /\ ex' = IF ex.active THEN StopExecutor(ex) ELSE ex
    /\ UNCHANGED <<boot_id, attempted, superseded, controlUnchanged>>

RestartAllowed(id) ==
    IdMatches(id) /\ state \in {"STAGED", "RUNNING", "STOPPED", "COMPLETED"}

RestartFrom(e) == IF e.active THEN StopExecutor(e) ELSE e

Restart(id) ==
    /\ ~Unsupervisable
    /\ RestartAllowed(id)
    /\ IF CalculatorValid THEN StartCalculator(RestartFrom(ex), StopBus(hw))
                          ELSE StartGeneral(RestartFrom(ex), StopBus(hw))
    /\ UNCHANGED controlUnchanged

(***************************************************************************)
(* WORKLOAD_TIMEOUT: rp86_workload_executor_timeout_request, SET.          *)
(***************************************************************************)
Armed(t) == t /\ ex.active /\ ~ex.processor_idle

SetTimeout(t) ==
    /\ ~(t /\ state = "RUNNING" /\ ~ex.active)
    /\ timeout' = t
    /\ ex' = [ex EXCEPT !.deadline = Armed(t)]
    /\ UNCHANGED <<mgrVars, hw, boot_id, memory, patched, attempted, superseded>>

(***************************************************************************)
(* MEMORY_REQUEST: while the workload is RUNNING the Host may write only   *)
(* the mailbox, which lies outside the image; otherwise the whole backing. *)
(***************************************************************************)
WriteWindow == IF state = "RUNNING" THEN {} ELSE 1 .. RegionSize

HostWrite(i, chunk) ==
    /\ i \in WriteWindow
    /\ memory' = [memory EXCEPT ![i] = chunk]
    /\ patched' = TRUE
    /\ UNCHANGED <<mgrVars, ex, timeout, hw, boot_id, attempted, superseded>>

(***************************************************************************)
(* RUNTIME_CONTROL: the processor is parked before the acknowledgement is  *)
(* sent.  When it cannot be sent the handler returns and the runtime goes  *)
(* on; otherwise the RP2350 restarts.                                      *)
(***************************************************************************)
ControlAckLost ==
    /\ hw' = Park(hw)
    /\ UNCHANGED <<mgrVars, ex, timeout, boot_id, memory, patched, attempted,
                   superseded>>

Reboot ==
    /\ state' = "EMPTY"
    /\ manifest' = NoManifest
    /\ transfer_id' = 0
    /\ workload_id' = 0
    /\ received' = <<>>
    /\ ex' = IdleExecutor
    /\ timeout' = FALSE
    /\ hw' = ResidentRuntime
    /\ boot_id' = 1
    /\ memory' = [i \in 1 .. RegionSize |-> Blank]
    /\ patched' = FALSE /\ attempted' = FALSE /\ superseded' = FALSE

-----------------------------------------------------------------------------
(***************************************************************************)
(* rp86_workload_executor_service, as far as it changes the life cycle.    *)
(***************************************************************************)
Serviced == ex.active /\ ex.clock_mode = "STEPPED" /\ ~ex.processor_idle

serviceUnchanged == <<manifest, transfer_id, workload_id, received, timeout,
                      boot_id, patched, attempted, superseded>>

EndAttempt(reason, final) ==
    /\ ex' = StopExecutor([ex EXCEPT !.reason = reason])
    /\ hw' = Park(hw)
    /\ state' = final
    /\ UNCHANGED <<memory, serviceUnchanged>>

DeadlineDue == Serviced /\ ex.deadline /\ EndAttempt("EXECUTION_DEADLINE", "TIMED_OUT")

\* A completed bus cycle; a memory write may change the image.
ProcessorWrite(i, chunk) ==
    /\ Serviced /\ hw.clock = "STEPPED"
    /\ memory' = [memory EXCEPT ![i] = chunk]
    /\ UNCHANGED <<state, ex, hw, serviceUnchanged>>

Starved == Serviced /\ hw.clock = "STEPPED" /\ EndAttempt("NO_BUS_CYCLE", "TIMED_OUT")

\* A cycle the controller cannot complete, or a clock that no longer steps.
BusFault_ClockFailureIgnored ==
    Serviced /\ hw.clock = "STEPPED" /\ EndAttempt("BUS_FAULT", "FAULTED")
BusFault == Serviced /\ EndAttempt("BUS_FAULT", "FAULTED")

\* The terminal HLT after IDLE_PREPARE; LifecycleAgreement shows that
\* rp86_workload_complete never refuses the transition.
IdleAccepted_DeadlineKept(e) ==
    [e EXCEPT !.processor_idle = TRUE, !.reason = "NATIVE_HLT"]
IdleAccepted(e) ==
    [e EXCEPT !.processor_idle = TRUE, !.reason = "NATIVE_HLT", !.deadline = FALSE]

TerminalHalt ==
    /\ Serviced /\ hw.clock = "STEPPED"
    /\ IdMatches(workload_id) /\ state = "RUNNING"
    /\ state' = "COMPLETED"
    /\ ex' = IdleAccepted(ex)
    /\ UNCHANGED <<hw, memory, serviceUnchanged>>

Service ==
    \/ DeadlineDue
    \/ Starved
    \/ BusFault
    \/ TerminalHalt
    \/ \E i \in 1 .. RegionSize, chunk \in Chunk : ProcessorWrite(i, chunk)

HostRecord ==
    \/ \E tid \in TransferIds, m \in Manifests : Begin(tid, m)
    \/ \E tid \in TransferIds, offset \in 0 .. (RegionSize - 1), chunk \in Chunk :
          Data(tid, offset, chunk)
    \/ \E tid \in TransferIds, m \in Manifests : Commit(tid, m.crc)
    \/ \E id \in {0, workload_id} : Run(id) \/ Stop(id) \/ Restart(id)
    \/ \E t \in BOOLEAN : SetTimeout(t)
    \/ \E i \in 1 .. RegionSize, chunk \in Chunk : HostWrite(i, chunk)
    \/ ControlAckLost
    \/ Reboot

Next == HostRecord \/ Service

(***************************************************************************)
(* The main loop services an active executor in every iteration.           *)
(***************************************************************************)
Spec == Init /\ [][Next]_vars /\ WF_vars(Service)

-----------------------------------------------------------------------------
Executors == [active : BOOLEAN, processor_idle : BOOLEAN,
              clock_mode : ClockFlags \cup {"STOPPED"}, deadline : BOOLEAN,
              diag_workload : 0 .. (IdModulus - 1),
              diag_boot : 0 .. (IdModulus - 1), reason : Reasons]

Hardware == [reset : BOOLEAN, clock : {"STOPPED", "STEPPED", "FREE_RUNNING"},
             bus_active : BOOLEAN, available : BOOLEAN]

(***************************************************************************)
(* Every variable keeps its type.  A boot id is never 0, the value that    *)
(* stands for "no reset was reached", also when the counter comes round.   *)
(***************************************************************************)
TypeOK ==
    /\ state \in States
    /\ manifest \in Manifests \cup {NoManifest}
    /\ transfer_id \in TransferIds \cup {0}
    /\ workload_id \in 0 .. (IdModulus - 1)
    /\ received \in Seq(Chunk) /\ Len(received) <= manifest.size
    /\ ex \in Executors
    /\ timeout \in BOOLEAN
    /\ hw \in Hardware
    /\ boot_id \in 1 .. (IdModulus - 1)
    /\ memory \in [1 .. RegionSize -> Chunk]
    /\ patched \in BOOLEAN /\ attempted \in BOOLEAN /\ superseded \in BOOLEAN

(***************************************************************************)
(* The two life cycles agree, although different handlers change them: an  *)
(* active executor has a RUNNING workload or, exactly when its processor   *)
(* is idle, a COMPLETED one.  A running attempt is always one the main     *)
(* loop services, and rp86_workload_complete never refuses it.  The types  *)
(* come with it.                                                           *)
(***************************************************************************)
LifecycleAgreement ==
    /\ TypeOK
    /\ state = "COMPLETED" <=> ex.active /\ ex.processor_idle
    /\ ex.active => state \in {"RUNNING", "COMPLETED"} /\ workload_id # 0
    /\ ex.active => ex.clock_mode = "STEPPED"
    /\ ex.processor_idle => ex.active

(***************************************************************************)
(* Who owns the bus of a processor that runs.                              *)
(***************************************************************************)
ExecutorOwns == ex.active /\ ~hw.available /\ hw.clock = "STEPPED" /\ hw.bus_active
PreparedOwns == ~ex.active /\ hw.available /\ hw.clock = "FREE_RUNNING" /\ hw.bus_active

(***************************************************************************)
(* A processor out of RESET has exactly one bus owner: the executor on the *)
(* stepped clock with the prepared runtime retired, or the prepared        *)
(* runtime on the free-running clock with no active executor.  A workload  *)
(* that runs without the executor is the calculator, whatever was written  *)
(* to memory before it was started, and no execution limit is configured   *)
(* that nobody would enforce: STOP recognises it and parks the processor.  *)
(***************************************************************************)
SingleBusOwner ==
    /\ ex.active => ~hw.available
    /\ ~hw.reset => ExecutorOwns \/ PreparedOwns
    /\ state = "RUNNING" /\ ~ex.active => CalculatorValid /\ ~timeout /\ hw.available

(***************************************************************************)
(* When the Host has been told STOPPED or TIMED_OUT the processor is in    *)
(* RESET, its clock is stopped and nobody drives the bus, and this stays   *)
(* so until the next RUN or RESTART.                                       *)
(***************************************************************************)
StoppedIsQuiet ==
    state \in {"STOPPED", "TIMED_OUT"} =>
        hw.reset /\ hw.clock = "STOPPED" /\ ~hw.bus_active

(***************************************************************************)
(* An accepted COMMIT means that memory holds the image of the manifest,   *)
(* however the DATA records were lost, repeated, reordered or mixed with   *)
(* those of another upload, unless the Host wrote the image itself through *)
(* the memory service.                                                     *)
(***************************************************************************)
StagedImageComplete ==
    state = "STAGED" /\ ~patched =>
        \A i \in 1 .. manifest.size : memory[i] = manifest.crc[i]

(***************************************************************************)
(* rp86_workload_executor_diagnostics answers with a snapshot.             *)
(***************************************************************************)
DiagnosticsAvailable ==
    /\ ~(ex.active /\ ~ex.processor_idle)
    /\ state \in {"STOPPED", "COMPLETED", "FAULTED", "TIMED_OUT"}
    /\ ex.diag_workload # 0
    /\ ex.diag_workload = workload_id

(***************************************************************************)
(* A diagnostics snapshot never describes an image that a later upload has *)
(* begun to replace, not even when the workload id comes round.            *)
(***************************************************************************)
DiagnosticsOfThisUpload == DiagnosticsAvailable => attempted

(***************************************************************************)
(* Nothing of an earlier attempt reaches into the present one, however     *)
(* SET, RUN, RESTART, STOP, completion and failed starts follow each       *)
(* other.  The deadline is armed exactly while a configured limit          *)
(* supervises an attempt that is executing, and the completion reason is   *)
(* the one of the state: a running attempt carries none.                   *)
(***************************************************************************)
AttemptIsCurrent ==
    /\ ex.deadline <=> timeout /\ ex.active /\ ~ex.processor_idle
    /\ ex.active /\ state = "RUNNING" => ex.reason = "NONE"
    /\ state = "COMPLETED" => ex.reason = "NATIVE_HLT"
    /\ state = "TIMED_OUT" => ex.reason \in {"EXECUTION_DEADLINE", "NO_BUS_CYCLE"}
    /\ state = "STOPPED" /\ DiagnosticsAvailable /\ ~superseded =>
           ex.reason \in {"STOP_REQUESTED", "NATIVE_HLT"}

(***************************************************************************)
(* A runtime-control request whose acknowledgement is lost leaves the      *)
(* executor active on a parked processor.  The next services notice it: an *)
(* executing attempt ends or is started again, it does not hang RUNNING.   *)
(***************************************************************************)
ParkedAttemptEnds ==
    (ex.active /\ ~ex.processor_idle /\ hw.clock # "STEPPED") ~>
        (~ex.active \/ ex.processor_idle \/ hw.clock = "STEPPED")

(***************************************************************************)
(* docs/reference/host_protocol.md: "Reads are repeatable until new        *)
(* execution or an accepted upload invalidates the executor's retained     *)
(* data", so a snapshot is of the last execution.                          *)
(***************************************************************************)
DiagnosticsOfLastExecution == DiagnosticsAvailable => ~superseded

(***************************************************************************)
(* docs/architecture/host_runtime.md: a workload that FAULTED or TIMED_OUT *)
(* "waits for `restart`, `stop`, or a new `load` command".                 *)
(***************************************************************************)
RestartAfterTimeout == state = "TIMED_OUT" => RestartAllowed(workload_id)
=============================================================================
