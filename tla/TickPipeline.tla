---------------------------- MODULE TickPipeline ----------------------------
(***************************************************************************)
(* The periodic tick of a general workload: the 100 Hz source and delivery *)
(* state of workload_executor.c, driven through the production composition *)
(* update_periodic_tick -> rp86_clock_stepped_service_cycle -> callbacks.  *)
(* The processor is arbitrary: it may present any bus cycle at any time.   *)
(*                                                                         *)
(* rp86_workload_executor_service has two halves: it first reads the clock *)
(* and updates the tick (pc = "update" -> "cycle"), then services one      *)
(* physical bus cycle (pc = "cycle" -> "update").  Wall time passes at any *)
(* moment.  Host requests are taken only between two services.             *)
(***************************************************************************)
EXTENDS Integers

CONSTANTS
    Period,     \* PERIODIC_TICK_US, in units of `now`
    Recovery,   \* PERIODIC_TICK_RECOVERY_CYCLES
    Modulus,    \* 2^32, the modulus of the bus cycle counter
    MaxTime,    \* bound on `now`
    MaxCycles   \* bound on the bus cycles completed in one attempt

ASSUME TickConstants ==
    /\ Period \in Nat \ {0}
    /\ Recovery \in Nat \ {0}
    /\ Modulus \in Nat \ {0}
    /\ MaxTime \in Nat
    /\ MaxCycles \in Nat

VARIABLES
    now,                    \* time_us_64()
    active,                 \* executor->active
    pc,                     \* where the main loop is in executor_service
    tick_enabled, tick_pending, tick_in_service, tick_intr_asserted,
    tick_ack_phase, tick_next_us, not_before_us, not_before_cycle,
    generated, delivered, acknowledged, delayed, coalesced, eoi,
    intr,                   \* the level of the INTR pin
    idle_armed,
    cycles,                 \* bus_stats.cycles, modulo Modulus
    outcome,                \* how the last attempt ended, "none" while it runs
    completed_cycles,       \* history: cycles of this attempt, without wrap
    since_fence,            \* history: cycles since the last restore fence
    start_us,               \* history: execution_started_us
    last_eoi_us             \* history: time of the last EOI (-Period: none)

stateVars == <<tick_enabled, tick_pending, tick_in_service,
               tick_intr_asserted, tick_ack_phase, intr>>
gateVars  == <<not_before_us, not_before_cycle>>
countVars == <<generated, delivered, acknowledged, delayed, coalesced, eoi>>
busVars   == <<cycles, completed_cycles, since_fence>>
histVars  == <<start_us, last_eoi_us>>
vars == <<now, active, pc, tick_enabled, tick_pending, tick_in_service,
          tick_intr_asserted, tick_ack_phase, tick_next_us, not_before_us,
          not_before_cycle, generated, delivered, acknowledged, delayed,
          coalesced, eoi, intr, idle_armed, cycles, outcome,
          completed_cycles, since_fence, start_us, last_eoi_us>>

\* Definitions named X_Y are X with the fault Y planted in it; no module uses them.

Outcomes == {"none", "stopped", "completed", "timed_out", "bus_fault",
             "refused_inta", "start_failure"}

(***************************************************************************)
(* cycle_deadline_reached: zero means "no deadline", otherwise the signed  *)
(* 32-bit difference decides.                                              *)
(***************************************************************************)
CycleDeadlineReached(current, deadline) ==
    \/ deadline = 0
    \/ (current - deadline) % Modulus < Modulus \div 2

(***************************************************************************)
(* The controller commits a completed bus cycle to the statistics.         *)
(***************************************************************************)
CommitCycle ==
    /\ completed_cycles < MaxCycles
    /\ cycles' = (cycles + 1) % Modulus
    /\ completed_cycles' = completed_cycles + 1

(***************************************************************************)
(* rp86_workload_executor_stop, reached from a Host stop, a fault or a     *)
(* timeout: INTR goes low, the processor is put in reset, the delivery     *)
(* state is cleared and the counters are retained.                         *)
(***************************************************************************)
StopExecutor ==
    /\ active' = FALSE
    /\ intr' = FALSE
    /\ tick_enabled' = FALSE
    /\ tick_pending' = FALSE
    /\ tick_in_service' = FALSE
    /\ tick_intr_asserted' = FALSE
    /\ tick_ack_phase' = 0
    /\ not_before_us' = 0
    /\ not_before_cycle' = 0
    /\ idle_armed' = FALSE

-----------------------------------------------------------------------------
Init ==
    /\ now = 0
    /\ active = FALSE
    /\ pc = "update"
    /\ tick_enabled = FALSE
    /\ tick_pending = FALSE
    /\ tick_in_service = FALSE
    /\ tick_intr_asserted = FALSE
    /\ tick_ack_phase = 0
    /\ tick_next_us = 0
    /\ not_before_us = 0
    /\ not_before_cycle = 0
    /\ generated = 0 /\ delivered = 0 /\ acknowledged = 0
    /\ delayed = 0 /\ coalesced = 0 /\ eoi = 0
    /\ intr = FALSE
    /\ idle_armed = FALSE
    /\ cycles = 0 /\ completed_cycles = 0 /\ since_fence = Recovery
    /\ outcome = "none"
    /\ start_us = 0 /\ last_eoi_us = -Period

AdvanceTime ==
    /\ now < MaxTime
    /\ now' = now + 1
    /\ UNCHANGED <<active, pc, stateVars, tick_next_us, gateVars, countVars,
                   idle_armed, busVars, outcome, histVars>>

(***************************************************************************)
(* reset_tick_attempt, without the enable flag and the first deadline.     *)
(***************************************************************************)
ResetDelivery ==
    /\ intr' = FALSE
    /\ tick_pending' = FALSE
    /\ tick_in_service' = FALSE
    /\ tick_intr_asserted' = FALSE
    /\ tick_ack_phase' = 0
    /\ not_before_us' = 0 /\ not_before_cycle' = 0
    /\ generated' = 0 /\ delivered' = 0 /\ acknowledged' = 0
    /\ delayed' = 0 /\ coalesced' = 0 /\ eoi' = 0

(***************************************************************************)
(* rp86_workload_executor_start, with or without the PERIODIC_TICK flag:   *)
(* the tick state and counters of the previous attempt are reset and RESET *)
(* is released.                                                            *)
(***************************************************************************)
Start ==
    /\ pc = "update" /\ ~active
    /\ active' = TRUE
    /\ ResetDelivery
    /\ \/ tick_enabled' = TRUE /\ tick_next_us' = now + Period
       \/ tick_enabled' = FALSE /\ tick_next_us' = 0
    /\ idle_armed' = FALSE
    /\ cycles' = 0 /\ completed_cycles' = 0 /\ since_fence' = Recovery
    /\ outcome' = "none"
    /\ start_us' = now /\ last_eoi_us' = -Period
    /\ UNCHANGED <<now, pc>>

(***************************************************************************)
(* A start that fails.  Before reset_tick_attempt (reset handoff, bus      *)
(* preparation) only the statistics are cleared; after it (mailbox, reset  *)
(* sequence) the tick state is reset too, and tick_enabled is left as the  *)
(* manifest has it although no attempt is active.                          *)
(***************************************************************************)
StartFails ==
    /\ pc = "update" /\ ~active
    /\ cycles' = 0 /\ completed_cycles' = 0
    /\ outcome' = "start_failure"
    /\ \/ UNCHANGED <<stateVars, tick_next_us, gateVars, countVars, since_fence,
                      idle_armed, histVars>>
       \/ /\ tick_enabled' \in BOOLEAN
          /\ ResetDelivery
          /\ tick_next_us' = 0
          /\ since_fence' = Recovery
          /\ idle_armed' = FALSE
          /\ last_eoi_us' = -Period
          /\ UNCHANGED start_us
    /\ UNCHANGED <<now, pc, active>>

(***************************************************************************)
(* A Host STOP is handled between two services, also when the processor    *)
(* is idle after a terminal HLT; the execution deadline is checked at the  *)
(* start of a service.                                                     *)
(***************************************************************************)
StopBetweenServices ==
    /\ pc = "update" /\ active
    /\ StopExecutor
    /\ \/ outcome' = "stopped"
       \/ outcome = "none" /\ outcome' = "timed_out"
    /\ UNCHANGED <<now, pc, tick_next_us, countVars, busVars, histVars>>

-----------------------------------------------------------------------------
(***************************************************************************)
(* update_periodic_tick.  `Elapsed` periods have expired since the last    *)
(* update; the gates are then evaluated on the updated state.              *)
(***************************************************************************)
Elapsed == IF now >= tick_next_us THEN 1 + (now - tick_next_us) \div Period ELSE 0

SlotBusy == tick_ack_phase # 0 \/ tick_in_service

NextDeadline == tick_next_us + Elapsed * Period

Surplus_All == Elapsed
Surplus == IF SlotBusy \/ tick_pending THEN Elapsed ELSE Elapsed - 1

Generate ==
    /\ tick_next_us' = NextDeadline
    /\ generated' = generated + Elapsed
    /\ \/ /\ Elapsed = 0
          /\ UNCHANGED <<tick_pending, delayed, coalesced>>
       \/ /\ Elapsed > 0
          /\ tick_pending' = (tick_pending \/ ~SlotBusy)
          /\ delayed' = delayed + (IF SlotBusy THEN Elapsed ELSE 0)
          /\ coalesced' = coalesced + Surplus

GatesOpen ==
    /\ not_before_us = 0 \/ now >= not_before_us
    /\ CycleDeadlineReached(cycles, not_before_cycle)

Deliverable == ~tick_intr_asserted /\ ~SlotBusy /\ GatesOpen

AssertRequest ==
    /\ intr' = (intr \/ (tick_pending' /\ Deliverable))
    /\ tick_intr_asserted' = (tick_intr_asserted \/ (tick_pending' /\ Deliverable))

UpdatePeriodicTick ==
    /\ pc = "update" /\ active /\ outcome = "none"
    /\ pc' = "cycle"
    /\ \/ /\ tick_enabled /\ ~idle_armed
          /\ Generate
          /\ AssertRequest
       \/ /\ ~tick_enabled \/ idle_armed
          /\ UNCHANGED <<tick_next_us, generated, tick_pending, delayed,
                         coalesced, intr, tick_intr_asserted>>
    /\ UNCHANGED <<now, active, tick_enabled, tick_in_service, tick_ack_phase,
                   gateVars, delivered, acknowledged, eoi, idle_armed,
                   busVars, outcome, histVars>>

-----------------------------------------------------------------------------
(***************************************************************************)
(* One call of rp86_clock_stepped_service_cycle.  Each action below is one *)
(* kind of bus cycle the processor presents.                               *)
(***************************************************************************)
Serve == pc = "cycle" /\ pc' = "update"

(***************************************************************************)
(* A fault of the cycle: immediate_fault, then stop and FAULTED.           *)
(***************************************************************************)
FaultStop(reason) ==
    /\ StopExecutor
    /\ outcome' = reason
    /\ UNCHANGED busVars

(***************************************************************************)
(* A memory or port cycle without an effect on the tick.                   *)
(***************************************************************************)
PlainCycle ==
    /\ Serve
    /\ CommitCycle
    /\ since_fence' = since_fence + 1
    /\ UNCHANGED <<now, active, stateVars, tick_next_us, gateVars, countVars,
                   idle_armed, outcome, histVars>>

(***************************************************************************)
(* No ALE within the idle budget: the service returns without a cycle, or  *)
(* the bus has been starved for too long and the workload is stopped.      *)
(***************************************************************************)
NoCycle ==
    /\ Serve
    /\ ~idle_armed
    /\ \/ UNCHANGED <<active, stateVars, gateVars, busVars, idle_armed, outcome>>
       \/ FaultStop("timed_out")
    /\ UNCHANGED <<now, tick_next_us, countVars, histVars>>

(***************************************************************************)
(* After IDLE_PREPARE, no ALE, an unmapped cycle or an invalid lane is the *)
(* terminal HLT.  The executor stays active with processor_idle set.       *)
(***************************************************************************)
TerminalHalt ==
    /\ Serve
    /\ idle_armed
    /\ idle_armed' = FALSE
    /\ outcome' = "completed"
    /\ UNCHANGED <<now, active, stateVars, tick_next_us, gateVars, countVars,
                   busVars, histVars>>

(***************************************************************************)
(* A pad mismatch or a clock failure and, unless IDLE_PREPARE was written, *)
(* an unmapped cycle or an invalid lane.                                   *)
(***************************************************************************)
BusFault ==
    /\ Serve
    /\ FaultStop("bus_fault")
    /\ UNCHANGED <<now, tick_next_us, countVars, histVars>>

(***************************************************************************)
(* An INTA cycle.  The interrupt_ack callback changes the phase first, then *)
(* the physical cycle completes or fails; a refused callback is a fault.   *)
(***************************************************************************)
AcceptRequest ==
    /\ intr' = FALSE
    /\ tick_intr_asserted' = FALSE
    /\ tick_pending' = FALSE
    /\ tick_ack_phase' = 1
    /\ CommitCycle
    /\ since_fence' = since_fence + 1
    /\ UNCHANGED <<active, tick_enabled, tick_in_service, gateVars, idle_armed,
                   outcome>>

AckFirst ==
    /\ tick_enabled /\ tick_ack_phase = 0 /\ tick_intr_asserted
    /\ delivered' = delivered + 1
    /\ AcceptRequest \/ FaultStop("bus_fault")
    /\ UNCHANGED acknowledged

NextPhase == 0

EnterService ==
    /\ tick_ack_phase' = NextPhase
    /\ tick_in_service' = TRUE
    /\ CommitCycle
    /\ since_fence' = since_fence + 1
    /\ UNCHANGED <<active, tick_enabled, tick_pending, tick_intr_asserted, intr,
                   gateVars, idle_armed, outcome>>

AckSecond ==
    /\ tick_enabled /\ tick_ack_phase = 1
    /\ acknowledged' = acknowledged + 1
    /\ EnterService \/ FaultStop("bus_fault")
    /\ UNCHANGED delivered

AckRefused ==
    /\ ~tick_enabled \/ (tick_ack_phase = 0 /\ ~tick_intr_asserted)
    /\ FaultStop("refused_inta")
    /\ UNCHANGED <<delivered, acknowledged>>

InterruptAck ==
    /\ Serve
    /\ AckFirst \/ AckSecond \/ AckRefused
    /\ UNCHANGED <<now, tick_next_us, generated, delayed, coalesced, eoi,
                   histVars>>

(***************************************************************************)
(* OUT 20h,20h.  With a tick in service it is the real EOI; otherwise it   *)
(* is only the fence of a scheduler restore, which retracts a request that *)
(* has been asserted and not yet accepted.                                 *)
(***************************************************************************)
RetractRequest ==
    /\ intr' = (intr /\ SlotBusy)
    /\ tick_intr_asserted' = (tick_intr_asserted /\ SlotBusy)
    /\ UNCHANGED tick_pending

CloseInService ==
    \/ /\ tick_in_service
       /\ tick_in_service' = FALSE
       /\ not_before_us' = now + Period
       /\ last_eoi_us' = now
       /\ eoi' = eoi + 1
    \/ /\ ~tick_in_service
       /\ UNCHANGED <<tick_in_service, not_before_us, last_eoi_us, eoi>>

FenceGate_OffByOne == (cycles + Recovery) % Modulus
FenceGate == (cycles + Recovery + 1) % Modulus

EoiWrite_OnlyInService ==
    /\ Serve
    /\ CommitCycle
    /\ \/ /\ tick_enabled /\ tick_in_service
          /\ RetractRequest
          /\ CloseInService
          /\ not_before_cycle' = FenceGate
          /\ since_fence' = 0
       \/ /\ ~(tick_enabled /\ tick_in_service)
          /\ since_fence' = since_fence + 1
          /\ UNCHANGED <<intr, tick_intr_asserted, tick_in_service, gateVars,
                         tick_pending, last_eoi_us, eoi>>
    /\ UNCHANGED <<now, active, tick_enabled, tick_ack_phase, tick_next_us,
                   generated, delivered, acknowledged, delayed,
                   coalesced, idle_armed, outcome, start_us>>
EoiWrite ==
    /\ Serve
    /\ CommitCycle
    /\ \/ /\ tick_enabled
          /\ RetractRequest
          /\ CloseInService
          /\ not_before_cycle' = FenceGate
          /\ since_fence' = 0
       \/ /\ ~tick_enabled
          /\ since_fence' = since_fence + 1
          /\ UNCHANGED <<intr, tick_intr_asserted, tick_in_service, gateVars,
                         tick_pending, last_eoi_us, eoi>>
    /\ UNCHANGED <<now, active, tick_enabled, tick_ack_phase, tick_next_us,
                   generated, delivered, acknowledged, delayed,
                   coalesced, idle_armed, outcome, start_us>>

(***************************************************************************)
(* OUT CONTROL,IDLE_PREPARE: the periodic source is shut down for the      *)
(* terminal HLT.                                                           *)
(***************************************************************************)
IdlePrepare ==
    /\ Serve
    /\ CommitCycle
    /\ since_fence' = since_fence + 1
    /\ idle_armed' = TRUE
    /\ tick_enabled' = FALSE
    /\ tick_pending' = FALSE
    /\ tick_in_service' = FALSE
    /\ tick_intr_asserted' = FALSE
    /\ tick_ack_phase' = 0
    /\ intr' = FALSE
    /\ not_before_us' = 0
    /\ not_before_cycle' = 0
    /\ UNCHANGED <<now, active, tick_next_us, countVars, outcome, histVars>>

Next ==
    \/ AdvanceTime
    \/ Start
    \/ StartFails
    \/ StopBetweenServices
    \/ UpdatePeriodicTick
    \/ PlainCycle
    \/ NoCycle
    \/ TerminalHalt
    \/ BusFault
    \/ InterruptAck
    \/ EoiWrite
    \/ IdlePrepare

Spec == Init /\ [][Next]_vars

-----------------------------------------------------------------------------
FlagTypes ==
    /\ active \in BOOLEAN
    /\ tick_enabled \in BOOLEAN
    /\ tick_pending \in BOOLEAN
    /\ tick_in_service \in BOOLEAN
    /\ tick_intr_asserted \in BOOLEAN
    /\ intr \in BOOLEAN
    /\ idle_armed \in BOOLEAN

NumberTypes ==
    /\ now \in Nat
    /\ pc \in {"update", "cycle"}
    /\ tick_ack_phase \in {0, 1}
    /\ tick_next_us \in Nat
    /\ not_before_us \in Nat
    /\ not_before_cycle \in 0 .. (Modulus - 1)
    /\ generated \in Nat /\ delivered \in Nat /\ acknowledged \in Nat
    /\ delayed \in Nat /\ coalesced \in Nat /\ eoi \in Nat
    /\ cycles \in 0 .. (Modulus - 1)
    /\ completed_cycles \in Nat /\ since_fence \in Nat
    /\ outcome \in Outcomes
    /\ start_us \in Nat /\ last_eoi_us \in Int

(***************************************************************************)
(* Every variable keeps the type of its C counterpart; in particular the   *)
(* acknowledge phase never leaves {0, 1}.                                  *)
(***************************************************************************)
TypeOK == FlagTypes /\ NumberTypes

(***************************************************************************)
(* The delivery flags are always in one of the states S0..S4 of the        *)
(* interrupt-delivery audit, whatever the processor does and wherever the  *)
(* Host stops the executor: an asserted INTR is a pending request that no  *)
(* INTA has touched, an acknowledge or a service in progress leaves no     *)
(* request to retract, and a disabled or stopped source leaves nothing.    *)
(***************************************************************************)
DeliveryStates ==
    /\ intr = tick_intr_asserted
    /\ tick_intr_asserted => tick_pending /\ ~SlotBusy
    /\ SlotBusy => ~tick_pending
    /\ ~(tick_ack_phase # 0 /\ tick_in_service)
    /\ ~tick_enabled \/ ~active => ~tick_pending /\ ~SlotBusy

(***************************************************************************)
(* No wall-clock period is lost or counted twice: every generated period   *)
(* is delivered, coalesced or still pending, and every delivered one is    *)
(* between INTA #1 and INTA #2, in service, or closed by its EOI.          *)
(***************************************************************************)
One(b) == IF b THEN 1 ELSE 0

TickAccounting ==
    tick_enabled =>
        /\ generated = delivered + coalesced + One(tick_pending)
        /\ delivered = acknowledged + tick_ack_phase
        /\ acknowledged = eoi + One(tick_in_service)
        /\ delayed <= coalesced

(***************************************************************************)
(* Generation stays phase-locked to the start of the attempt, however late *)
(* services run and however often the processor writes the fence.          *)
(***************************************************************************)
SourcePhase ==
    active /\ tick_enabled => tick_next_us = start_us + (generated + 1) * Period

(***************************************************************************)
(* The attempts in which the bus cycle counter does not come round.        *)
(***************************************************************************)
NoWrap == MaxCycles + Recovery < Modulus /\ 2 * Recovery <= Modulus

(***************************************************************************)
(* INTR is high only after a full Period since the last EOI and Recovery   *)
(* completed bus cycles since the last restore fence; in particular a      *)
(* fence that finds INTR high takes it down.                               *)
(***************************************************************************)
RecoveryBeforeDelivery ==
    intr => since_fence >= Recovery /\ now - last_eoi_us >= Period

(***************************************************************************)
(* A pending request is consumed only by an accepted INTA #1 or by the end *)
(* of the source; a restore fence that retracts INTR keeps it.             *)
(***************************************************************************)
PendingConsumedByAck ==
    [][tick_pending /\ ~tick_pending' =>
         delivered' = delivered + 1 \/ ~tick_enabled']_vars

(***************************************************************************)
(* docs/reference/processor_io_interrupt_map.md: when further periods      *)
(* elapse while a tick is in service, the RP2350 "retains one request".    *)
(***************************************************************************)
RequestRetainedInService ==
    [][tick_in_service /\ tick_enabled' /\ generated' > generated =>
         tick_pending']_vars
=============================================================================
