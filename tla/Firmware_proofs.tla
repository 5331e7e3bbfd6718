--------------------------- MODULE Firmware_proofs ---------------------------
(***************************************************************************)
(* Proofs about three parts of the firmware.  The tick pipeline, and the   *)
(* FreeRTOS port on it, for every period, recovery distance, counter       *)
(* width, bound and length of the restore path.  The cached flash disk,    *)
(* for any geometry, any contents and any sequence of writes,              *)
(* synchronisations, failures and power cuts.  And the clock of the        *)
(* processor, for any depth of the FIFOs and any deadline that passes.     *)
(***************************************************************************)
EXTENDS FreeRTOSTick, FlashDisk, ExecutionClock, TLAPS

-----------------------------------------------------------------------------
(***************************************************************************)
(* The number of elapsed periods is a natural number.                      *)
(***************************************************************************)
LEMMA ElapsedNat == TypeOK => Elapsed \in Nat
<1> SUFFICES ASSUME TypeOK, now >= tick_next_us
             PROVE  (now - tick_next_us) \div Period \in Nat
  BY DEF Elapsed, TypeOK, NumberTypes
<1>1. now - tick_next_us \in Nat
  BY DEF TypeOK, NumberTypes
<1>2. Period \in Nat /\ Period > 0
  BY TickConstants
<1> QED
  BY <1>1, <1>2

(***************************************************************************)
(* A remainder modulo the counter's modulus is a value of the counter.     *)
(***************************************************************************)
LEMMA ModRange == \A n \in Int : n % Modulus \in 0 .. (Modulus - 1)
<1>1. Modulus \in Nat /\ Modulus > 0
  BY TickConstants
<1> QED
  BY <1>1

(***************************************************************************)
(* The committed cycle count and the progress gate of a fence are values   *)
(* of the 32-bit counter.                                                  *)
(***************************************************************************)
LEMMA CounterRange ==
    TypeOK => /\ (cycles + 1) % Modulus \in 0 .. (Modulus - 1)
              /\ FenceGate \in 0 .. (Modulus - 1)
<1> SUFFICES ASSUME TypeOK
             PROVE  /\ (cycles + 1) % Modulus \in 0 .. (Modulus - 1)
                    /\ FenceGate \in 0 .. (Modulus - 1)
  OBVIOUS
<1>1. cycles + 1 \in Int /\ cycles + Recovery + 1 \in Int
  BY TickConstants DEF TypeOK, NumberTypes
<1> QED
  BY <1>1, ModRange, Zenon DEF FenceGate

(***************************************************************************)
(* The executor's flags stay Boolean in every step.                        *)
(***************************************************************************)
LEMMA FlagStep == FlagTypes /\ [Next]_vars => FlagTypes'
<1> SUFFICES ASSUME FlagTypes, [Next]_vars PROVE FlagTypes'
  OBVIOUS
<1> USE DEF FlagTypes
<1>1. CASE AdvanceTime
  BY <1>1, Zenon DEF AdvanceTime, stateVars, gateVars, countVars, busVars,
     histVars
<1>2. CASE Start
  BY <1>2, Zenon DEF Start, ResetDelivery
<1>17. CASE StartFails
  BY <1>17, Zenon DEF StartFails, ResetDelivery, stateVars
<1>3. CASE StopBetweenServices
  BY <1>3, Zenon DEF StopBetweenServices, StopExecutor, countVars, busVars,
     histVars
<1>4. CASE UpdatePeriodicTick
  BY <1>4, Zenon DEF UpdatePeriodicTick, Generate, AssertRequest, gateVars,
     busVars, histVars
<1>5. CASE PlainCycle
  BY <1>5, Zenon DEF PlainCycle, Serve, CommitCycle, stateVars, gateVars,
     countVars, histVars
<1>6. CASE NoCycle
  BY <1>6, Zenon DEF NoCycle, Serve, FaultStop, StopExecutor, stateVars,
     gateVars, countVars, busVars, histVars
<1>7. CASE TerminalHalt
  BY <1>7, Zenon DEF TerminalHalt, Serve, stateVars, gateVars, countVars,
     busVars, histVars
<1>8. CASE BusFault
  BY <1>8, Zenon DEF BusFault, Serve, FaultStop, StopExecutor, countVars,
     busVars, histVars
<1>9. CASE InterruptAck /\ AckFirst /\ AcceptRequest
  BY <1>9, Zenon DEF InterruptAck, AckFirst, AcceptRequest, Serve,
     CommitCycle, gateVars, histVars
<1>10. CASE InterruptAck /\ AckFirst /\ FaultStop("bus_fault")
  BY <1>10, Zenon DEF InterruptAck, AckFirst, FaultStop, StopExecutor,
     Serve, busVars, histVars
<1>11. CASE InterruptAck /\ AckSecond /\ EnterService
  BY <1>11, Zenon DEF InterruptAck, AckSecond, EnterService, NextPhase,
     Serve, CommitCycle, gateVars, histVars
<1>12. CASE InterruptAck /\ AckSecond /\ FaultStop("bus_fault")
  BY <1>12, Zenon DEF InterruptAck, AckSecond, FaultStop, StopExecutor,
     Serve, busVars, histVars
<1>13. CASE InterruptAck /\ AckRefused
  BY <1>13, Zenon DEF InterruptAck, AckRefused, Serve, FaultStop,
     StopExecutor, busVars, histVars
<1>14. CASE EoiWrite
  BY <1>14, Zenon DEF EoiWrite, RetractRequest, CloseInService, Serve,
     CommitCycle, gateVars
<1>15. CASE IdlePrepare
  BY <1>15, Zenon DEF IdlePrepare, Serve, CommitCycle, countVars, histVars
<1>16. CASE UNCHANGED vars
  BY <1>16, Zenon DEF vars
<1> QED
  BY Zenon, <1>1, <1>2, <1>3, <1>4, <1>5, <1>6, <1>7, <1>8, <1>9, <1>10, <1>11,
     <1>12, <1>13, <1>14, <1>15, <1>16, <1>17 DEF Next, InterruptAck, AckFirst,
     AckSecond

(***************************************************************************)
(* The phase, the deadlines and the counters keep their ranges.            *)
(***************************************************************************)
LEMMA NumberStep == TypeOK /\ [Next]_vars => NumberTypes'
<1> SUFFICES ASSUME TypeOK, FlagTypes', [Next]_vars PROVE NumberTypes'
  BY FlagStep, Zenon DEF TypeOK
<1> USE TickConstants DEF TypeOK, FlagTypes, NumberTypes, Outcomes
<1>1. CASE AdvanceTime
  BY <1>1 DEF AdvanceTime, stateVars, gateVars, countVars, busVars,
     histVars
<1>2. CASE Start
  BY <1>2 DEF Start, ResetDelivery
<1>17. CASE StartFails
  BY <1>17 DEF StartFails, ResetDelivery, stateVars, gateVars, countVars,
     histVars
<1>3. CASE StopBetweenServices
  BY <1>3 DEF StopBetweenServices, StopExecutor, countVars, busVars,
     histVars
<1>4. CASE UpdatePeriodicTick
  <2>1. Elapsed \in Nat
    BY ElapsedNat, Zenon
  <2>2. Elapsed > 0 => Surplus \in Nat
    BY <2>1 DEF Surplus
  <2>3. NextDeadline \in Nat
    BY <2>1 DEF NextDeadline
  <2> QED
    BY <1>4, <2>1, <2>2, <2>3 DEF UpdatePeriodicTick, Generate,
       AssertRequest, gateVars, busVars, histVars
<1>5. CASE PlainCycle
  BY <1>5, CounterRange DEF PlainCycle, Serve, CommitCycle, stateVars,
     gateVars, countVars, histVars
<1>6. CASE NoCycle
  BY <1>6 DEF NoCycle, Serve, FaultStop, StopExecutor, stateVars, gateVars,
     countVars, busVars, histVars
<1>7. CASE TerminalHalt
  BY <1>7, Zenon DEF TerminalHalt, Serve, stateVars, gateVars, countVars, busVars,
     histVars
<1>8. CASE BusFault
  BY <1>8 DEF BusFault, Serve, FaultStop, StopExecutor, countVars, busVars,
     histVars
<1>9. CASE InterruptAck /\ AckFirst /\ AcceptRequest
  BY <1>9, CounterRange DEF InterruptAck, AckFirst, AcceptRequest, Serve,
     CommitCycle, gateVars, histVars
<1>10. CASE InterruptAck /\ AckFirst /\ FaultStop("bus_fault")
  BY <1>10 DEF InterruptAck, AckFirst, FaultStop, StopExecutor, Serve,
     busVars, histVars
<1>11. CASE InterruptAck /\ AckSecond /\ EnterService
  BY <1>11, CounterRange DEF InterruptAck, AckSecond, EnterService,
     NextPhase, Serve, CommitCycle, gateVars, histVars
<1>12. CASE InterruptAck /\ AckSecond /\ FaultStop("bus_fault")
  BY <1>12 DEF InterruptAck, AckSecond, FaultStop, StopExecutor, Serve,
     busVars, histVars
<1>13. CASE InterruptAck /\ AckRefused
  BY <1>13 DEF InterruptAck, AckRefused, Serve, FaultStop, StopExecutor,
     busVars, histVars
<1>14. CASE EoiWrite
  BY <1>14, CounterRange DEF EoiWrite, RetractRequest, CloseInService,
     Serve, CommitCycle, gateVars
<1>15. CASE IdlePrepare
  BY <1>15, CounterRange DEF IdlePrepare, Serve, CommitCycle, countVars,
     histVars
<1>16. CASE UNCHANGED vars
  BY <1>16, Zenon DEF vars
<1> QED
  BY Zenon, <1>1, <1>2, <1>3, <1>4, <1>5, <1>6, <1>7, <1>8, <1>9, <1>10, <1>11,
     <1>12, <1>13, <1>14, <1>15, <1>16, <1>17 DEF Next, InterruptAck, AckFirst,
     AckSecond

(***************************************************************************)
(* The tick state of workload_executor.c keeps its types.                  *)
(***************************************************************************)
THEOREM TypeCorrect == Spec => []TypeOK
<1>1. Init => FlagTypes
  BY Zenon DEF Init, FlagTypes
<1>2. Init => NumberTypes
  BY TickConstants DEF Init, NumberTypes, Outcomes
<1>3. TypeOK /\ [Next]_vars => TypeOK'
  BY FlagStep, NumberStep, Zenon DEF TypeOK
<1> QED
  BY <1>1, <1>2, <1>3, PTL DEF Spec, TypeOK

-----------------------------------------------------------------------------
(***************************************************************************)
(* What a step can do to the delivery state: nothing, end the source,      *)
(* start an attempt, or take one of the four steps of a tick.              *)
(***************************************************************************)
SourceKept == UNCHANGED <<active, stateVars, countVars, tick_next_us, start_us>>

SourceEnded ==
    /\ tick_enabled' = FALSE
    /\ tick_pending' = FALSE
    /\ tick_in_service' = FALSE
    /\ tick_intr_asserted' = FALSE
    /\ tick_ack_phase' = 0
    /\ intr' = FALSE

LEMMA StepKinds ==
    [Next]_vars =>
        \/ SourceKept
        \/ SourceEnded
        \/ Start
        \/ StartFails /\ ResetDelivery /\ tick_next_us' = 0
        \/ UpdatePeriodicTick
        \/ InterruptAck /\ AckFirst /\ AcceptRequest
        \/ InterruptAck /\ AckSecond /\ EnterService
        \/ EoiWrite /\ tick_enabled
<1> SUFFICES ASSUME [Next]_vars, ~Start, ~UpdatePeriodicTick,
                    ~(StartFails /\ ResetDelivery /\ tick_next_us' = 0),
                    ~(InterruptAck /\ AckFirst /\ AcceptRequest),
                    ~(InterruptAck /\ AckSecond /\ EnterService),
                    ~(EoiWrite /\ tick_enabled)
             PROVE  SourceKept \/ SourceEnded
  OBVIOUS
<1> USE DEF SourceKept, SourceEnded, stateVars, countVars, histVars
<1>1. CASE AdvanceTime \/ PlainCycle \/ TerminalHalt
  BY <1>1, Zenon DEF AdvanceTime, PlainCycle, TerminalHalt
<1>2. CASE StopBetweenServices \/ BusFault \/ IdlePrepare
  BY <1>2, Zenon DEF StopBetweenServices, BusFault, IdlePrepare, FaultStop, StopExecutor
<1>3. CASE NoCycle
  BY <1>3, Zenon DEF NoCycle, FaultStop, StopExecutor
<1>4. CASE InterruptAck
  <2>1. FaultStop("bus_fault") \/ FaultStop("refused_inta")
    BY <1>4, Zenon DEF InterruptAck, AckFirst, AckSecond, AckRefused
  <2> QED
    BY <2>1, Zenon DEF FaultStop, StopExecutor
<1>5. CASE EoiWrite
  BY <1>5, Zenon DEF EoiWrite, gateVars
<1>6. CASE StartFails
  BY <1>6, Zenon DEF StartFails
<1>7. CASE UNCHANGED vars
  BY <1>7, Zenon DEF vars
<1> QED
  BY <1>1, <1>2, <1>3, <1>4, <1>5, <1>6, <1>7, Zenon DEF Next

(***************************************************************************)
(* The flags of the delivery state never leave S0..S4, for an arbitrary    *)
(* processor and a Host that may stop the executor between any two cycles. *)
(***************************************************************************)
LEMMA DeliveryStep ==
    TypeOK /\ TypeOK' /\ DeliveryStates /\ [Next]_vars => DeliveryStates'
<1> SUFFICES ASSUME TypeOK, TypeOK', DeliveryStates, [Next]_vars
             PROVE  DeliveryStates'
  OBVIOUS
<1> USE DEF TypeOK, FlagTypes, NumberTypes, DeliveryStates, SlotBusy
<1>1. CASE SourceKept
  BY <1>1, Zenon DEF SourceKept, stateVars
<1>2. CASE SourceEnded
  BY <1>2, Zenon DEF SourceEnded
<1>3. CASE Start
  BY <1>3, Zenon DEF Start, ResetDelivery
<1>8. CASE StartFails /\ ResetDelivery /\ tick_next_us' = 0
  BY <1>8, Zenon DEF StartFails, ResetDelivery
<1>4. CASE UpdatePeriodicTick
  <2>1. CASE tick_enabled /\ ~idle_armed /\ Generate /\ AssertRequest
    BY <1>4, <2>1, ElapsedNat DEF UpdatePeriodicTick, Generate, AssertRequest,
       Deliverable
  <2>2. CASE UNCHANGED <<tick_pending, intr, tick_intr_asserted>>
    BY <1>4, <2>2, Zenon DEF UpdatePeriodicTick
  <2> QED
    BY <1>4, <2>1, <2>2, Zenon DEF UpdatePeriodicTick
<1>5. CASE InterruptAck /\ AckFirst /\ AcceptRequest
  BY <1>5, Zenon DEF AckFirst, AcceptRequest
<1>6. CASE InterruptAck /\ AckSecond /\ EnterService
  BY <1>6 DEF AckSecond, EnterService, NextPhase
<1>7. CASE EoiWrite /\ tick_enabled
  BY <1>7 DEF EoiWrite, RetractRequest, CloseInService
<1> QED
  BY <1>1, <1>2, <1>3, <1>4, <1>5, <1>6, <1>7, <1>8, StepKinds, Zenon

THEOREM DeliveryCorrect == Spec => []DeliveryStates
<1>1. Init => DeliveryStates
  BY Zenon DEF Init, DeliveryStates, SlotBusy
<1> QED
  BY <1>1, DeliveryStep, TypeCorrect, PTL DEF Spec

(***************************************************************************)
(* Every generated period is delivered, coalesced or pending; every        *)
(* delivered one is being acknowledged, in service or closed.              *)
(***************************************************************************)
LEMMA AccountingStep ==
    /\ TypeOK /\ TypeOK' /\ DeliveryStates
    /\ TickAccounting /\ [Next]_vars
    => TickAccounting'
<1> SUFFICES ASSUME TypeOK, TypeOK', DeliveryStates, TickAccounting, [Next]_vars
             PROVE  TickAccounting'
  OBVIOUS
<1> USE DEF TypeOK, FlagTypes, NumberTypes, TickAccounting, One
<1>1. CASE SourceKept
  BY <1>1, Zenon DEF SourceKept, stateVars, countVars
<1>2. CASE SourceEnded
  BY <1>2, Zenon DEF SourceEnded
<1>3. CASE Start
  BY <1>3 DEF Start, ResetDelivery
<1>8. CASE StartFails /\ ResetDelivery /\ tick_next_us' = 0
  BY <1>8 DEF StartFails, ResetDelivery
<1>4. CASE UpdatePeriodicTick
  <2>1. CASE tick_enabled /\ ~idle_armed /\ Generate /\ AssertRequest
    BY <1>4, <2>1, ElapsedNat DEF UpdatePeriodicTick, Generate, Surplus,
       SlotBusy, DeliveryStates
  <2>2. CASE UNCHANGED <<generated, tick_pending, delayed, coalesced>>
    BY <1>4, <2>2, Zenon DEF UpdatePeriodicTick
  <2> QED
    BY <1>4, <2>1, <2>2, Zenon DEF UpdatePeriodicTick
<1>5. CASE InterruptAck /\ AckFirst /\ AcceptRequest
  BY <1>5 DEF InterruptAck, AckFirst, AcceptRequest, DeliveryStates
<1>6. CASE InterruptAck /\ AckSecond /\ EnterService
  BY <1>6 DEF InterruptAck, AckSecond, EnterService, NextPhase, DeliveryStates
<1>7. CASE EoiWrite /\ tick_enabled
  <2>1. UNCHANGED <<tick_pending, tick_ack_phase, tick_enabled, generated,
                    delivered, acknowledged, delayed, coalesced>>
    BY <1>7, Zenon DEF EoiWrite, RetractRequest
  <2>2. CASE tick_in_service
    BY <1>7, <2>1, <2>2 DEF EoiWrite, CloseInService
  <2>3. CASE ~tick_in_service
    <3>1. tick_in_service' = tick_in_service /\ eoi' = eoi
      BY <1>7, <2>3, Zenon DEF EoiWrite, CloseInService
    <3> QED
      BY <1>7, <2>1, <2>3, <3>1, Zenon
  <2> QED
    BY <2>2, <2>3, Zenon
<1> QED
  BY <1>1, <1>2, <1>3, <1>4, <1>5, <1>6, <1>7, <1>8, StepKinds, Zenon

THEOREM AccountingCorrect == Spec => []TickAccounting
<1>1. Init => TickAccounting
  BY Zenon DEF Init, TickAccounting
<1> QED
  BY <1>1, AccountingStep, TypeCorrect, DeliveryCorrect, PTL DEF Spec

(***************************************************************************)
(* Generation is phase-locked to the start of the attempt.                 *)
(***************************************************************************)
LEMMA PhaseStep == TypeOK /\ TypeOK' /\ SourcePhase /\ [Next]_vars => SourcePhase'
<1> SUFFICES ASSUME TypeOK, TypeOK', SourcePhase, [Next]_vars,
                    active', tick_enabled'
             PROVE  tick_next_us' = start_us' + (generated' + 1) * Period
  BY Zenon DEF SourcePhase
<1> USE TickConstants DEF TypeOK, FlagTypes, NumberTypes, SourcePhase
<1>1. CASE SourceKept
  BY <1>1, Zenon DEF SourceKept, stateVars, countVars
<1>2. CASE SourceEnded
  BY <1>2, Zenon DEF SourceEnded
<1>3. CASE Start
  BY <1>3 DEF Start, ResetDelivery
<1>8. CASE StartFails /\ ResetDelivery /\ tick_next_us' = 0
  BY <1>8, Zenon DEF StartFails, ResetDelivery
<1>4. CASE UpdatePeriodicTick
  <2>1. CASE Generate
    <3>1. Elapsed \in Nat
      BY ElapsedNat, Zenon
    <3>2. tick_next_us = start_us + (generated + 1) * Period
      BY <1>4, Zenon DEF UpdatePeriodicTick
    <3>3. tick_next_us' = start_us + (generated + 1) * Period + Elapsed * Period
      BY <2>1, <3>2, Zenon DEF Generate, NextDeadline
    <3>4. generated' = generated + Elapsed /\ start_us' = start_us
      BY <1>4, <2>1, Zenon DEF UpdatePeriodicTick, Generate, histVars
    <3>5. (generated + 1) * Period + Elapsed * Period
            = (generated + Elapsed + 1) * Period
      BY <3>1
    <3> QED
      BY <3>1, <3>3, <3>4, <3>5
  <2>2. CASE UNCHANGED <<tick_next_us, generated>>
    BY <1>4, <2>2, Zenon DEF UpdatePeriodicTick, histVars
  <2> QED
    BY <1>4, <2>1, <2>2, Zenon DEF UpdatePeriodicTick
<1>5. CASE InterruptAck /\ AckFirst /\ AcceptRequest
  BY <1>5, Zenon DEF InterruptAck, AcceptRequest, histVars
<1>6. CASE InterruptAck /\ AckSecond /\ EnterService
  BY <1>6, Zenon DEF InterruptAck, EnterService, histVars
<1>7. CASE EoiWrite /\ tick_enabled
  BY <1>7, Zenon DEF EoiWrite
<1> QED
  BY <1>1, <1>2, <1>3, <1>4, <1>5, <1>6, <1>7, <1>8, StepKinds, Zenon

THEOREM PhaseCorrect == Spec => []SourcePhase
<1>1. Init => SourcePhase
  BY Zenon DEF Init, SourcePhase
<1> QED
  BY <1>1, PhaseStep, TypeCorrect, PTL DEF Spec

(***************************************************************************)
(* A pending request disappears only into INTA #1 or with its source.      *)
(***************************************************************************)
THEOREM PendingKept == Spec => PendingConsumedByAck
<1>1. TypeOK /\ TypeOK' /\ DeliveryStates /\ [Next]_vars =>
        [tick_pending /\ ~tick_pending' =>
           delivered' = delivered + 1 \/ ~tick_enabled']_vars
  <2> SUFFICES ASSUME TypeOK, TypeOK', DeliveryStates, [Next]_vars,
                      tick_pending, ~tick_pending', tick_enabled'
               PROVE  delivered' = delivered + 1
    OBVIOUS
  <2> USE DEF TypeOK, FlagTypes, NumberTypes
  <2>1. ~SourceKept
    BY Zenon DEF SourceKept, stateVars
  <2>2. ~SourceEnded
    BY Zenon DEF SourceEnded
  <2>3. ~UpdatePeriodicTick
    BY Zenon DEF UpdatePeriodicTick, Generate
  <2>4. ~EoiWrite
    BY Zenon DEF EoiWrite, RetractRequest
  <2>5. ~(InterruptAck /\ AckSecond /\ EnterService)
    BY Zenon DEF EnterService
  <2>6. ~Start /\ ~StartFails
    BY Zenon DEF Start, StartFails, DeliveryStates
  <2> QED
    BY <2>1, <2>2, <2>3, <2>4, <2>5, <2>6, StepKinds, Zenon DEF AckFirst
<1> QED
  BY <1>1, TypeCorrect, DeliveryCorrect, PTL DEF Spec, PendingConsumedByAck

-----------------------------------------------------------------------------
(***************************************************************************)
(* The recovery gates.  GateInv ties the two not_before fields to the last *)
(* EOI and the last fence, as long as the cycle counter has not wrapped.   *)
(***************************************************************************)
TimeGate ==
    \/ not_before_us = 0 /\ last_eoi_us = -Period
    \/ not_before_us = last_eoi_us + Period

ProgressGate ==
    \/ not_before_cycle = 0 /\ since_fence >= Recovery
    \/ since_fence <= cycles /\ not_before_cycle = cycles + Recovery - since_fence

GateInv ==
    /\ cycles = completed_cycles
    /\ completed_cycles <= MaxCycles
    /\ active /\ tick_enabled => TimeGate /\ ProgressGate

LEMMA ModSmall ==
    \A x \in Int : /\ 0 <= x /\ x < Modulus => x % Modulus = x
                  /\ -Modulus <= x /\ x < 0 => x % Modulus = x + Modulus
<1> SUFFICES ASSUME NEW x \in Int
             PROVE  /\ 0 <= x /\ x < Modulus => x % Modulus = x
                    /\ -Modulus <= x /\ x < 0 => x % Modulus = x + Modulus
  OBVIOUS
<1>1. Modulus \in Int /\ Modulus > 0
  BY TickConstants
<1>2. x = Modulus * (x \div Modulus) + (x % Modulus)
  BY <1>1
<1>3. x % Modulus \in 0 .. (Modulus - 1) /\ x \div Modulus \in Int
  BY <1>1
<1>4. \A q, r \in Int : x = Modulus * q + r /\ 0 <= r /\ r < Modulus =>
        /\ 0 <= x /\ x < Modulus => q = 0
        /\ -Modulus <= x /\ x < 0 => q = -1
  BY <1>1
<1> QED
  BY <1>1, <1>2, <1>3, <1>4

LEMMA ReachedMeansPassed ==
    ASSUME NoWrap, TypeOK, ProgressGate,
           CycleDeadlineReached(cycles, not_before_cycle)
    PROVE  since_fence >= Recovery
<1> SUFFICES ASSUME since_fence < Recovery PROVE FALSE
  BY TickConstants DEF TypeOK, NumberTypes
<1> USE TickConstants DEF TypeOK, NumberTypes
<1>1. since_fence <= cycles /\ not_before_cycle = cycles + Recovery - since_fence
  BY DEF ProgressGate
<1>2. (cycles - not_before_cycle) % Modulus = cycles - not_before_cycle + Modulus
  BY <1>1, ModSmall DEF NoWrap
<1>3. Modulus \div 2 \in Int /\ 2 * (Modulus \div 2) <= Modulus
  OBVIOUS
<1> QED
  BY <1>1, <1>2, <1>3 DEF NoWrap, CycleDeadlineReached

LEMMA CommitExact ==
    ASSUME NoWrap, TypeOK, GateInv, CommitCycle
    PROVE  /\ cycles' = cycles + 1 /\ completed_cycles' = completed_cycles + 1
           /\ completed_cycles' <= MaxCycles
           /\ FenceGate = cycles + Recovery + 1
<1> USE TickConstants DEF TypeOK, NumberTypes, NoWrap, GateInv, CommitCycle
<1>1. completed_cycles < MaxCycles /\ cycles = completed_cycles
  OBVIOUS
<1>2. (cycles + 1) % Modulus = cycles + 1
  BY <1>1, ModSmall
<1>3. (cycles + Recovery + 1) % Modulus = cycles + Recovery + 1
  BY <1>1, ModSmall
<1> QED
  BY <1>1, <1>2, <1>3 DEF FenceGate

LEMMA PlainKeepsGates ==
    ASSUME NoWrap, TypeOK, TypeOK', GateInv, CommitCycle,
           since_fence' = since_fence + 1,
           UNCHANGED <<active, tick_enabled, not_before_us, not_before_cycle,
                       last_eoi_us>>
    PROVE  GateInv'
<1>1. /\ cycles' = cycles + 1 /\ completed_cycles' = completed_cycles + 1
      /\ completed_cycles' <= MaxCycles
  BY CommitExact, Zenon
<1>2. ASSUME TimeGate PROVE TimeGate'
  BY <1>2, Zenon DEF TimeGate
<1>3. ASSUME ProgressGate PROVE ProgressGate'
  BY <1>1, <1>3, TickConstants DEF ProgressGate, TypeOK, NumberTypes
<1> QED
  BY <1>1, <1>2, <1>3, Zenon DEF GateInv, TypeOK, FlagTypes, NumberTypes

LEMMA GateStep ==
    ASSUME NoWrap, TypeOK, TypeOK', GateInv, [Next]_vars
    PROVE  GateInv'
<1> USE TickConstants DEF TypeOK, FlagTypes, NumberTypes, GateInv, TimeGate,
        ProgressGate
<1>1. CASE AdvanceTime \/ TerminalHalt \/ UpdatePeriodicTick
  BY <1>1, Zenon DEF AdvanceTime, TerminalHalt, UpdatePeriodicTick, Serve, stateVars,
     gateVars, busVars, histVars
<1>2. CASE Start
  BY <1>2 DEF Start, ResetDelivery
<1>3. CASE StartFails
  <2>1. cycles' = 0 /\ completed_cycles' = 0 /\ ~active'
    BY <1>3, Zenon DEF StartFails
  <2>2. cycles' = completed_cycles' /\ completed_cycles' <= MaxCycles
    BY <2>1
  <2> QED
    BY <2>1, <2>2, Zenon
<1>4. CASE StopBetweenServices \/ BusFault
  BY <1>4, Zenon DEF StopBetweenServices, BusFault, FaultStop, StopExecutor, busVars
<1>5. CASE NoCycle
  <2>1. UNCHANGED <<cycles, completed_cycles, since_fence, last_eoi_us>>
    BY <1>5, Zenon DEF NoCycle, FaultStop, busVars, histVars
  <2>2. \/ ~active'
        \/ UNCHANGED <<active, tick_enabled, not_before_us, not_before_cycle>>
    BY <1>5, Zenon DEF NoCycle, FaultStop, StopExecutor, stateVars, gateVars
  <2> QED
    BY <2>1, <2>2, Zenon
<1>6. CASE PlainCycle
  BY <1>6, PlainKeepsGates, Zenon DEF PlainCycle, stateVars, gateVars, histVars
<1>7. CASE InterruptAck
  <2>1. CASE AckFirst /\ AcceptRequest
    BY <1>7, <2>1, PlainKeepsGates, Zenon DEF InterruptAck, AcceptRequest, gateVars, histVars
  <2>2. CASE AckSecond /\ EnterService
    BY <1>7, <2>2, PlainKeepsGates, Zenon DEF InterruptAck, EnterService, gateVars,
       histVars
  <2>3. CASE FaultStop("bus_fault") \/ FaultStop("refused_inta")
    BY <1>7, <2>3, Zenon DEF FaultStop, StopExecutor, busVars
  <2> QED
    BY <1>7, <2>1, <2>2, <2>3, Zenon DEF InterruptAck, AckFirst, AckSecond, AckRefused
<1>8. CASE EoiWrite
  <2>1. CommitCycle
    BY <1>8, Zenon DEF EoiWrite
  <2>2. CASE tick_enabled
    <3>1. not_before_cycle' = FenceGate /\ since_fence' = 0 /\ CloseInService
      BY <1>8, <2>2, Zenon DEF EoiWrite
    <3>2. ProgressGate'
      <4>1. cycles' = cycles + 1 /\ not_before_cycle' = cycles + Recovery + 1
        BY <2>1, <3>1, CommitExact, Zenon
      <4> QED
        BY <3>1, <4>1
    <3>3. active' => TimeGate'
      BY <1>8, <2>2, <3>1, Zenon DEF EoiWrite, CloseInService
    <3> QED
      BY <2>1, <3>2, <3>3, CommitExact, Zenon
  <2>3. CASE ~tick_enabled
    BY <1>8, <2>1, <2>3, CommitExact, Zenon DEF EoiWrite
  <2> QED
    BY <2>2, <2>3, Zenon
<1>9. CASE IdlePrepare
  <2>1. CommitCycle /\ tick_enabled' = FALSE
    BY <1>9, Zenon DEF IdlePrepare
  <2> QED
    BY <2>1, CommitExact, Zenon
<1>10. CASE UNCHANGED vars
  BY <1>10, Zenon DEF vars
<1> QED
  BY <1>1, <1>2, <1>3, <1>4, <1>5, <1>6, <1>7, <1>8, <1>9, <1>10, Zenon DEF Next

LEMMA RecoveryStep ==
    ASSUME NoWrap, TypeOK, TypeOK', DeliveryStates, GateInv,
           RecoveryBeforeDelivery, [Next]_vars
    PROVE  RecoveryBeforeDelivery'
<1> SUFFICES ASSUME intr'
             PROVE  since_fence' >= Recovery /\ now' - last_eoi_us' >= Period
  BY Zenon DEF RecoveryBeforeDelivery
<1> USE TickConstants DEF TypeOK, FlagTypes, NumberTypes, RecoveryBeforeDelivery
<1>1. ~Start /\ ~StopBetweenServices /\ ~BusFault /\ ~IdlePrepare
  BY Zenon DEF Start, ResetDelivery, StopBetweenServices, BusFault, IdlePrepare,
     FaultStop, StopExecutor
<1>2. ~(StartFails /\ ResetDelivery)
  BY Zenon DEF ResetDelivery
<1>3. CASE AdvanceTime \/ TerminalHalt \/ PlainCycle
  <2>1. intr' = intr /\ last_eoi_us' = last_eoi_us
    BY <1>3, Zenon DEF AdvanceTime, TerminalHalt, PlainCycle, stateVars, histVars
  <2>2. now' >= now /\ since_fence' >= since_fence
    BY <1>3 DEF AdvanceTime, TerminalHalt, PlainCycle, busVars
  <2>3. since_fence >= Recovery /\ now - last_eoi_us >= Period
    BY <2>1, Zenon
  <2>4. since_fence' >= Recovery
    BY <2>2, <2>3
  <2>5. now' - last_eoi_us >= Period
    <3>1. now \in Int /\ now' \in Int /\ last_eoi_us \in Int /\ Period \in Int
      OBVIOUS
    <3>2. \A a, b, c, d \in Int : a >= b /\ b - c >= d => a - c >= d
      OBVIOUS
    <3> QED
      BY <2>2, <2>3, <3>1, <3>2, Zenon
  <2> QED
    BY <2>1, <2>4, <2>5, Zenon
<1>4. CASE StartFails
  BY <1>2, <1>4, Zenon DEF StartFails, stateVars, histVars
<1>5. CASE UpdatePeriodicTick
  <2>1. UNCHANGED <<now, since_fence, last_eoi_us>>
    BY <1>5, Zenon DEF UpdatePeriodicTick, busVars, histVars
  <2>2. CASE intr
    BY <2>1, <2>2, Zenon
  <2>3. CASE ~intr
    <3>1. active /\ tick_enabled /\ GatesOpen
      BY <1>5, <2>3, Zenon DEF UpdatePeriodicTick, AssertRequest, Deliverable
    <3>2. since_fence >= Recovery
      BY <3>1, ReachedMeansPassed, Zenon DEF GatesOpen, GateInv
    <3>3. now - last_eoi_us >= Period
      BY <3>1 DEF GatesOpen, GateInv, TimeGate
    <3> QED
      BY <2>1, <3>2, <3>3, Zenon
  <2> QED
    BY <2>2, <2>3, Zenon
<1>6. CASE NoCycle
  BY <1>6, Zenon DEF NoCycle, FaultStop, StopExecutor, stateVars, busVars, histVars
<1>7. CASE InterruptAck
  <2>1. AckSecond /\ EnterService
    BY <1>7, Zenon DEF InterruptAck, AckFirst, AcceptRequest, AckSecond, AckRefused,
       FaultStop, StopExecutor
  <2> QED
    BY <1>7, <2>1 DEF InterruptAck, EnterService, histVars
<1>8. CASE EoiWrite
  <2>1. ~tick_enabled
    BY <1>8, Zenon DEF EoiWrite, RetractRequest, DeliveryStates
  <2>2. intr' = intr /\ last_eoi_us' = last_eoi_us /\ now' = now
        /\ since_fence' = since_fence + 1
    BY <1>8, <2>1, Zenon DEF EoiWrite
  <2> QED
    BY <2>2
<1>9. CASE UNCHANGED vars
  BY <1>9, Zenon DEF vars
<1> QED
  BY <1>1, <1>3, <1>4, <1>5, <1>6, <1>7, <1>8, <1>9, Zenon DEF Next

(***************************************************************************)
(* In an attempt whose cycle counter does not wrap, INTR is never high     *)
(* before Recovery bus cycles have followed the last restore fence and a   *)
(* Period has followed the last EOI.                                       *)
(***************************************************************************)
THEOREM RecoveryCorrect ==
    ASSUME NoWrap
    PROVE  Spec => []RecoveryBeforeDelivery
<1>1. Init => GateInv /\ RecoveryBeforeDelivery
  BY TickConstants DEF Init, GateInv, RecoveryBeforeDelivery
<1>2. TypeOK /\ TypeOK' /\ GateInv /\ [Next]_vars => GateInv'
  BY GateStep, Zenon
<1>3. /\ TypeOK /\ TypeOK' /\ DeliveryStates /\ GateInv
      /\ RecoveryBeforeDelivery /\ [Next]_vars
      => RecoveryBeforeDelivery'
  BY RecoveryStep, Zenon
<1> QED
  BY <1>1, <1>2, <1>3, TypeCorrect, DeliveryCorrect, PTL DEF Spec

-----------------------------------------------------------------------------
(***************************************************************************)
(* A step of the composition is a step of the pipeline or one of the       *)
(* processor alone.                                                        *)
(***************************************************************************)
LEMMA PortStepRefines == [PortNext]_portVars => [Next]_vars
<1> SUFFICES ASSUME [PortNext]_portVars PROVE [Next]_vars
  OBVIOUS
<1>1. CASE PortStart \/ PortRuntime
  BY <1>1, Zenon DEF PortStart, PortRuntime, Next
<1>2. CASE SetInterruptFlag \/ SampleIntr \/ Yield \/ Iret
  BY <1>2, Zenon DEF SetInterruptFlag, SampleIntr, Yield, Iret, CpuStep
<1>3. CASE CodeCycle \/ QuietSteps \/ PortBusFault \/ PortInterruptAck
  BY <1>3, Zenon DEF CodeCycle, QuietSteps, PortBusFault, PortInterruptAck, Next
<1>4. CASE RestoreEoi \/ Exit \/ Halt \/ OtherWorkload
  BY <1>4, Zenon DEF RestoreEoi, Exit, Halt, OtherWorkload, Next
<1>5. CASE UNCHANGED portVars
  BY <1>5, Zenon DEF portVars
<1> QED
  BY <1>1, <1>2, <1>3, <1>4, <1>5, Zenon DEF PortNext

(***************************************************************************)
(* The port, like any workload of the executor, is one of the processors   *)
(* the pipeline is specified for: everything shown of TickPipeline holds of it.            *)
(***************************************************************************)
THEOREM PortImplementsPipeline == PortSpec => Spec
<1>1. PortInit => Init
  BY Zenon DEF PortInit
<1> QED
  BY <1>1, PortStepRefines, PTL DEF PortSpec, Spec

-----------------------------------------------------------------------------
(***************************************************************************)
(* The inductive invariant of the composition.  A service is only entered  *)
(* by a running attempt, and what the executor holds for the interrupt is  *)
(* decided by where the processor is.                                      *)
(***************************************************************************)
ServingIsRunning == pc = "cycle" /\ cpu # "any" => active /\ outcome = "none"

HandlerAgreement ==
    active /\ cpu # "any" =>
        /\ tick_in_service = (cpu = "tick_isr")
        /\ (tick_ack_phase = 1) = (cpu = "inta2")
        /\ cpu = "inta" => tick_intr_asserted

CpuTypes ==
    /\ cpu \in {"masked", "task", "inta", "inta2", "tick_isr", "yield_isr",
                "restore", "exit", "any"}
    /\ foreground \in Nat
    /\ restored \in 0 .. RestoreCycles

PortInv ==
    /\ CpuTypes
    /\ ServingIsRunning
    /\ HandlerAgreement
    /\ InterruptNeverRefused

(***************************************************************************)
(* Counting the cycles since the fence: once a tick has been closed, all   *)
(* of them were restore or foreground cycles by the time a task runs.      *)
(***************************************************************************)
Counting == cpu \in {"masked", "task", "inta", "restore"}

FenceInv ==
    active /\ cpu # "any" /\ eoi > 0 =>
        /\ cpu # "exit" => tick_enabled
        /\ Counting => since_fence <= foreground + restored

(* The processor keeps to its workload.                                    *)
LEMMA WorkloadStays ==
    ASSUME [PortNext]_portVars
    PROVE  /\ cpu' = "any" <=> cpu = "any"
           /\ cpu = "any" => OtherWorkload \/ UNCHANGED portVars
<1>1. CASE PortStart \/ PortRuntime \/ QuietSteps \/ PortBusFault \/ Halt \/ OtherWorkload
  BY <1>1, Zenon DEF PortStart, PortRuntime, QuietSteps, PortBusFault, Halt, OtherWorkload
<1>2. CASE SetInterruptFlag \/ SampleIntr \/ Yield \/ Iret
  BY <1>2, Zenon DEF SetInterruptFlag, SampleIntr, Yield, Iret, CpuStep
<1>3. CASE CodeCycle \/ PortInterruptAck \/ RestoreEoi \/ Exit
  BY <1>3, Zenon DEF CodeCycle, PortInterruptAck, RestoreEoi, Exit
<1>4. CASE UNCHANGED portVars
  BY <1>4, Zenon DEF portVars
<1> QED
  BY <1>1, <1>2, <1>3, <1>4, Zenon DEF PortNext

LEMMA CpuTypesStep ==
    CpuTypes /\ [PortNext]_portVars => CpuTypes'
<1> SUFFICES ASSUME CpuTypes, [PortNext]_portVars PROVE CpuTypes'
  OBVIOUS
<1> USE RestoreConstant, TickConstants DEF CpuTypes
<1>1. CASE PortStart \/ RestoreEoi
  BY <1>1 DEF PortStart, RestoreEoi
<1>2. CASE PortRuntime \/ QuietSteps \/ PortBusFault \/ Halt \/ OtherWorkload
  BY <1>2, Zenon DEF PortRuntime, QuietSteps, PortBusFault, Halt, OtherWorkload
<1>3. CASE SetInterruptFlag \/ SampleIntr \/ Yield \/ Iret
  BY <1>3, Zenon DEF SetInterruptFlag, SampleIntr, Yield, Iret, CpuStep
<1>4. CASE CodeCycle
  BY <1>4 DEF CodeCycle
<1>5. CASE PortInterruptAck \/ Exit
  BY <1>5, Zenon DEF PortInterruptAck, Exit
<1>6. CASE UNCHANGED portVars
  BY <1>6, Zenon DEF portVars
<1> QED
  BY <1>1, <1>2, <1>3, <1>4, <1>5, <1>6, Zenon DEF PortNext

(***************************************************************************)
(* The INTA cycles of the port find the phase they expect.                 *)
(***************************************************************************)
LEMMA AckAccepted ==
    ASSUME TypeOK, DeliveryStates, PortInv, PortInterruptAck
    PROVE  \/ /\ cpu = "inta" /\ cpu' = "inta2"
              /\ AckFirst /\ AcceptRequest
           \/ /\ cpu = "inta2" /\ cpu' = "tick_isr"
              /\ AckSecond /\ EnterService
           \/ FaultStop("bus_fault")
<1> USE DEF TypeOK, FlagTypes, NumberTypes, DeliveryStates, SlotBusy
<1>1. active
  BY Zenon DEF PortInv, ServingIsRunning, PortInterruptAck, InterruptAck, Serve
<1>2. CASE cpu = "inta" /\ cpu' = "inta2"
  <2>1. tick_intr_asserted /\ tick_enabled /\ tick_ack_phase = 0
    BY <1>1, <1>2, Zenon DEF PortInv, HandlerAgreement
  <2> QED
    BY <1>2, <2>1 DEF PortInterruptAck, InterruptAck, AckFirst, AckSecond,
       AckRefused
<1>3. CASE cpu = "inta2" /\ cpu' = "tick_isr"
  <2>1. tick_ack_phase = 1 /\ tick_enabled
    BY <1>1, <1>3 DEF PortInv, HandlerAgreement
  <2> QED
    BY <1>3, <2>1 DEF PortInterruptAck, InterruptAck, AckFirst, AckSecond,
       AckRefused
<1> QED
  BY <1>2, <1>3, Zenon DEF PortInterruptAck

LEMMA PortInvStep ==
    ASSUME TypeOK, TypeOK', DeliveryStates, DeliveryStates', PortInv,
           [PortNext]_portVars
    PROVE  PortInv'
<1> SUFFICES ASSUME cpu # "any"
             PROVE  ServingIsRunning' /\ HandlerAgreement' /\ InterruptNeverRefused'
  BY CpuTypesStep, WorkloadStays, Zenon
     DEF PortInv, ServingIsRunning, HandlerAgreement, InterruptNeverRefused
<1> USE DEF TypeOK, FlagTypes, NumberTypes, PortInv, ServingIsRunning,
        HandlerAgreement, InterruptNeverRefused
<1>1. CASE PortStart
  BY <1>1 DEF PortStart, Start, ResetDelivery
<1>2. CASE PortRuntime
  <2>1. CASE AdvanceTime
    BY <1>2, <2>1, Zenon DEF PortRuntime, AdvanceTime, stateVars
  <2>2. CASE StartFails
    BY <1>2, <2>2, Zenon DEF PortRuntime, StartFails
  <2>3. CASE StopBetweenServices
    BY <1>2, <2>3, Zenon DEF PortRuntime, StopBetweenServices, StopExecutor
  <2>4. CASE UpdatePeriodicTick
    <3>1. /\ UNCHANGED <<active, tick_in_service, tick_ack_phase, outcome>>
          /\ active /\ outcome = "none"
          /\ tick_intr_asserted => tick_intr_asserted'
      BY <2>4 DEF UpdatePeriodicTick, AssertRequest
    <3> QED
      BY <1>2, <3>1, Zenon DEF PortRuntime
  <2> QED
    BY <1>2, <2>1, <2>2, <2>3, <2>4, Zenon DEF PortRuntime
<1>3. CASE SetInterruptFlag \/ Yield \/ Iret
  BY <1>3, Zenon DEF SetInterruptFlag, Yield, Iret, CpuStep, vars
<1>4. CASE SampleIntr
  BY <1>4, Zenon DEF SampleIntr, CpuStep, vars, DeliveryStates
<1>5. CASE CodeCycle
  BY <1>5, Zenon DEF CodeCycle, PlainCycle, Serve, stateVars
<1>6. CASE QuietSteps
  BY <1>6, Zenon DEF QuietSteps, NoCycle, Serve, FaultStop, StopExecutor, stateVars
<1>7. CASE PortBusFault
  BY <1>7, Zenon DEF PortBusFault, BusFault, Serve, FaultStop, StopExecutor
<1>8. CASE PortInterruptAck
  <2>1. pc' = "update" /\ active
    BY <1>8, Zenon DEF PortInterruptAck, InterruptAck, Serve
  <2>2. CASE cpu = "inta" /\ cpu' = "inta2" /\ AckFirst /\ AcceptRequest
    BY <2>1, <2>2, Zenon DEF AckFirst, AcceptRequest
  <2>3. CASE cpu = "inta2" /\ cpu' = "tick_isr" /\ AckSecond /\ EnterService
    <3>1. tick_in_service' = TRUE /\ tick_ack_phase' = 0 /\ outcome' = outcome
      BY <2>3, Zenon DEF EnterService, NextPhase
    <3>2. tick_in_service' = (cpu' = "tick_isr") /\ cpu' # "inta2"
      BY <2>3, <3>1, Zenon
    <3> QED
      BY <2>1, <2>3, <3>1, <3>2
  <2>4. CASE FaultStop("bus_fault")
    BY <2>1, <2>4, Zenon DEF FaultStop, StopExecutor
  <2> QED
    BY <1>8, <2>2, <2>3, <2>4, AckAccepted, Zenon
<1>9. CASE RestoreEoi
  <2>1. /\ pc' = "update" /\ active /\ cpu' = "restore"
        /\ UNCHANGED <<active, tick_ack_phase, outcome>>
    BY <1>9, Zenon DEF RestoreEoi, EoiWrite, Serve
  <2>2. ~tick_in_service'
    BY <1>9, <2>1, Zenon DEF RestoreEoi, EoiWrite, CloseInService, DeliveryStates,
       SlotBusy
  <2>3. tick_ack_phase # 1
    BY <1>9, <2>1, Zenon DEF RestoreEoi
  <2> QED
    BY <2>1, <2>2, <2>3, Zenon
<1>10. CASE Exit
  BY <1>10, Zenon DEF Exit, IdlePrepare, Serve
<1>11. CASE Halt
  BY <1>11, Zenon DEF Halt, TerminalHalt, Serve, stateVars
<1>12. CASE UNCHANGED portVars
  BY <1>12, Zenon DEF portVars, vars
<1> QED
  BY <1>1, <1>2, <1>3, <1>4, <1>5, <1>6, <1>7, <1>8, <1>9, <1>10, <1>11, <1>12, Zenon
     DEF PortNext, OtherWorkload

LEMMA PortInvariant == PortSpec => [](TypeOK /\ DeliveryStates /\ PortInv)
<1>1. PortInit => PortInv
  BY RestoreConstant, TickConstants DEF PortInit, Init, PortInv, CpuTypes,
     ServingIsRunning, HandlerAgreement, InterruptNeverRefused
<1>2. /\ TypeOK /\ TypeOK' /\ DeliveryStates /\ DeliveryStates' /\ PortInv
      /\ [PortNext]_portVars
      => PortInv'
  BY PortInvStep, Zenon
<1> QED
  BY <1>1, <1>2, PortImplementsPipeline, TypeCorrect, DeliveryCorrect, PTL
     DEF PortSpec

(***************************************************************************)
(* No INTA cycle of the port is ever refused, whenever the source is       *)
(* updated, fenced or shut down.                                           *)
(***************************************************************************)
THEOREM NeverRefused == PortSpec => []InterruptNeverRefused
<1>1. PortInv => InterruptNeverRefused
  BY Zenon DEF PortInv
<1> QED
  BY <1>1, PortInvariant, PTL

(***************************************************************************)
(* The executor's interrupt state is the one of the handler that runs: the *)
(* OUT 20h of the tick handler is always taken as the real EOI, and the    *)
(* OUT 20h of a yield never.                                               *)
(***************************************************************************)
THEOREM ServiceIsHandler == PortSpec => []ServiceMatchesHandler
<1>1. TypeOK /\ PortInv => ServiceMatchesHandler
  BY Zenon DEF PortInv, CpuTypes, HandlerAgreement, ServiceMatchesHandler, PortTypeOK
<1> QED
  BY <1>1, PortInvariant, PTL

-----------------------------------------------------------------------------
LEMMA FenceStep ==
    ASSUME TypeOK, TypeOK', DeliveryStates, PortInv, PortInv', FenceInv,
           [PortNext]_portVars
    PROVE  FenceInv'
<1> SUFFICES ASSUME active', cpu' # "any", eoi' > 0
             PROVE  /\ cpu' # "exit" => tick_enabled'
                    /\ Counting' => since_fence' <= foreground' + restored'
  BY Zenon DEF FenceInv
<1> cpu # "any"
  BY WorkloadStays, Zenon
<1> USE RestoreConstant, TickConstants
    DEF TypeOK, FlagTypes, NumberTypes, PortInv, CpuTypes, FenceInv, Counting
<1>1. CASE PortStart
  BY <1>1 DEF PortStart, Start, ResetDelivery
<1>2. CASE PortRuntime
  <2>1. CASE AdvanceTime \/ UpdatePeriodicTick
    <3>1. UNCHANGED <<active, eoi, cpu, foreground, restored, tick_enabled, since_fence>>
      BY <1>2, <2>1, Zenon DEF PortRuntime, AdvanceTime, UpdatePeriodicTick, stateVars,
         countVars, busVars
    <3> QED
      BY <3>1, Zenon
  <2>2. ~StartFails /\ ~StopBetweenServices
    BY Zenon DEF StartFails, StopBetweenServices, StopExecutor
  <2> QED
    BY <1>2, <2>1, <2>2, Zenon DEF PortRuntime
<1>3. CASE SetInterruptFlag \/ SampleIntr \/ Yield \/ Iret
  BY <1>3, Zenon DEF SetInterruptFlag, SampleIntr, Yield, Iret, CpuStep, vars
<1>4. CASE CodeCycle
  <2>1. /\ UNCHANGED <<active, tick_enabled, eoi, cpu>>
        /\ cpu # "exit" /\ since_fence' = since_fence + 1
    BY <1>4, Zenon DEF CodeCycle, PlainCycle, stateVars, countVars
  <2>2. Counting => foreground' + restored' = foreground + restored + 1
    BY <1>4 DEF CodeCycle
  <2>3. tick_enabled /\ (Counting => since_fence <= foreground + restored)
    BY <2>1, Zenon
  <2>4. ASSUME Counting' PROVE since_fence' <= foreground' + restored'
    <3>1. since_fence <= foreground + restored
          /\ foreground' + restored' = foreground + restored + 1
      BY <2>1, <2>2, <2>3, <2>4, Zenon
    <3>2. since_fence \in Int /\ foreground + restored \in Int
      OBVIOUS
    <3>3. \A a, b \in Int : a <= b => a + 1 <= b + 1
      OBVIOUS
    <3> QED
      BY <2>1, <3>1, <3>2, <3>3, Zenon
  <2> QED
    BY <2>1, <2>3, <2>4, Zenon
<1>5. CASE QuietSteps
  <2>1. UNCHANGED <<cpu, foreground, restored, eoi>>
    BY <1>5, Zenon DEF QuietSteps, NoCycle, countVars
  <2>2. UNCHANGED <<active, tick_enabled, since_fence>>
    BY <1>5, Zenon DEF QuietSteps, NoCycle, FaultStop, StopExecutor, stateVars, busVars
  <2> QED
    BY <2>1, <2>2, Zenon
<1>6. CASE PortBusFault
  BY <1>6, Zenon DEF PortBusFault, BusFault, FaultStop, StopExecutor
<1>7. CASE PortInterruptAck
  <2>1. cpu' \in {"inta2", "tick_isr"} /\ eoi' = eoi
    BY <1>7, Zenon DEF PortInterruptAck, InterruptAck
  <2>2. cpu # "exit" /\ active /\ tick_enabled' = tick_enabled
    BY <1>7, AckAccepted, Zenon DEF PortInterruptAck, AcceptRequest, EnterService,
       FaultStop, StopExecutor
  <2> QED
    BY <2>1, <2>2, Zenon
<1>8. CASE RestoreEoi
  <2>1. cpu # "exit" /\ active /\ tick_enabled' = tick_enabled
        /\ foreground' = 0 /\ restored' = 0
    BY <1>8, Zenon DEF RestoreEoi, EoiWrite
  <2>2. tick_enabled
    BY <1>8, <2>1, Zenon DEF RestoreEoi, EoiWrite
  <2>3. since_fence' = 0
    BY <1>8, <2>2, Zenon DEF RestoreEoi, EoiWrite
  <2> QED
    BY <2>1, <2>2, <2>3
<1>9. CASE Exit
  BY <1>9, Zenon DEF Exit
<1>10. CASE Halt
  BY <1>10, Zenon DEF Halt, TerminalHalt, stateVars, countVars, busVars
<1>11. CASE UNCHANGED portVars
  BY <1>11, Zenon DEF portVars, vars
<1> QED
  BY <1>1, <1>2, <1>3, <1>4, <1>5, <1>6, <1>7, <1>8, <1>9, <1>10, <1>11, Zenon
     DEF PortNext, OtherWorkload

(***************************************************************************)
(* In an attempt whose cycle counter does not wrap, a restored task has    *)
(* had at least Recovery - RestoreCycles bus cycles of its own before the  *)
(* next tick takes the processor.                                          *)
(***************************************************************************)
THEOREM TasksProgress ==
    ASSUME NoWrap
    PROVE  PortSpec => []ForegroundProgress
<1>1. PortInit => FenceInv
  BY Zenon DEF PortInit, Init, FenceInv
<1>2. /\ TypeOK /\ TypeOK' /\ DeliveryStates /\ PortInv /\ PortInv'
      /\ FenceInv /\ [PortNext]_portVars
      => FenceInv'
  BY FenceStep, Zenon
<1>3. /\ TypeOK /\ DeliveryStates /\ PortInv /\ FenceInv /\ RecoveryBeforeDelivery
      => ForegroundProgress
  <2> SUFFICES ASSUME TypeOK, DeliveryStates, PortInv, FenceInv,
                      RecoveryBeforeDelivery, active, cpu = "inta", eoi > 0
               PROVE  foreground >= Recovery - RestoreCycles
    BY Zenon DEF ForegroundProgress
  <2>1. intr
    BY Zenon DEF PortInv, HandlerAgreement, DeliveryStates
  <2>2. since_fence >= Recovery
    BY <2>1, Zenon DEF RecoveryBeforeDelivery
  <2>3. since_fence <= foreground + restored
    BY Zenon DEF FenceInv, Counting
  <2> QED
    BY <2>2, <2>3, TickConstants, RestoreConstant
       DEF PortInv, CpuTypes, TypeOK, NumberTypes
<1>4. Spec => []RecoveryBeforeDelivery
  BY RecoveryCorrect, Zenon
<1> QED
  BY <1>1, <1>2, <1>3, <1>4, PortImplementsPipeline, PortInvariant, PTL
     DEF PortSpec

-----------------------------------------------------------------------------
(***************************************************************************)
(* The disk.                                                               *)
(***************************************************************************)
Positions == 0 .. PerBlock - 1

DiskTypes ==
    /\ flash \in [Sectors -> Contents]
    /\ written \in [Sectors -> Contents]
    /\ cache \in [Positions -> Contents]
    /\ value \in Contents

(* disk_write stays inside the volume.                                     *)
RangePart == call = "write" => at \in Sectors /\ left \in Nat \ {0} /\ at + left <= SectorCount

(* Only a valid cache can be dirty, and only a dirty one is written back.  *)
CachePart == (cacheDirty => cacheValid) /\ (erasing => cacheDirty)

(* The chip lags behind FatFs only in the block that is dirty.             *)
ChipPart == \A s \in Sectors : flash[s] = written[s] \/ (cacheDirty /\ BlockOf(s) = cacheBlock)

DiskInv == DiskTypes /\ RangePart /\ CachePart /\ ChipPart /\ ReadsSeeWrites

-----------------------------------------------------------------------------
(* A sector is given by its block and its position in it.                  *)
LEMMA SectorPlace ==
  ASSUME NEW s \in Sectors
  PROVE  /\ Within(s) \in Positions
         /\ s = BlockOf(s) * PerBlock + Within(s)
<1>1. s \in Nat /\ PerBlock \in Nat \ {0}
  BY DiskAssumption DEF Sectors
<1>2. s % PerBlock \in 0 .. PerBlock - 1 /\ s \div PerBlock \in Nat
  BY <1>1
<1>3. s = (s \div PerBlock) * PerBlock + (s % PerBlock)
  BY <1>1
<1>. QED  BY <1>2, <1>3, Zenon DEF Within, BlockOf, Positions

LEMMA SamePlace ==
  ASSUME NEW s \in Sectors, NEW t \in Sectors, BlockOf(s) = BlockOf(t), Within(s) = Within(t)
  PROVE  s = t
  BY SectorPlace, Zenon

(* The last block is whole, so reading it into the cache stays on the chip.*)
LEMMA LoadedHolds ==
  ASSUME DiskTypes, NEW s \in Sectors
  PROVE  /\ Loaded(BlockOf(s)) \in [Positions -> Contents]
         /\ \A t \in Sectors : BlockOf(t) = BlockOf(s) =>
               Loaded(BlockOf(s))[Within(t)] = flash[t]
<1>. DEFINE b == BlockOf(s)
<1>1. /\ SectorCount \in Nat \ {0} /\ PerBlock \in Nat \ {0}
      /\ SectorCount = (SectorCount \div PerBlock) * PerBlock
      /\ SectorCount \div PerBlock \in Nat /\ b \in Nat
      /\ b * PerBlock <= s /\ s < SectorCount
  <2>1. SectorCount \in Nat \ {0} /\ PerBlock \in Nat \ {0} /\ SectorCount % PerBlock = 0
    BY DiskAssumption, Zenon
  <2>2. SectorCount = (SectorCount \div PerBlock) * PerBlock + (SectorCount % PerBlock)
    BY <2>1
  <2>3. SectorCount \div PerBlock \in Nat
    BY <2>1
  <2>4. SectorCount = (SectorCount \div PerBlock) * PerBlock
    BY <2>1, <2>2, <2>3
  <2>5. s \in Nat /\ s < SectorCount /\ b \in Nat
    BY <2>1 DEF Sectors, BlockOf
  <2>6. b * PerBlock <= s
    BY <2>1, <2>5, SectorPlace DEF Positions
  <2>. QED  BY <2>1, <2>3, <2>4, <2>5, <2>6, Zenon
<1>2. ASSUME NEW w \in Positions PROVE b * PerBlock + w \in Sectors
  <2>. DEFINE n == SectorCount \div PerBlock
  <2>1. b * PerBlock < n * PerBlock
    BY <1>1 DEF Sectors
  <2>2. b + 1 <= n
    BY <1>1, <2>1
  <2>3. (b + 1) * PerBlock <= n * PerBlock
    BY <1>1, <2>2
  <2>4. b * PerBlock + PerBlock <= SectorCount
    BY <1>1, <2>3
  <2>5. b * PerBlock \in Nat /\ w \in Nat /\ w < PerBlock
    BY <1>1 DEF Positions
  <2>. HIDE DEF b
  <2>. QED  BY <1>1, <2>4, <2>5 DEF Sectors
<1>3. Loaded(b) \in [Positions -> Contents]
  BY <1>2, Zenon DEF Loaded, DiskTypes, Positions
<1>4. ASSUME NEW t \in Sectors, BlockOf(t) = b PROVE Loaded(b)[Within(t)] = flash[t]
  BY <1>4, SectorPlace, Zenon DEF Loaded, Positions
<1>. QED  BY <1>3, <1>4, Zenon

-----------------------------------------------------------------------------
(* The blank disk satisfies the invariant.                                 *)
LEMMA DiskInitially == DiskInit => DiskInv
<1>. SUFFICES ASSUME DiskInit PROVE DiskInv
  OBVIOUS
<1>1. DiskTypes
  BY Zenon DEF DiskInit, DiskTypes, Blank, Positions, Contents
<1>2. RangePart /\ CachePart
  BY Zenon DEF DiskInit, RangePart, CachePart
<1>3. ChipPart /\ ReadsSeeWrites
  BY Zenon DEF DiskInit, ChipPart, ReadsSeeWrites, View
<1>. QED  BY <1>1, <1>2, <1>3, Zenon DEF DiskInv

(* A step that changes neither chip, cache nor history keeps what they say.*)
LEMMA DiskAtRest ==
  ASSUME DiskInv,
         UNCHANGED <<flash, cacheVars, cacheDirty, erasing, written>>,
         value' \in Contents,
         RangePart'
  PROVE  DiskInv'
<1>1. DiskTypes' /\ CachePart'
  BY Zenon DEF DiskInv, DiskTypes, CachePart, cacheVars
<1>2. ChipPart' /\ ReadsSeeWrites'
  BY Zenon DEF DiskInv, ChipPart, ReadsSeeWrites, View, cacheVars
<1>. QED  BY <1>1, <1>2, Zenon DEF DiskInv

(* A dirty block that is on the chip already need not be written back.     *)
LEMMA FlushIsIdleKeeps == DiskInv /\ FlushIsIdle => DiskInv'
<1>. SUFFICES ASSUME DiskInv, FlushIsIdle PROVE DiskInv'
  OBVIOUS
<1>1. /\ UNCHANGED <<flash, cache, cacheBlock, cacheValid, call, at, left, value, erasing, written>>
      /\ cacheDirty' = FALSE /\ cacheDirty /\ ~erasing
      /\ \A s \in InBlock(cacheBlock) : flash[s] = cache[Within(s)]
  BY Zenon DEF FlushIsIdle, Flushing, cacheVars, callVars
<1>2. DiskTypes' /\ RangePart' /\ CachePart'
  BY <1>1, Zenon DEF DiskInv, DiskTypes, RangePart, CachePart
<1>3. ReadsSeeWrites'
  BY <1>1, Zenon DEF DiskInv, ReadsSeeWrites, View
<1>4. ASSUME NEW s \in Sectors PROVE flash[s] = written[s]
  <2>1. CASE BlockOf(s) = cacheBlock
    <3>1. cacheValid
      BY <1>1, Zenon DEF DiskInv, CachePart
    <3>2. View(s) = cache[Within(s)]
      BY <2>1, <3>1, Zenon DEF View
    <3>. QED  BY <1>1, <2>1, <3>2, Zenon DEF DiskInv, ReadsSeeWrites, InBlock
  <2>2. CASE BlockOf(s) # cacheBlock
    BY <2>2, Zenon DEF DiskInv, ChipPart
  <2>. QED  BY <2>1, <2>2, Zenon
<1>5. ChipPart'
  BY <1>1, <1>4, Zenon DEF ChipPart
<1>. QED  BY <1>2, <1>3, <1>5, Zenon DEF DiskInv

(* Erasing touches only the dirty block, which is read from the cache.     *)
LEMMA EraseKeeps == DiskInv /\ Erase => DiskInv'
<1>. SUFFICES ASSUME DiskInv, Erase PROVE DiskInv'
  OBVIOUS
<1>1. /\ UNCHANGED <<cache, cacheBlock, cacheValid, cacheDirty, call, at, left, value, written>>
      /\ cacheDirty /\ erasing' = TRUE
      /\ flash' = [s \in Sectors |-> IF BlockOf(s) = cacheBlock THEN Erased ELSE flash[s]]
  BY Zenon DEF Erase, Flushing, FlushedBlock, cacheVars, callVars
<1>2. DiskTypes'
  BY <1>1, Zenon DEF DiskInv, DiskTypes, Contents
<1>3. RangePart' /\ CachePart'
  BY <1>1, Zenon DEF DiskInv, RangePart, CachePart
<1>4. ChipPart'
  BY <1>1, Zenon DEF DiskInv, ChipPart
<1>5. ReadsSeeWrites'
  BY <1>1, Zenon DEF DiskInv, ReadsSeeWrites, View, CachePart
<1>. QED  BY <1>2, <1>3, <1>4, <1>5, Zenon DEF DiskInv

(* Programming, verified or not, also touches only the dirty block.        *)
LEMMA ProgramKeeps ==
  ASSUME DiskInv, NEW bad \in SUBSET InBlock(FlushedBlock), Program(bad)
  PROVE  DiskInv'
<1>1. /\ UNCHANGED <<cache, cacheBlock, cacheValid, at, left, value, written>>
      /\ erasing /\ erasing' = FALSE /\ cacheDirty /\ cacheValid
      /\ call' = call \/ call' = "none"
      /\ cacheDirty' = cacheDirty \/ (cacheDirty' = FALSE /\ bad = {})
      /\ flash' = [s \in Sectors |-> IF BlockOf(s) # cacheBlock THEN flash[s]
                                     ELSE IF s \in bad THEN Garbage ELSE cache[Within(s)]]
  <2>1. /\ erasing /\ erasing' = FALSE
        /\ flash' = [s \in Sectors |-> IF BlockOf(s) # cacheBlock THEN flash[s]
                                       ELSE IF s \in bad THEN Garbage ELSE cache[Within(s)]]
    BY Zenon DEF Program, FlushedBlock
  <2>2. cacheDirty /\ cacheValid
    BY <2>1, Zenon DEF DiskInv, CachePart
  <2>3. CASE bad = {}
    BY <2>1, <2>2, <2>3, Zenon DEF Program, Verified, cacheVars, callVars
  <2>4. CASE bad # {}
    BY <2>1, <2>2, <2>4, Zenon DEF Program, Verified, FlushFails, cacheVars
  <2>. QED  BY <2>3, <2>4, Zenon
<1>2. DiskTypes'
  <2>1. \A s \in Sectors : cache[Within(s)] \in Contents
    BY SectorPlace, Zenon DEF DiskInv, DiskTypes
  <2>. QED  BY <1>1, <2>1, Zenon DEF DiskInv, DiskTypes, Contents
<1>3. RangePart' /\ CachePart'
  BY <1>1, Zenon DEF DiskInv, RangePart, CachePart
<1>4. ReadsSeeWrites'
  BY <1>1, Zenon DEF DiskInv, ReadsSeeWrites, View
<1>5. ASSUME NEW s \in Sectors, BlockOf(s) = cacheBlock, bad = {}
      PROVE  flash'[s] = written[s]
  <2>1. View(s) = cache[Within(s)]
    BY <1>1, <1>5, Zenon DEF View
  <2>. QED  BY <1>1, <1>5, <2>1, Zenon DEF DiskInv, ReadsSeeWrites
<1>6. ASSUME NEW s \in Sectors, BlockOf(s) # cacheBlock
      PROVE  flash'[s] = written[s]
  BY <1>1, <1>6, Zenon DEF DiskInv, ChipPart
<1>7. ChipPart'
  BY <1>1, <1>5, <1>6, Zenon DEF ChipPart
<1>. QED  BY <1>2, <1>3, <1>4, <1>7, Zenon DEF DiskInv
(* One sector is copied into the cache, which holds its block by then.     *)
LEMMA CopySectorKeeps == DiskInv /\ CopySector => DiskInv'
<1>. SUFFICES ASSUME DiskInv, CopySector PROVE DiskInv'
  OBVIOUS
<1>. DEFINE block == IF Selected THEN cache ELSE Loaded(BlockOf(at))
<1>1. /\ call = "write" /\ (Selected \/ ~cacheDirty)
      /\ cache' = [block EXCEPT ![Within(at)] = value]
      /\ cacheBlock' = BlockOf(at) /\ cacheValid' = TRUE /\ cacheDirty' = TRUE
      /\ written' = [written EXCEPT ![at] = value]
      /\ at' = at + 1 /\ left' = left - 1
      /\ IF left = 1 THEN call' = "none" ELSE call' = call
      /\ flash' = flash /\ value' = value /\ erasing' = erasing /\ ~erasing
  BY Zenon DEF CopySector, MayLoad
<1>2. /\ at \in Sectors /\ left \in Nat \ {0} /\ at + left <= SectorCount
      /\ Within(at) \in Positions
  BY <1>1, SectorPlace, Zenon DEF DiskInv, RangePart
<1>3. /\ block \in [Positions -> Contents]
      /\ \A s \in Sectors : BlockOf(s) = BlockOf(at) => block[Within(s)] = written[s]
  <2>1. CASE Selected
    <3>1. \A s \in Sectors : BlockOf(s) = BlockOf(at) => View(s) = cache[Within(s)]
      BY <2>1, Zenon DEF Selected, View
    <3>. QED  BY <2>1, <3>1, Zenon DEF DiskInv, DiskTypes, ReadsSeeWrites
  <2>2. CASE ~Selected
    <3>1. \A s \in Sectors : flash[s] = written[s]
      BY <1>1, <2>2, Zenon DEF DiskInv, ChipPart
    <3>2. DiskTypes
      BY Zenon DEF DiskInv
    <3>. QED  BY <1>2, <2>2, <3>1, <3>2, LoadedHolds, Zenon
  <2>. QED  BY <2>1, <2>2, Zenon
<1>. HIDE DEF block
<1>4. DiskTypes'
  BY <1>1, <1>2, <1>3, Zenon DEF DiskInv, DiskTypes
<1>5. RangePart'
  BY <1>1, <1>2, DiskAssumption DEF RangePart, Sectors
<1>6. CachePart'
  BY <1>1, Zenon DEF CachePart
<1>7. ASSUME NEW s \in Sectors, BlockOf(s) = BlockOf(at)
      PROVE  cache'[Within(s)] = written'[s]
  <2>1. Within(s) \in Positions
    BY SectorPlace, Zenon
  <2>2. CASE s = at
    BY <1>1, <1>2, <1>3, <2>2, Zenon DEF DiskInv, DiskTypes
  <2>3. CASE s # at
    <3>1. Within(s) # Within(at)
      BY <1>2, <1>7, <2>3, SamePlace, Zenon
    <3>. QED  BY <1>1, <1>2, <1>3, <1>7, <2>1, <2>3, <3>1, Zenon DEF DiskInv, DiskTypes
  <2>. QED  BY <2>2, <2>3, Zenon
<1>8. ASSUME NEW s \in Sectors, BlockOf(s) # BlockOf(at)
      PROVE  flash'[s] = written'[s]
  <2>1. flash[s] = written[s]
    BY <1>1, <1>8, Zenon DEF DiskInv, ChipPart, Selected
  <2>2. written'[s] = written[s]
    BY <1>1, <1>8, Zenon DEF DiskInv, DiskTypes
  <2>. QED  BY <1>1, <2>1, <2>2, Zenon
<1>9. ReadsSeeWrites'
  BY <1>1, <1>7, <1>8, Zenon DEF ReadsSeeWrites, View
<1>10. ChipPart'
  BY <1>1, <1>8, Zenon DEF ChipPart
<1>. QED  BY <1>4, <1>5, <1>6, <1>9, <1>10, Zenon DEF DiskInv

(* After a power cut FatFs is owed what the chip holds.                    *)
LEMMA PowerCutKeeps == DiskInv /\ PowerCut => DiskInv'
<1>. SUFFICES ASSUME DiskInv, PowerCut PROVE DiskInv'
  OBVIOUS
<1>1. DiskTypes'
  BY Zenon DEF PowerCut, DiskInv, DiskTypes, Blank, Positions, Contents
<1>2. RangePart' /\ CachePart'
  BY Zenon DEF PowerCut, RangePart, CachePart
<1>3. ChipPart' /\ ReadsSeeWrites'
  BY Zenon DEF PowerCut, ChipPart, ReadsSeeWrites, View
<1>. QED  BY <1>1, <1>2, <1>3, Zenon DEF DiskInv

(* Every step of the disk keeps the invariant.                             *)
LEMMA DiskKeeps == DiskInv /\ [DiskNext]_diskVars => DiskInv'
<1>. SUFFICES ASSUME DiskInv, [DiskNext]_diskVars PROVE DiskInv'
  OBVIOUS
<1>1. CASE UNCHANGED diskVars
  BY <1>1, DiskAtRest, Zenon DEF diskVars, cacheVars, DiskInv, DiskTypes, RangePart
<1>2. CASE Initialize
  BY <1>2, DiskAtRest, Zenon DEF Initialize, cacheVars, callVars, DiskInv, DiskTypes, RangePart
<1>3. ASSUME NEW s \in Sectors, NEW n \in 1 .. SectorCount, NEW c \in Data, BeginWrite(s, n, c)
      PROVE  DiskInv'
  <2>1. value' \in Contents
    BY <1>3, Zenon DEF BeginWrite, Contents
  <2>2. RangePart'
    BY <1>3, DiskAssumption DEF BeginWrite, RangeValid, RangePart, Sectors
  <2>. QED  BY <1>3, <2>1, <2>2, DiskAtRest, Zenon DEF BeginWrite, cacheVars
<1>4. CASE BeginSync
  BY <1>4, DiskAtRest, Zenon DEF BeginSync, cacheVars, callVars, DiskInv, DiskTypes, RangePart
<1>5. CASE FlushIsRefused
  BY <1>5, DiskAtRest, Zenon DEF FlushIsRefused, FlushFails, cacheVars, DiskInv, DiskTypes, RangePart
<1>6. CASE SyncPasses
  BY <1>6, DiskAtRest, Zenon DEF SyncPasses, cacheVars, DiskInv, DiskTypes, RangePart
<1>. QED
  BY Zenon, <1>1, <1>2, <1>3, <1>4, <1>5, <1>6, FlushIsIdleKeeps, EraseKeeps, ProgramKeeps,
     CopySectorKeeps, PowerCutKeeps DEF DiskNext

-----------------------------------------------------------------------------
(* The inductive invariant holds in every state of the disk.               *)
THEOREM DiskInvariance == DiskSpec => []DiskInv
  BY DiskInitially, DiskKeeps, PTL DEF DiskSpec

(* disk_read returns what FatFs last wrote, whatever the cache does.       *)
THEOREM ReadsAreCurrent == DiskSpec => []ReadsSeeWrites
<1>1. DiskInv => ReadsSeeWrites
  BY Zenon DEF DiskInv
<1>. QED  BY DiskInvariance, <1>1, PTL

(* A passing CTRL_SYNC leaves everything written on the chip.              *)
THEOREM SyncIsDurable == DiskSpec => SyncMeansStored
<1>1. DiskInv /\ [DiskNext]_diskVars => [SyncPasses => \A s \in Sectors : flash'[s] = written[s]]_diskVars
  BY Zenon DEF DiskInv, ChipPart, SyncPasses
<1>. QED  BY DiskInvariance, <1>1, PTL DEF DiskSpec, SyncMeansStored

(* A power cut loses at most the block that waits to be written back.      *)
THEOREM DamageIsOneBlock == DiskSpec => CutSparesOtherBlocks
<1>1. DiskInv /\ [DiskNext]_diskVars =>
        [PowerCut => \A s \in Sectors :
            flash'[s] = written[s] \/ (cacheDirty /\ BlockOf(s) = cacheBlock)]_diskVars
  BY Zenon DEF DiskInv, ChipPart, PowerCut
<1>. QED  BY DiskInvariance, <1>1, PTL DEF DiskSpec, CutSparesOtherBlocks
-----------------------------------------------------------------------------
(***************************************************************************)
(* The clock.  In stepped mode one token goes round for each step; a free- *)
(* running clock that no deadline has disturbed has at most the one token  *)
(* that stops it; a clock that is stopped has lost the pin.                *)
(***************************************************************************)
ClockTypes ==
    /\ mode \in {"stepped", "free", "stopped"}
    /\ tx \in Nat /\ rx \in Nat /\ pulses \in Nat

(* A step under way: its token waits, raises CLK, is answered, is taken.   *)
StepToken ==
    \/ tx = 1 /\ place = "pull" /\ rx = 0 /\ pulses = 0
    \/ tx = 0 /\ place = "high" /\ rx = 0 /\ pulses = 0
    \/ tx = 0 /\ place = "push" /\ rx = 0 /\ pulses = 1
    \/ tx = 0 /\ place = "pull" /\ rx = 1 /\ pulses = 1

SteppedPart ==
    mode = "stepped" =>
        /\ enabled /\ routed /\ program = "stepped"
        /\ doing \in {"idle", "step_put", "step_get"}
        /\ doing = "step_get" => StepToken
        /\ doing # "step_get" => tx = 0 /\ rx = 0 /\ place = "pull"
        /\ doing = "step_put" => pulses = 0
        /\ doing = "idle" /\ stepped = "ok" => pulses = 1

(* A stop under way: its token waits, is found, is answered.               *)
StopToken ==
    \/ tx = 1 /\ place \in {"low", "high"} /\ rx = 0
    \/ tx = 0 /\ place = "push" /\ rx = 0
    \/ tx = 0 /\ place = "blocked" /\ rx = 1

FreePart ==
    mode = "free" =>
        /\ routed /\ program = "free" /\ doing \in {"idle", "stop_put", "stop_get"}
        /\ late => doing # "idle" /\ goal = "safe"
        /\ ~late /\ doing = "stop_get" => StopToken
        /\ ~late /\ doing # "stop_get" => tx = 0 /\ rx = 0 /\ place \in {"low", "high"}

StoppedPart == mode = "stopped" => ~routed /\ doing = "idle"

ClockInv == ClockTypes /\ SteppedPart /\ FreePart /\ StoppedPart

LEMMA ClockInitial == ClockInit => ClockInv
BY DEF ClockInit, ClockInv, ClockTypes, SteppedPart, FreePart, StoppedPart

(* The clock is prepared while CLK is low.                                 *)
LEMMA PrepareStep ==
    ASSUME NEW which \in {"stepped", "free"}, Prepare(which), doing' = "idle"
    PROVE  ClockInv'
BY DEF Prepare, ClockInv, ClockTypes, SteppedPart, FreePart, StoppedPart

(* The pin is taken away from the state machine.                           *)
LEMMA StopStep ==
    ASSUME ClockInv, mode' = "stopped", routed' = FALSE, doing' = "idle",
           tx' \in Nat, rx' \in Nat, pulses' = pulses
    PROVE  ClockInv'
BY DEF ClockInv, ClockTypes, SteppedPart, FreePart, StoppedPart

(* The bus is made safe: a clock that does not run freely stops at once.   *)
LEMMA MakeSafeStep ==
    ASSUME ClockInv, MakeSafe, mode = "free" => late' \/ (doing = "idle" /\ late' = late),
           UNCHANGED <<program, place, tx, rx, pulses>>
    PROVE  ClockInv'
<1>1. CASE mode = "free"
  <2>1. doing' = "stop_put" /\ goal' = "safe" /\ UNCHANGED <<mode, enabled, routed>>
    BY <1>1 DEF MakeSafe
  <2>2. QED
    BY <1>1, <2>1 DEF ClockInv, ClockTypes, SteppedPart, FreePart, StoppedPart, StopToken
<1>2. CASE mode # "free"
  BY <1>2, StopStep DEF MakeSafe, StopLow, ForceLow, ClockInv, ClockTypes
<1>3. QED
  BY <1>1, <1>2

(* Where the core acts on a clock that no deadline has disturbed, CLK is   *)
(* low: between two steps, and once a stop is acknowledged.                *)
LEMMA LowWhenIdle ==
    ASSUME ClockInv,
           \/ doing = "idle" /\ mode # "free"
           \/ doing = "step_get" /\ rx > 0
           \/ doing = "stop_get" /\ rx > 0 /\ ~late
    PROVE  ~Clk
BY DEF ClockInv, ClockTypes, SteppedPart, FreePart, StoppedPart, StepToken, StopToken, Clk

(* The state machine.                                                      *)
LEMMA MachineStep ==
    ASSUME ClockInv, StateMachine
    PROVE  ClockInv' /\ FallsWhole
<1>1. UNCHANGED coreVars
  BY DEF StateMachine, Rise, Fall, TakeStop, Push, Unblock
<1>2. UNCHANGED <<mode, enabled, program, routed, doing, goal, stepped, late>>
  BY <1>1 DEF coreVars
<1>3. tx' \in Nat /\ rx' \in Nat /\ pulses' \in Nat
  BY DEF ClockInv, ClockTypes, StateMachine, Rise, Fall, TakeStop, Push, Unblock
<1>4. StoppedPart' /\ ClockTypes'
  BY <1>2, <1>3 DEF ClockInv, ClockTypes, StoppedPart
<1>5. SteppedPart'
  BY <1>2, <1>3, ClockAssumption DEF ClockInv, ClockTypes, SteppedPart, StepToken,
     StateMachine, Rise, Fall, TakeStop, Push, Unblock
<1>6. FreePart'
  BY <1>2, <1>3 DEF ClockInv, ClockTypes, FreePart, StopToken,
     StateMachine, Rise, Fall, TakeStop, Push, Unblock
<1>7. FallsWhole
  BY <1>2 DEF FallsWhole, Clk, StateMachine, Rise, TakeStop, Push, Unblock
<1>8. QED
  BY <1>4, <1>5, <1>6, <1>7 DEF ClockInv

(* What the core does.                                                     *)
LEMMA CoreStep ==
    ASSUME ClockInv,
           Park \/ SetStepped \/ SetFree \/ BeginStep \/ PutToken \/ EndStep \/ StepTimesOut
               \/ EndStop \/ StopTimesOut
    PROVE  ClockInv' /\ FallsWhole
<1>1. CASE Park
  <2>1. ClockInv'
    BY <1>1, MakeSafeStep DEF Park
  <2>2. Clk => Clk'
    BY <1>1, LowWhenIdle DEF Park, MakeSafe, Clk
  <2>3. QED
    BY <2>1, <2>2 DEF FallsWhole
<1>2. CASE SetStepped
  <2>1. CASE mode = "free"
    BY <1>2, <2>1 DEF SetStepped, ClockInv, ClockTypes, SteppedPart, FreePart, StoppedPart,
       FallsWhole, Clk
  <2>2. CASE mode # "free"
    BY <1>2, <2>2, PrepareStep, LowWhenIdle DEF SetStepped, FallsWhole
  <2>3. QED
    BY <2>1, <2>2
<1>3. CASE SetFree
  <2>1. ~Clk
    BY <1>3, LowWhenIdle DEF SetFree
  <2>2. ClockInv'
    BY <1>3, PrepareStep, MakeSafeStep DEF SetFree
  <2>3. QED
    BY <2>1, <2>2 DEF FallsWhole
<1>4. CASE BeginStep
  BY <1>4 DEF BeginStep, ClockInv, ClockTypes, SteppedPart, FreePart, StoppedPart,
     FallsWhole, Clk
<1>5. CASE PutToken
  BY <1>5 DEF PutToken, ClockInv, ClockTypes, SteppedPart, FreePart, StoppedPart, StepToken,
     StopToken, FallsWhole, Clk
<1>6. CASE EndStep
  <2>1. ~Clk
    BY <1>6, LowWhenIdle DEF EndStep
  <2>2. ClockInv'
    BY <1>6, <2>1 DEF EndStep, ClockInv, ClockTypes, SteppedPart, FreePart, StoppedPart,
       StepToken
  <2>3. QED
    BY <2>1, <2>2 DEF FallsWhole
<1>7. CASE StepTimesOut
  <2>1. ClockInv'
    BY <1>7, MakeSafeStep DEF StepTimesOut, StepFails
  <2>2. QED
    BY <1>7, <2>1 DEF StepTimesOut, FallsWhole
<1>8. CASE EndStop
  <2>1. mode = "free"
    BY <1>8 DEF EndStop, ClockInv, ClockTypes, SteppedPart, StoppedPart
  <2>2. ~late' => ~Clk
    <3>1. ~late' => ~late
      BY <1>8, <2>1 DEF EndStop, Prepare, ClockInv, FreePart
    <3>2. QED
      BY <1>8, <3>1, LowWhenIdle DEF EndStop, Acknowledged
  <2>3. ClockInv'
    <3>1. CASE goal = "switch" /\ Prepare("stepped") /\ doing' = "idle"
      BY <3>1, PrepareStep
    <3>2. CASE goal = "safe" /\ StopLow /\ rx' = rx - 1 /\ UNCHANGED <<tx, pulses>>
      <4>1. tx' \in Nat /\ rx' \in Nat /\ pulses' = pulses
        BY <1>8, <3>2 DEF EndStop, Acknowledged, ClockInv, ClockTypes
      <4>2. mode' = "stopped" /\ routed' = FALSE /\ doing' = "idle"
        BY <3>2, Zenon DEF StopLow, ForceLow
      <4>3. QED
        BY <4>1, <4>2, StopStep, Zenon
    <3>3. QED
      BY <1>8, <3>1, <3>2 DEF EndStop
  <2>4. QED
    BY <2>2, <2>3 DEF FallsWhole
<1>9. CASE StopTimesOut
  <2>1. ClockInv'
    BY <1>9, MakeSafeStep, StopStep DEF StopTimesOut, ForceLow, ClockInv, ClockTypes
  <2>2. QED
    BY <1>9, <2>1 DEF StopTimesOut, FallsWhole
<1>10. QED
  BY <1>1, <1>2, <1>3, <1>4, <1>5, <1>6, <1>7, <1>8, <1>9

(* Each step is one pulse of its own, a stopped clock is low, and before a *)
(* deadline passes CLK falls only at the end of a whole pulse, whatever    *)
(* the depth of the FIFOs (execution_clock_controller.c and its programs). *)
THEOREM ClockIsSound == ClockSpec => PulsesAreWhole
<1>1. ClockInit => ClockInv
  BY ClockInitial
<1>2. ClockInv /\ [ClockNext]_clockVars => ClockInv' /\ [FallsWhole]_clockVars
  <2>1. SUFFICES ASSUME ClockInv, [ClockNext]_clockVars
                 PROVE  ClockInv' /\ [FallsWhole]_clockVars
    OBVIOUS
  <2>2. CASE ClockNext
    <3>1. ClockInv' /\ FallsWhole
      BY <2>1, <2>2, MachineStep, CoreStep, Zenon DEF ClockNext
    <3>2. QED
      BY <3>1, Zenon
  <2>3. CASE UNCHANGED clockVars
    <3>1. ClockInv'
      BY <2>1, <2>3 DEF clockVars, ClockInv, ClockTypes, SteppedPart, FreePart, StoppedPart,
         StepToken, StopToken
    <3>2. QED
      BY <2>3, <3>1, Zenon
  <2>4. QED
    BY <2>1, <2>2, <2>3
<1>3. ClockInv => StepIsOnePulse /\ StoppedIsLow
  BY DEF ClockInv, SteppedPart, StoppedPart, StepIsOnePulse, StoppedIsLow, Clk
<1>4. QED
  BY <1>1, <1>2, <1>3, PTL DEF ClockSpec, PulsesAreWhole
=============================================================================
