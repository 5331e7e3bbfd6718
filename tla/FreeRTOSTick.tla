---------------------------- MODULE FreeRTOSTick ----------------------------
(***************************************************************************)
(* The periodic tick pipeline composed with its processor.  It runs some   *)
(* general workload, of which nothing is known, or the FreeRTOS 8086 port: *)
(* rp86_freertos_tick_isr, rp86_freertos_yield_isr and their common        *)
(* restore path (portasm.asm), critical sections and yields of tasks       *)
(* (portmacro.h), and the terminal exit of the startup code.               *)
(*                                                                         *)
(* cpu says what the processor executes:                                   *)
(*   masked     foreground code with IF = 0 (startup, critical section)    *)
(*   task       foreground code with IF = 1                                *)
(*   inta       INTR has been sampled high: INTA #1 will be run            *)
(*   inta2      between INTA #1 and INTA #2                                *)
(*   tick_isr   rp86_freertos_tick_isr, up to its OUT 20h                  *)
(*   yield_isr  rp86_freertos_yield_isr, up to its OUT 20h                 *)
(*   restore    between OUT 20h and the end of IRET                        *)
(*   exit       after IDLE_PREPARE                                         *)
(*   any        a workload other than the port: any bus cycle at any time  *)
(***************************************************************************)
EXTENDS TickPipeline

CONSTANT RestoreCycles  \* bound on the bus cycles of POP AX and IRET

ASSUME RestoreConstant == RestoreCycles \in 0 .. Recovery

VARIABLES
    cpu,
    foreground,     \* history: foreground cycles since the last fence
    restored        \* history: cycles of the current restore path

portVars == <<vars, cpu, foreground, restored>>

PortInit ==
    /\ Init
    /\ cpu \in {"masked", "any"} /\ foreground = 0 /\ restored = 0

PortStart ==
    /\ cpu # "any" /\ Start
    /\ cpu' = "masked" /\ foreground' = 0 /\ restored' = 0

PortRuntime ==
    /\ cpu # "any"
    /\ AdvanceTime \/ StartFails \/ StopBetweenServices \/ UpdatePeriodicTick
    /\ UNCHANGED <<cpu, foreground, restored>>

(***************************************************************************)
(* Steps of the processor inside the clock steps of a service: CLI and STI *)
(* (or PUSHF/CLI and POPF), the sampling of INTR at the end of an          *)
(* instruction, INT 80h, and the IRET that reloads the IF of the task.     *)
(***************************************************************************)
CpuStep(from, to) ==
    /\ pc = "cycle" /\ cpu = from
    /\ cpu' = to
    /\ UNCHANGED <<vars, foreground, restored>>

SetInterruptFlag == CpuStep("masked", "task") \/ CpuStep("task", "masked")
SampleIntr == intr /\ CpuStep("task", "inta")
Yield_FromTickIsr == CpuStep("task", "yield_isr") \/ CpuStep("tick_isr", "yield_isr")
Yield == CpuStep("task", "yield_isr") \/ CpuStep("masked", "yield_isr")
Iret == CpuStep("restore", "task") \/ CpuStep("restore", "masked")

(***************************************************************************)
(* The bus cycles of each mode.                                            *)
(***************************************************************************)
CodeCycle ==
    /\ cpu \in {"masked", "task", "inta", "tick_isr", "yield_isr", "restore"}
    /\ cpu = "restore" => restored < RestoreCycles
    /\ PlainCycle
    /\ foreground' = foreground + (IF cpu \in {"masked", "task", "inta"} THEN 1 ELSE 0)
    /\ restored' = restored + (IF cpu = "restore" THEN 1 ELSE 0)
    /\ UNCHANGED cpu

QuietSteps ==
    /\ cpu \notin {"exit", "any"}
    /\ NoCycle
    /\ UNCHANGED <<cpu, foreground, restored>>

PortBusFault ==
    /\ cpu # "any" /\ BusFault
    /\ UNCHANGED <<cpu, foreground, restored>>

PortInterruptAck ==
    /\ \/ cpu = "inta" /\ cpu' = "inta2"
       \/ cpu = "inta2" /\ cpu' = "tick_isr"
    /\ InterruptAck
    /\ UNCHANGED <<foreground, restored>>

(***************************************************************************)
(* .restore_eoi of both interrupt handlers, with IF still 0.               *)
(***************************************************************************)
RestoreEoi_InterruptsEnabled ==
    /\ cpu \in {"tick_isr", "yield_isr", "inta"}
    /\ EoiWrite
    /\ cpu' = (IF cpu = "inta" THEN "inta" ELSE "restore")
    /\ foreground' = 0 /\ restored' = 0
RestoreEoi ==
    /\ cpu \in {"tick_isr", "yield_isr"}
    /\ EoiWrite
    /\ cpu' = "restore" /\ foreground' = 0 /\ restored' = 0

(***************************************************************************)
(* The startup code's exit: CLI, ..., OUT CONTROL,IDLE_PREPARE, HLT.       *)
(***************************************************************************)
Exit ==
    /\ cpu = "masked"
    /\ IdlePrepare
    /\ cpu' = "exit"
    /\ UNCHANGED <<foreground, restored>>

Halt ==
    /\ cpu = "exit"
    /\ TerminalHalt
    /\ UNCHANGED <<cpu, foreground, restored>>

(***************************************************************************)
(* The pipeline with an arbitrary processor.                               *)
(***************************************************************************)
OtherWorkload ==
    /\ cpu = "any"
    /\ Next
    /\ UNCHANGED <<cpu, foreground, restored>>

PortNext ==
    \/ PortStart
    \/ PortRuntime
    \/ SetInterruptFlag
    \/ SampleIntr
    \/ Yield
    \/ Iret
    \/ CodeCycle
    \/ QuietSteps
    \/ PortBusFault
    \/ PortInterruptAck
    \/ RestoreEoi
    \/ Exit
    \/ Halt
    \/ OtherWorkload

PortSpec == PortInit /\ [][PortNext]_portVars

-----------------------------------------------------------------------------
(***************************************************************************)
(* The tick state keeps its types and the restore path its bound.          *)
(***************************************************************************)
PortTypeOK ==
    /\ TypeOK
    /\ cpu \in {"masked", "task", "inta", "inta2", "tick_isr", "yield_isr",
                "restore", "exit", "any"}
    /\ foreground \in Nat
    /\ restored \in 0 .. RestoreCycles

(***************************************************************************)
(* The port never sees an INTA cycle refused: once the processor has       *)
(* sampled INTR, no fence, update or shutdown of the source takes the      *)
(* request away before INTA #1, and INTA #2 always finds phase 1.  It      *)
(* rests on OUT 20h and IDLE_PREPARE being executed with IF = 0.           *)
(***************************************************************************)
InterruptNeverRefused == cpu # "any" => outcome # "refused_inta"

(***************************************************************************)
(* The executor's view of the interrupt agrees with what the processor     *)
(* executes: the slot is in service exactly while the tick handler runs,   *)
(* and every OUT 20h of the tick handler is taken as the real EOI.  The    *)
(* types come with it.                                                     *)
(***************************************************************************)
ServiceMatchesHandler ==
    /\ PortTypeOK
    /\ active /\ cpu # "any" =>
        /\ tick_in_service = (cpu = "tick_isr")
        /\ (tick_ack_phase = 1) = (cpu = "inta2")
        /\ cpu = "inta" => tick_intr_asserted

(***************************************************************************)
(* A restored task gets foreground progress before the next tick can take  *)
(* the processor: the restore path uses at most RestoreCycles of the       *)
(* recovery window.                                                        *)
(***************************************************************************)
ForegroundProgress ==
    active /\ cpu = "inta" /\ eoi > 0 => foreground >= Recovery - RestoreCycles
=============================================================================
