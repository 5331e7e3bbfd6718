--------------------------- MODULE ExecutionClock ---------------------------
(***************************************************************************)
(* execution_clock_controller.c and the two PIO programs it loads: the     *)
(* processor clock is made by a PIO state machine that the M33 core talks  *)
(* to through a transmit and a receive FIFO.  The core waits for tokens up *)
(* to a deadline, which may pass at any moment; the state machine goes on  *)
(* by itself.  processor_bus.c and canonical_runtime.c call it: a failed   *)
(* step or switch is followed by rp86_processor_bus_force_safe_state.      *)
(***************************************************************************)
EXTENDS Integers

CONSTANTS
    Depth,      \* entries of a FIFO, 4
    MaxPulses   \* the count of pulses stops here

ASSUME ClockAssumption == Depth \in Nat \ {0} /\ MaxPulses \in Nat \ {0, 1}

VARIABLES
    mode,       \* clock->mode
    enabled,    \* the state machine runs
    program,    \* the program it was initialised with
    place,      \* where it is in that program
    routed,     \* CLK is given to the PIO; otherwise it is a low SIO output
    tx, rx,     \* tokens in the FIFOs
    doing,      \* what the core waits for
    goal,       \* why it stops the free-running clock: "switch" or "safe"
    pulses,     \* history: complete pulses on CLK since the step began
    stepped,    \* history: how the last step since the clock was prepared ended
    late        \* history: a deadline has passed since the clock was prepared

clockVars == <<mode, enabled, program, place, routed, tx, rx, doing, goal, pulses, stepped, late>>
coreVars == <<mode, enabled, program, routed, doing, goal, stepped, late>>

\* Definitions named X_Y are X with the fault Y planted in it; no module uses them.

(* gpio_get(RP86_PROCESSOR_PIN_CLK).                                       *)
Clk == routed /\ place = "high"

(* prepare_common, then the program and an enabled state machine.          *)
Prepare(which) ==
    /\ enabled' = TRUE /\ program' = which /\ routed' = TRUE
    /\ place' = IF which = "stepped" THEN "pull" ELSE "low"
    /\ tx' = 0 /\ rx' = 0
    /\ mode' = which
    /\ pulses' = 0 /\ stepped' = "none" /\ late' = FALSE

ClockInit ==
    /\ mode = "stepped" /\ enabled = TRUE /\ program = "stepped" /\ place = "pull"
    /\ routed = TRUE /\ tx = 0 /\ rx = 0
    /\ doing = "idle" /\ goal = "safe" /\ pulses = 0 /\ stepped = "none" /\ late = FALSE

-----------------------------------------------------------------------------
(* The state machine.  A pulse is complete when CLK is low again.          *)
Rise ==
    /\ enabled
    /\ \/ program = "stepped" /\ place = "pull" /\ tx > 0 /\ tx' = tx - 1
       \/ program = "free" /\ place = "low" /\ tx = 0 /\ tx' = tx
    /\ place' = "high"
    /\ UNCHANGED <<coreVars, rx, pulses>>

Fall ==
    /\ enabled /\ place = "high"
    /\ place' = IF program = "stepped" THEN "push" ELSE "low"
    /\ pulses' = IF routed /\ pulses < MaxPulses THEN pulses + 1 ELSE pulses
    /\ UNCHANGED <<coreVars, tx, rx>>

(* The free-running program finds a stop token after its low half-cycle.   *)
TakeStop ==
    /\ enabled /\ program = "free" /\ place = "low" /\ tx > 0
    /\ tx' = tx - 1 /\ place' = "push"
    /\ UNCHANGED <<coreVars, rx, pulses>>

(* push block; the free-running program then blocks in pull.               *)
Push ==
    /\ enabled /\ place = "push" /\ rx < Depth
    /\ rx' = rx + 1
    /\ place' = IF program = "stepped" THEN "pull" ELSE "blocked"
    /\ UNCHANGED <<coreVars, tx, pulses>>

(* The second token of a stop that is tried again lets the clock go on.    *)
Unblock ==
    /\ enabled /\ place = "blocked" /\ tx > 0
    /\ tx' = tx - 1 /\ place' = "high"
    /\ UNCHANGED <<coreVars, rx, pulses>>

StateMachine == Rise \/ Fall \/ TakeStop \/ Push \/ Unblock

-----------------------------------------------------------------------------
(* rp86_execution_clock_stop_low when the clock is not free-running, and   *)
(* the end of a stop: the pin becomes a low output of the core.            *)
ForceLow == routed' = FALSE

StopLow ==
    /\ enabled' = FALSE /\ ForceLow /\ mode' = "stopped"
    /\ doing' = "idle"

(* rp86_processor_bus_force_safe_state or park_physical_processor.         *)
MakeSafe ==
    IF mode = "free"
      THEN doing' = "stop_put" /\ goal' = "safe" /\ UNCHANGED <<mode, enabled, routed>>
      ELSE StopLow /\ UNCHANGED goal

Park ==
    /\ doing = "idle"
    /\ MakeSafe
    /\ UNCHANGED <<program, place, tx, rx, pulses, stepped, late>>

(* rp86_execution_clock_set_mode; the callers make a failed switch safe.   *)
SetStepped ==
    /\ doing = "idle" /\ mode # "stepped"
    /\ \/ /\ mode = "free"
          /\ doing' = "stop_put" /\ goal' = "switch"
          /\ UNCHANGED <<mode, enabled, program, place, routed, tx, rx, pulses, stepped, late>>
       \/ mode = "stopped" /\ Prepare("stepped") /\ UNCHANGED <<doing, goal>>

SetFree ==
    /\ doing = "idle" /\ mode # "free"
    /\ \/ mode = "stepped" /\ ~Clk /\ Prepare("free") /\ UNCHANGED <<doing, goal>>
       \/ /\ mode # "stepped" \/ Clk
          /\ MakeSafe
          /\ UNCHANGED <<program, place, tx, rx, pulses, stepped, late>>

(* rp86_execution_clock_step, called by rp86_processor_bus_step.           *)
BeginStep ==
    /\ doing = "idle" /\ mode = "stepped"
    /\ doing' = "step_put" /\ pulses' = 0 /\ stepped' = "none"
    /\ UNCHANGED <<mode, enabled, program, place, routed, tx, rx, goal, late>>

PutToken ==
    /\ doing \in {"step_put", "stop_put"} /\ tx < Depth
    /\ tx' = tx + 1
    /\ doing' = IF doing = "step_put" THEN "step_get" ELSE "stop_get"
    /\ UNCHANGED <<mode, enabled, program, place, routed, rx, goal, pulses, stepped, late>>

(* A step that fails makes the bus safe.                                   *)
StepFails_StaysOn == doing' = "idle" /\ UNCHANGED <<mode, enabled, routed, goal>>
StepFails == MakeSafe

EndStep ==
    /\ doing = "step_get" /\ rx > 0
    /\ rx' = rx - 1
    /\ IF Clk
         THEN StepFails /\ stepped' = "failed"
         ELSE doing' = "idle" /\ stepped' = "ok" /\ UNCHANGED <<mode, enabled, routed, goal>>
    /\ UNCHANGED <<program, place, tx, pulses, late>>

StepTimesOut ==
    /\ doing \in {"step_put", "step_get"}
    /\ StepFails /\ stepped' = "failed" /\ late' = TRUE
    /\ UNCHANGED <<program, place, tx, rx, pulses>>

(* stop_free_running_low sees the acknowledgement of the state machine.    *)
Acknowledged == rx > 0

EndStop ==
    /\ doing = "stop_get" /\ Acknowledged
    /\ \/ goal = "switch" /\ Prepare("stepped") /\ doing' = "idle"
       \/ /\ goal = "safe" /\ StopLow
          /\ rx' = rx - 1
          /\ UNCHANGED <<program, place, tx, pulses, stepped, late>>
    /\ UNCHANGED goal

(* A switch that times out is made safe, which tries to stop once more; a  *)
(* stop that times out takes the pin away and leaves the machine running.  *)
StopTimesOut ==
    /\ doing \in {"stop_put", "stop_get"} /\ late' = TRUE
    /\ \/ goal = "switch" /\ MakeSafe
       \/ /\ goal = "safe" /\ ForceLow /\ mode' = "stopped" /\ doing' = "idle"
          /\ UNCHANGED <<enabled, goal>>
    /\ UNCHANGED <<program, place, tx, rx, pulses, stepped>>

ClockNext ==
    \/ StateMachine
    \/ Park \/ SetStepped \/ SetFree
    \/ BeginStep \/ PutToken \/ EndStep \/ StepTimesOut
    \/ EndStop \/ StopTimesOut

ClockSpec == ClockInit /\ [][ClockNext]_clockVars

-----------------------------------------------------------------------------
(* A step that returns TRUE has made exactly one pulse, its own, and CLK   *)
(* is low: the late token of a step that timed out is never taken for the  *)
(* answer of a later one, so the samples the bus takes belong to its cycle.*)
StepIsOnePulse == doing = "idle" /\ stepped = "ok" /\ mode = "stepped" => pulses = 1 /\ ~Clk

(* A stopped clock is low, even when the state machine never answered.     *)
StoppedIsLow == mode = "stopped" => ~Clk

(* As long as no deadline has passed, CLK falls only at the end of a whole *)
(* pulse: switching, stopping and parking never cut one short.             *)
FallsWhole == Clk /\ ~Clk' /\ ~late' => Fall

(* The processor sees whole pulses, and those it was meant to see.         *)
PulsesAreWhole == [](StepIsOnePulse /\ StoppedIsLow) /\ [][FallsWhole]_clockVars
=============================================================================
