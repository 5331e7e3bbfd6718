---------------------------- MODULE SessionProbe ----------------------------
(***************************************************************************)
(* The native probes of a Host session (session.py): the periodic          *)
(* heartbeat of --native-probe, the `probe` and `send` commands, the       *)
(* identity probe that precedes a run, the check that the counter of       *)
(* native completions advances, the suspension of the probes while a       *)
(* general workload owns the processor, and the number of rounds after     *)
(* which the session ends.                                                 *)
(*                                                                         *)
(* The processor counts its completed services in a counter of Modulus     *)
(* values and starts over with a new boot id.  The prepared runtime serves *)
(* a heartbeat until a general workload is run, also while one is only     *)
(* staged; a calculator workload brings it back.  A heartbeat is served,   *)
(* or answered with the witness of the last service, or reported as timed  *)
(* out by the firmware (status 4), or not answered.  The life cycle of the *)
(* workload is reduced to what decides about the probes; HostSession has   *)
(* it in full.                                                             *)
(***************************************************************************)
EXTENDS Naturals

CONSTANTS
    Modulus,        \* 2^32, the modulus of the completion counter
    Rounds,         \* --rounds; 0 for no limit
    MaxServices,    \* bound on the services of one boot
    MaxBoots,       \* bound on the boots of the processor
    MaxAsked        \* bound on the requests of the users

ProbeAssumption ==
    /\ Modulus \in Nat /\ Modulus >= 4 /\ Modulus % 2 = 0
    /\ {Rounds, MaxServices, MaxBoots, MaxAsked} \subseteq Nat

VARIABLES
    boot, served,   \* the boot id and its completed services
    loaded,         \* the lifecycle is not EMPTY; the firmware never goes back
    general,        \* a general workload has the bus: the prepared runtime is retired
    \* ProcessorObservationState: boot 0 stands for None
    observed,
    flagged,        \* workload.processor_flags & PREPARED_RUNTIME_INITIALIZED
    available,      \* prepared_native_probe_available
    completed, lost,    \* HeartbeatStats
    transportError, asked, pc, exit,
    credited,       \* history: the services the rounds were credited for
    unseen          \* history: the reply to the record that started the general
                    \* workload did not reach this session, and none since

processor == <<boot, served, loaded, general, unseen>>
vars == <<processor, observed, flagged, available, completed, lost, transportError, asked,
          pc, exit, credited>>

\* Definitions named X_Y are X with the fault Y planted in it; no module uses them.

\* Earlier sessions left the device as it is.  The session starts with a status,
\* whose reply may be lost.
Init ==
    /\ boot = 1 /\ served = 0
    /\ loaded \in BOOLEAN /\ general \in BOOLEAN /\ (general => loaded)
    /\ observed = [boot |-> 0, counter |-> 0, connected |-> FALSE]
    /\ flagged \in BOOLEAN /\ available = (flagged /\ ~loaded)
    /\ completed = 0 /\ lost = 0 /\ transportError = FALSE /\ asked = 0
    /\ pc = "turn" /\ exit = "none" /\ credited = {} /\ unseen = FALSE

-----------------------------------------------------------------------------
(***************************************************************************)
(* The processor.  A witness names the boot and the counter; the service   *)
(* number is what the counter stands for.                                  *)
(***************************************************************************)
Witness(n) == [boot |-> boot, counter |-> n % Modulus, service |-> n]

\* What the processor may have done for a heartbeat or a command.
Serves == IF general THEN {served} ELSE {served, served + 1} \ {MaxServices + 1}

(***************************************************************************)
(* The check of the loop: within one boot the counter has to advance by    *)
(* less than half of its range.                                            *)
(***************************************************************************)
Advance(w) == (w.counter + Modulus - observed.counter) % Modulus

Stale_BackwardOnly(w) == observed.boot = w.boot /\ Advance(w) >= Modulus \div 2
Stale(w) ==
    /\ observed.boot = w.boot
    /\ Advance(w) = 0 \/ Advance(w) >= Modulus \div 2

AcceptWitness(w) ==
    observed' = [boot |-> w.boot, counter |-> w.counter, connected |-> TRUE]
MarkDisconnected == observed' = [observed EXCEPT !.connected = FALSE]

\* A heartbeat or a command in a turn of the loop, and what comes back.
Accepted(w, heartbeat) ==
    /\ AcceptWitness(w)
    /\ completed' = IF heartbeat THEN completed + 1 ELSE completed
    /\ credited' = IF heartbeat THEN credited \cup {<<w.boot, w.service>>} ELSE credited
    /\ UNCHANGED <<lost, available, transportError>>

ProbeFails(heartbeat) ==
    /\ IF heartbeat THEN lost' = lost + 1 /\ MarkDisconnected
                    ELSE UNCHANGED <<lost, observed>>
    /\ UNCHANGED <<available, completed, credited>>

Suspend(heartbeat) ==
    /\ IF heartbeat THEN available' = FALSE /\ MarkDisconnected
                    ELSE UNCHANGED <<available, observed>>
    /\ UNCHANGED <<lost, completed, credited, transportError>>

Request(heartbeat) ==
    /\ \/ /\ ~general /\ served' \in Serves \ {0}
          /\ IF Stale(Witness(served'))
             THEN ProbeFails(heartbeat) /\ UNCHANGED transportError
             ELSE Accepted(Witness(served'), heartbeat)
       \/ ~general /\ Suspend(heartbeat) /\ served' = served
       \/ /\ ProbeFails(heartbeat) /\ served' \in Serves
          /\ transportError' \in {transportError, TRUE}
    /\ UNCHANGED <<boot, loaded, general, unseen, flagged, exit>>

-----------------------------------------------------------------------------
(***************************************************************************)
(* The turns of the loop.                                                  *)
(***************************************************************************)
RoundsLeft == Rounds = 0 \/ completed + lost < Rounds

StartTurn ==
    /\ pc = "turn"
    /\ pc' = IF RoundsLeft /\ ~transportError THEN "command" ELSE "closing"
    /\ UNCHANGED <<processor, observed, flagged, available, completed, lost, transportError,
                   asked, exit, credited>>

ProbeIsDue == available

\* The heartbeat is due, and the prepared runtime there to answer it.
PeriodicProbe ==
    /\ pc = "command" /\ ProbeIsDue
    /\ Request(TRUE)
    /\ pc' = "turn" /\ asked' = asked

\* Nothing is due, or the probes are suspended.
Sleep ==
    /\ pc = "command"
    /\ pc' = "turn"
    /\ UNCHANGED <<processor, observed, flagged, available, completed, lost, transportError,
                   asked, exit, credited>>

Ask == pc = "command" /\ asked < MaxAsked /\ asked' = asked + 1 /\ pc' = "turn"

\* probe (a heartbeat), and send or calc.
UserRequest(heartbeat) == Ask /\ Request(heartbeat)

\* run or restart without the flag: ensure_prepared_runtime_initialized, which
\* takes any witness.  Staging a workload does not keep it from succeeding.
IdentityProbe ==
    \/ /\ ~general /\ served' \in Serves \ {0}
       /\ AcceptWitness(Witness(served'))
       /\ completed' = completed + 1
       /\ credited' = credited \cup {<<boot, served'>>}
       /\ flagged' = TRUE /\ available' = TRUE
       /\ UNCHANGED transportError
    \/ /\ ~general /\ available' = FALSE /\ MarkDisconnected
       /\ UNCHANGED <<served, completed, credited, flagged, transportError>>
    \/ /\ served' \in Serves /\ transportError' \in {transportError, TRUE}
       /\ UNCHANGED <<observed, completed, credited, flagged, available>>

Identify ==
    /\ Ask /\ ~flagged
    /\ IdentityProbe
    /\ UNCHANGED <<boot, loaded, general, unseen, lost, exit>>

\* What a workload record does to the device: a status nothing, an upload makes
\* the workload loaded, and a run gives the bus to a general workload or starts
\* the processor anew for a calculator, which ends with a native round.
Carries(op) ==
    \/ op = "status" /\ UNCHANGED <<boot, served, loaded, general>>
    \/ op = "upload" /\ loaded' = TRUE /\ UNCHANGED <<boot, served, general>>
    \/ /\ op = "run" /\ loaded /\ boot < MaxBoots
       /\ boot' = boot + 1 /\ served' = 0 /\ general' = TRUE /\ UNCHANGED loaded
    \/ /\ op = "calculator" /\ loaded /\ boot < MaxBoots
       /\ boot' = boot + 1 /\ served' = 1 /\ general' = FALSE /\ UNCHANGED loaded

\* A record of this session or of another client.  The session takes the reply
\* (accept_workload_state), or never sees it: a reply that is lost or refused,
\* or, if the session is itself a client of a broker, a record of another one.
WorkloadRecord(op, seen) ==
    /\ Ask /\ Carries(op)
    /\ IF seen
       THEN flagged' = TRUE /\ available' = ~loaded' /\ unseen' = FALSE
            /\ UNCHANGED transportError
       ELSE unseen' = (unseen \/ op = "run") /\ transportError' \in {transportError, TRUE}
            /\ UNCHANGED <<flagged, available>>
    /\ UNCHANGED <<observed, completed, lost, exit, credited>>

\* drain_cdc meets the line of a workload that completed.
WorkloadCompleted ==
    /\ pc # "closed" /\ general
    /\ available' = FALSE
    /\ UNCHANGED <<processor, observed, flagged, completed, lost, transportError, asked, pc,
                   exit, credited>>

ExitCode == IF transportError THEN "TRANSPORT"
            ELSE IF completed > 0 /\ lost = 0 THEN "PASS" ELSE "VALIDATION"

Close ==
    /\ pc = "closing"
    /\ pc' = "closed" /\ exit' = ExitCode
    /\ UNCHANGED <<processor, observed, flagged, available, completed, lost, transportError,
                   asked, credited>>

Closed == pc = "closed" /\ UNCHANGED vars

Turn == StartTurn \/ PeriodicProbe \/ Sleep \/ Close
Next ==
    \/ Turn \/ Identify \/ WorkloadCompleted \/ Closed
    \/ \E b \in BOOLEAN : UserRequest(b)
    \/ \E op \in {"status", "upload", "run", "calculator"}, seen \in BOOLEAN :
           WorkloadRecord(op, seen)

Spec == Init /\ [][Next]_vars

-----------------------------------------------------------------------------
(***************************************************************************)
(* Properties.                                                             *)
(***************************************************************************)

\* A round of the loop is credited to a service of its own: a witness that
\* did not advance within its boot is not counted, across boots, lost replies
\* and the wrap of the counter.  The one round that may repeat another is the
\* identity probe that sets the flag, for which the loop checks no counter.
RoundIsNew ==
    completed' = completed + 1 => credited' # credited \/ (~flagged /\ flagged')

\* While a general workload owns the processor and its bus, no periodic probe
\* is injected, whoever uploaded and ran it and whatever an identity probe
\* found before, unless no reply to its run, or to a record since, reached this
\* session.
ProbesOwnRuntime == PeriodicProbe => ~general \/ unseen
=============================================================================
