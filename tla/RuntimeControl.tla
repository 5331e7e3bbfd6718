--------------------------- MODULE RuntimeControl ---------------------------
(***************************************************************************)
(* The commands --reboot and --bootloader (cli.py): through the broker of  *)
(* an owner when there is one, else by a HID record of their own, else by  *)
(* a CDC token; and how the firmware obeys: park the processor,            *)
(* acknowledge, restart.                                                   *)
(*                                                                         *)
(* Every process with the HID interface open reads a copy of every input   *)
(* report.  A restart ends every open handle.  An exception that main does *)
(* not catch ends the command with a traceback, here "crash".              *)
(***************************************************************************)
EXTENDS Naturals, Sequences

CONSTANTS
    Callers,
    Op,                 \* what each of them asks for: "reboot" or "bootloader"
    NoOp,
    MaxErrors, MaxLost  \* bounds: of failing opens, of unacknowledged records

ControlAssumption ==
    /\ Op \in [Callers -> {"reboot", "bootloader"}] /\ NoOp \notin {"reboot", "bootloader"}
    /\ MaxErrors \in Nat /\ MaxLost \in Nat

VARIABLES
    owner,              \* whether a session owns the device and has a broker
    pc, outcome,        \* of each command
    brokered,           \* it goes through the owner
    input,              \* the reports that its open handle can read
    dead,               \* its handle ended with a restart
    mode,               \* "run", "restart" or "uf2"
    slot, tokens,       \* the record slot and the CDC input of the firmware
    obeying,            \* the operation in hand
    performed,          \* the operations that the firmware performed
    errors, lost

command == <<pc, outcome, brokered>>
handle == <<input, dead>>
firmware == <<mode, slot, tokens, obeying, performed>>
vars == <<owner, command, handle, firmware, errors, lost>>

\* Definitions named X_Y are X with the fault Y planted in it; no module uses them.

Init ==
    /\ owner \in BOOLEAN
    /\ pc = [c \in Callers |-> "new"] /\ outcome = [c \in Callers |-> "none"]
    /\ brokered = [c \in Callers |-> FALSE]
    /\ input = [c \in Callers |-> <<>>] /\ dead = [c \in Callers |-> FALSE]
    /\ mode = "run" /\ slot = NoOp /\ tokens = <<>> /\ obeying = NoOp /\ performed = {}
    /\ errors = 0 /\ lost = 0

End(c, result) ==
    /\ pc' = [pc EXCEPT ![c] = "done"] /\ outcome' = [outcome EXCEPT ![c] = result]

Goto(c, place) == pc' = [pc EXCEPT ![c] = place] /\ UNCHANGED outcome

-----------------------------------------------------------------------------
(***************************************************************************)
(* The commands.                                                           *)
(***************************************************************************)

\* The owner answers that the control failed; main reports the error.
BrokerError(c) == End(c, "error")

\* A RuntimeError of the exchange: without an owner, main goes on with CDC.
RuntimeError(c) == IF brokered[c] THEN BrokerError(c) ELSE Goto(c, "cdc")

\* An OSError: the owner catches it, main does not.
OsError(c) == IF brokered[c] THEN BrokerError(c) ELSE End(c, "crash")

\* The owner serves one control at a time.
Discover(c) ==
    /\ pc[c] = "new"
    /\ brokered' = [brokered EXCEPT ![c] = owner]
    /\ owner => \A d \in Callers : brokered[d] => pc[d] = "done"
    /\ Goto(c, IF owner THEN "write" ELSE "open")
    /\ input' = [input EXCEPT ![c] = <<>>] /\ dead' = [dead EXCEPT ![c] = FALSE]
    /\ UNCHANGED <<owner, firmware, errors, lost>>

\* _open_hid: no interface is a RuntimeError; the open itself may fail.
OpenHid(c) ==
    /\ pc[c] = "open"
    /\ \/ mode = "run" /\ Goto(c, "write") /\ errors' = errors
       \/ mode # "run" /\ RuntimeError(c) /\ errors' = errors
       \/ mode = "run" /\ errors < MaxErrors /\ errors' = errors + 1 /\ OsError(c)
    /\ input' = [input EXCEPT ![c] = <<>>] /\ dead' = [dead EXCEPT ![c] = FALSE]
    /\ UNCHANGED <<owner, brokered, firmware, lost>>

\* The reads before the write throw away what is there; a record that finds
\* the slot taken is dropped.
WriteHid(c) ==
    /\ pc[c] = "write"
    /\ \/ /\ dead[c] /\ OsError(c) /\ UNCHANGED <<input, slot>>
       \/ /\ ~dead[c] /\ Goto(c, "read")
          /\ input' = [input EXCEPT ![c] = <<>>]
          /\ slot' = IF slot = NoOp THEN Op[c] ELSE slot
    /\ UNCHANGED <<owner, brokered, dead, mode, tokens, obeying, performed, errors, lost>>

\* The first report decides.  The commands have the same sequence number unless
\* the user chose one, so the operation in the payload tells them apart.
Acknowledges(c, report) == report = Op[c]

ReadHid(c) ==
    /\ pc[c] = "read"
    /\ \/ /\ input[c] # <<>>
          /\ IF Acknowledges(c, Head(input[c])) THEN End(c, "PASS") ELSE RuntimeError(c)
       \/ /\ input[c] = <<>> /\ dead[c] /\ OsError(c)
       \/ /\ input[c] = <<>> /\ ~dead[c] /\ RuntimeError(c)         \* the deadline
    /\ UNCHANGED <<owner, brokered, handle, firmware, errors, lost>>

\* resolve_cdc_port: the port of a device that is there.
PortResolves == mode = "run"

\* main catches what the resolution and the open raise.
SendToken(c) ==
    /\ pc[c] = "cdc"
    /\ \/ ~PortResolves /\ End(c, "error") /\ UNCHANGED tokens
       \/ /\ PortResolves
          /\ pc' = [pc EXCEPT ![c] = "ack"] /\ UNCHANGED outcome
          /\ tokens' = Append(tokens, Op[c])
    /\ input' = [input EXCEPT ![c] = <<>>] /\ dead' = [dead EXCEPT ![c] = FALSE]
    /\ UNCHANGED <<owner, brokered, mode, slot, obeying, performed, errors, lost>>

\* Each token has its own ACK text; other text is passed over, and a port that
\* fails after the ACK is no error.
AckReceived(c) == \E i \in DOMAIN input[c] : input[c][i] = Op[c]

ReadToken(c) ==
    /\ pc[c] = "ack"
    /\ End(c, IF AckReceived(c) THEN "PASS" ELSE "error")
    /\ UNCHANGED <<owner, brokered, handle, firmware, errors, lost>>

-----------------------------------------------------------------------------
(***************************************************************************)
(* The firmware.  Parking is part of obeying: obeying # NoOp stands for    *)
(* the processor in RESET.                                                 *)
(***************************************************************************)

Broadcast(op, places) ==
    input' = [c \in Callers |->
                IF pc[c] \in places /\ ~dead[c] THEN Append(input[c], op) ELSE input[c]]

\* handle_runtime_control.  When the ACK cannot be sent it gives up, with the
\* processor left in RESET; the Host takes reports as long as a handle is open,
\* so an ACK that counts as not sent is not delivered later.
Acknowledge_KeepsRunning(op) ==
    /\ Broadcast(op, {"write", "read"}) /\ UNCHANGED <<obeying, lost>>
Acknowledge(op) ==
    \/ Broadcast(op, {"write", "read"}) /\ obeying' = op /\ lost' = lost
    \/ lost < MaxLost /\ lost' = lost + 1 /\ UNCHANGED <<input, obeying>>

HandleRuntimeControl ==
    /\ mode = "run" /\ obeying = NoOp /\ slot # NoOp
    /\ slot' = NoOp /\ Acknowledge(slot)
    /\ UNCHANGED <<owner, command, dead, mode, tokens, performed, errors>>

ServiceCdcControl ==
    /\ mode = "run" /\ obeying = NoOp /\ tokens # <<>>
    /\ tokens' = Tail(tokens) /\ obeying' = Head(tokens)
    /\ Broadcast(Head(tokens), {"ack"})
    /\ UNCHANGED <<owner, command, dead, mode, slot, performed, errors, lost>>

\* watchdog_reboot or reset_usb_boot, after the flush; the owner ends with it.
Restart ==
    /\ obeying # NoOp
    /\ performed' = performed \cup {obeying}
    /\ mode' = IF obeying = "reboot" THEN "restart" ELSE "uf2"
    /\ obeying' = NoOp /\ slot' = NoOp /\ tokens' = <<>>
    /\ dead' = [c \in Callers |-> TRUE] /\ owner' = FALSE
    /\ UNCHANGED <<command, input, errors, lost>>

Boot ==
    /\ mode = "restart" /\ mode' = "run"
    /\ UNCHANGED <<owner, command, handle, slot, tokens, obeying, performed, errors, lost>>

-----------------------------------------------------------------------------
Done == (\A c \in Callers : pc[c] = "done") /\ UNCHANGED vars

Step(c) ==
    Discover(c) \/ OpenHid(c) \/ WriteHid(c) \/ ReadHid(c) \/ SendToken(c) \/ ReadToken(c)

Next ==
    \/ \E c \in Callers : Step(c)
    \/ HandleRuntimeControl \/ ServiceCdcControl \/ Restart \/ Boot \/ Done

\* Every wait of a command has a deadline, and the firmware runs on.
Spec ==
    /\ Init /\ [][Next]_vars
    /\ \A c \in Callers : WF_vars(Step(c))
    /\ WF_vars(HandleRuntimeControl) /\ WF_vars(ServiceCdcControl)
    /\ WF_vars(Restart) /\ WF_vars(Boot)

-----------------------------------------------------------------------------
(***************************************************************************)
(* Properties.                                                             *)
(***************************************************************************)

\* A command that reports PASS is obeyed: the firmware performs the operation
\* that was asked for, also when commands for different operations meet.
PassIsObeyed == \A c \in Callers : outcome[c] = "PASS" ~> Op[c] \in performed
=============================================================================
