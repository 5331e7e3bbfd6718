---------------------------- MODULE RemoteCalls -----------------------------
(***************************************************************************)
(* The ways in which something is done elsewhere and the caller learns     *)
(* that it was: a mailbox command, carried out by the processor (Mailbox), *)
(* the records of the request layer, carried out by the firmware           *)
(* (RequestChannel), the requests of clients, carried out by the owner of  *)
(* the device (BrokerSession), and the commands that restart the firmware  *)
(* (RuntimeControl).                                                       *)
(*                                                                         *)
(* The parts share no variable: Mailbox takes of the request layer that a  *)
(* memory record is executed at most once and late, as RequestChannel's    *)
(* implementation of Rpc says.  What holds of a part holds of the          *)
(* composition, so a behaviour moves one part, chosen at the start, and    *)
(* the others stay in their initial states.                                *)
(***************************************************************************)
EXTENDS Mailbox

CONSTANTS
    MaxSequence, FirstSequence,         \* RequestChannel
    MaxBegun,                           \* bound on its requests
    Client, AuditLimit, MaxRequests     \* BrokerSession

VARIABLES
    part,           \* the part that moves
    sequence, begun, phase, record, slot, handling, endpoint, inbox, handled, accepted, verdicts,
    kept, doubtful,
    requests, future, replied, awaited, queue, controls, batch, loop, stop, audit, copied,
    snapshot,
    session, pc, outcome, brokered, input, dead, mode, control, tokens, obeying,
    performed, errors, lost

channelVars == <<sequence, begun, phase, record, slot, handling, endpoint, inbox, handled,
                 accepted, verdicts, kept, doubtful>>
brokerVars == <<requests, future, replied, awaited, queue, controls, batch, loop, stop,
                audit, copied, snapshot>>
controlVars == <<session, pc, outcome, brokered, input, dead, mode, control, tokens,
                 obeying, performed, errors, lost>>
callVars == <<part, vars, channelVars, brokerVars, controlVars>>

Channel == INSTANCE RequestChannel WITH
    MaxCalls <- MaxBegun, calls <- begun, request <- record, executed <- handled
Broker == INSTANCE BrokerSession WITH owner <- loop
\* Two commands with different operations.
Control == INSTANCE RuntimeControl WITH
    Callers <- 1 .. 2, Op <- <<"reboot", "bootloader">>, NoOp <- "none",
    MaxErrors <- 1, MaxLost <- 1, owner <- session, slot <- control

ASSUME CallsAssumption ==
    /\ Channel!ChannelAssumption
    /\ Broker!BrokerAssumption /\ Control!ControlAssumption

CallsInit ==
    /\ part \in {"mailbox", "channel", "broker", "control"}
    /\ Init /\ Channel!Init /\ Broker!Init /\ Control!Init
    /\ part # "control" => session

CallsNext ==
    \/ part = "mailbox" /\ Next /\ UNCHANGED <<part, channelVars, brokerVars, controlVars>>
    \/ part = "channel" /\ Channel!Next /\ UNCHANGED <<part, vars, brokerVars, controlVars>>
    \/ part = "broker" /\ Broker!Next /\ UNCHANGED <<part, vars, channelVars, controlVars>>
    \/ part = "control" /\ Control!Next /\ UNCHANGED <<part, vars, channelVars, brokerVars>>

\* Each part is scheduled as its own specification says.
CallsSpec ==
    /\ CallsInit /\ [][CallsNext]_callVars
    /\ WF_vars(part = "mailbox" /\ (SendRecord \/ LoseRecord))
    /\ WF_vars(part = "mailbox" /\ GiveUp)
    /\ WF_vars(part = "mailbox" /\ Process)
    /\ WF_channelVars(part = "channel" /\ Channel!HostStep)
    /\ WF_channelVars(part = "channel" /\ Channel!GiveUp)
    /\ WF_brokerVars(part = "broker" /\ Broker!OwnerStep)
    /\ \A n \in 1 .. MaxRequests :
        WF_brokerVars(part = "broker" /\ n \in Broker!Numbers /\ Broker!Respond(n))
    /\ \A c \in 1 .. 2 : WF_controlVars(part = "control" /\ Control!Step(c))
    /\ WF_controlVars(part = "control" /\ Control!HandleRuntimeControl)
    /\ WF_controlVars(part = "control" /\ Control!ServiceCdcControl)
    /\ WF_controlVars(part = "control" /\ Control!Restart)
    /\ WF_controlVars(part = "control" /\ Control!Boot)

-----------------------------------------------------------------------------
(***************************************************************************)
(* The properties of the parts, next to those of Mailbox.                  *)
(***************************************************************************)

\* exchange_hid_request and its clients implement Rpc, its liveness included:
\* no handler runs twice for one call, every exchange ends, and a success was
\* carried out for that very call, unless the request repeats the type and
\* the sequence of a failed one: WorkloadClient (workload_client.py:45) and the
\* identity probe (session.py:504) do not advance on failure, and whoever asks
\* next with the same type may take the late reply.
Used(value, unused) == IF part = "channel" THEN value ELSE unused
ChannelCalls == INSTANCE Rpc WITH
    issued <- Used(begun, 0), open <- Used(Channel!OpenCall, 0),
    executed <- Used(handled, {}), succeeded <- Used(Channel!Succeeded, {})
ChannelImplementsCalls == ChannelCalls!Spec

\* Whatever client is used, an accepted reply puts Host and device in step:
\* nothing that was late before it is accepted after it.
AcceptanceResynchronises == Channel!AcceptanceResynchronises

\* Every handler of the broker ends, although it awaits without a limit.
HandlersEnd == Broker!HandlersEnd

\* A workload control that was audited is seen by later clients, although
\* publish() is not atomic.
AuditBecomesVisible == Broker!AuditBecomesVisible

\* A restart command that reports PASS is obeyed by the firmware.
PassIsObeyed == Control!PassIsObeyed
=============================================================================
