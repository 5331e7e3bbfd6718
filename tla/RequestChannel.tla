--------------------------- MODULE RequestChannel ---------------------------
(***************************************************************************)
(* One Host request at a time over USB HID: exchange_hid_request and the   *)
(* clients that number requests (RequestSequence, WorkloadClient,          *)
(* RuntimeServiceClient, the live requests of the session), against the    *)
(* record slot, handler and reply endpoint of the RP2350.                  *)
(*                                                                         *)
(* A record travels Host -> slot -> handling -> endpoint -> inbox.  A full *)
(* slot drops the record, a busy endpoint drops the reply, and the device  *)
(* may be so late that the Host has given the request up long before.      *)
(* Replies carry the kind and the sequence of their request, which is all  *)
(* the Host compares; the field "call" is the number of the request, which *)
(* no code sees and the properties speak about.                            *)
(*                                                                         *)
(* Definitions named X_Y are X with the fault Y planted in it; no module   *)
(* uses them.                                                              *)
(***************************************************************************)
EXTENDS Integers, Sequences

CONSTANTS
    MaxSequence,    \* sequences are 1 .. MaxSequence; 2^32 - 1 in the code
    FirstSequence,  \* the sequence the session starts with
    MaxCalls        \* bound: how many requests are explored

(***************************************************************************)
(* Who sends a request: RuntimeServiceClient, a live request of the main   *)
(* loop, the identity probe, which sends a live HEARTBEAT of its own, and  *)
(* WorkloadClient.  The record does not tell the second from the third.    *)
(***************************************************************************)
AllKinds == {"service", "live", "identity", "workload"}

WireType(kind) == IF kind = "identity" THEN "live" ELSE kind

(* Fewer requests than sequences: one session would have to send 2^32      *)
(* requests, each at least 50 ms long, to repeat one.                      *)
ChannelAssumption ==
    /\ MaxSequence \in Nat
    /\ FirstSequence \in 1 .. MaxSequence
    /\ MaxCalls \in Nat
    /\ MaxCalls < MaxSequence

VARIABLES
    sequence,   \* RequestSequence.value
    calls,      \* how many requests were begun
    phase,      \* where exchange_hid_request is
    request,    \* its request
    slot,       \* g_hid_out_slot, a sequence of at most one record
    handling,   \* the record a handler of the main loop works on, ditto
    endpoint,   \* the report queued on the IN endpoint, ditto
    inbox,      \* the reports the Host's HID driver holds
    executed,   \* history: the calls a handler has finished
    accepted,   \* history: which call asked and which was answered, in order
    verdicts,   \* history: the calls reported to the caller as successful
    kept,       \* history: type and sequence of the failed requests whose
                \* client does not advance
    doubtful    \* history: the calls begun with a type and a sequence of kept

hostVars == <<sequence, calls, phase, request, accepted, verdicts, kept, doubtful>>
deviceVars == <<slot, handling, endpoint, executed>>
vars == <<hostVars, deviceVars, inbox>>

Init ==
    /\ sequence = FirstSequence
    /\ calls = 0
    /\ phase = "idle"
    /\ request = <<>>
    /\ slot = <<>> /\ handling = <<>> /\ endpoint = <<>> /\ inbox = <<>>
    /\ executed = {} /\ accepted = <<>> /\ verdicts = {}
    /\ kept = {} /\ doubtful = {}

AdvanceAfter(s) ==
    IF s = MaxSequence THEN 1 ELSE s + 1

(***************************************************************************)
(* The sequence a client leaves behind after an exchange.  The requests of *)
(* RuntimeServiceClient and of the main loop advance whatever happened;    *)
(* WorkloadClient.transact and the identity probe return a failure without *)
(* advancing.                                                              *)
(***************************************************************************)
ServiceRequest_OnReplyOnly(replied) ==
    IF replied THEN AdvanceAfter(request[1].sequence) ELSE sequence

ServiceRequest(replied) ==
    AdvanceAfter(request[1].sequence)

LiveRequest(replied) ==
    AdvanceAfter(request[1].sequence)

WorkloadTransact(replied) ==
    IF replied THEN AdvanceAfter(request[1].sequence) ELSE sequence

EnsurePreparedRuntimeInitialized(replied) ==
    IF replied THEN AdvanceAfter(request[1].sequence) ELSE sequence

SequenceAfter(replied) ==
    CASE request[1].kind = "service" -> ServiceRequest(replied)
      [] request[1].kind = "live" -> LiveRequest(replied)
      [] request[1].kind = "identity" -> EnsurePreparedRuntimeInitialized(replied)
      [] request[1].kind = "workload" -> WorkloadTransact(replied)

KeepingClients == {"identity", "workload"}

Tag(record) == <<WireType(record.kind), record.sequence>>

(***************************************************************************)
(* The Host.  A session issues a request when the last one has ended; what *)
(* is buffered is read and thrown away, and the record is written.         *)
(***************************************************************************)
Begin ==
    /\ phase = "idle"
    /\ calls < MaxCalls
    /\ \E kind \in AllKinds :
          request' = <<[call |-> calls + 1, kind |-> kind, sequence |-> sequence]>>
    /\ calls' = calls + 1
    /\ phase' = "draining"
    /\ doubtful' = IF Tag(request'[1]) \in kept THEN doubtful \cup {calls + 1} ELSE doubtful
    /\ UNCHANGED <<sequence, accepted, verdicts, kept, deviceVars, inbox>>

Drain ==
    /\ phase = "draining"
    /\ IF inbox # <<>>
       THEN inbox' = Tail(inbox) /\ UNCHANGED phase
       ELSE phase' = "writing" /\ UNCHANGED inbox
    /\ UNCHANGED <<sequence, calls, request, accepted, verdicts, kept, doubtful, deviceVars>>

TryPublish(record) ==
    slot' = IF slot = <<>> THEN <<record>> ELSE slot

Write ==
    /\ phase = "writing"
    /\ TryPublish(request[1])
    /\ phase' = "waiting"
    /\ UNCHANGED <<sequence, calls, request, accepted, verdicts, kept, doubtful,
                   handling, endpoint, executed, inbox>>

(***************************************************************************)
(* The exchange gives up: a short write, a CDC error met while waiting, or *)
(* the deadline.                                                           *)
(***************************************************************************)
GiveUp ==
    /\ phase \in {"writing", "waiting"}
    /\ phase' = "idle"
    /\ sequence' = SequenceAfter(FALSE)
    /\ request' = <<>>
    /\ kept' = IF request[1].kind \in KeepingClients THEN kept \cup {Tag(request[1])} ELSE kept
    /\ UNCHANGED <<calls, accepted, verdicts, doubtful, deviceVars, inbox>>

(* An OSError of the HID handle is a transport error and ends the session. *)
Disconnect ==
    /\ phase \in {"draining", "writing", "waiting"}
    /\ phase' = "closed"
    /\ request' = <<>>
    /\ UNCHANGED <<sequence, calls, accepted, verdicts, kept, doubtful, deviceVars, inbox>>

(***************************************************************************)
(* Kind and sequence decide whether a record answers the request.  A       *)
(* refusal (a status that is not OK, or a witness of another service, text *)
(* or processor) is stale traffic for a live or a workload request;        *)
(* validate_device_reply hands it to a service client, which reports it.   *)
(***************************************************************************)
ValidateLiveReply(reply) ==
    /\ reply.kind = "live"
    /\ reply.sequence = request[1].sequence
    /\ reply.ok

ValidateDeviceReply_AnySequence(reply) ==
    /\ reply.kind = WireType(request[1].kind)
    /\ reply.kind # "service" => reply.ok

ValidateDeviceReply(reply) ==
    \/ WireType(request[1].kind) = "live" /\ ValidateLiveReply(reply)
    \/ /\ request[1].kind = "service"
       /\ reply.kind = "service"
       /\ reply.sequence = request[1].sequence
    \/ /\ request[1].kind = "workload"
       /\ reply.kind = "workload"
       /\ reply.sequence = request[1].sequence
       /\ reply.ok

ReadReply ==
    /\ phase = "waiting"
    /\ inbox # <<>>
    /\ LET reply == Head(inbox)
       IN  IF ValidateDeviceReply(reply)
           THEN /\ phase' = "idle"
                /\ request' = <<>>
                /\ sequence' = SequenceAfter(TRUE)
                /\ accepted' = Append(accepted, [asked |-> request[1].call,
                                                 answered |-> reply.call])
                /\ verdicts' = IF reply.ok THEN verdicts \cup {request[1].call}
                                           ELSE verdicts
           ELSE UNCHANGED <<phase, request, sequence, accepted, verdicts>>
    /\ inbox' = Tail(inbox)
    /\ UNCHANGED <<calls, kept, doubtful, deviceVars>>

(***************************************************************************)
(* The device.  The main loop takes the record, runs its handler and sends *)
(* the reply; hid_send_record gives up when the endpoint stays busy.       *)
(***************************************************************************)
TakeRecord ==
    /\ slot # <<>>
    /\ handling = <<>>
    /\ handling' = slot
    /\ slot' = <<>>
    /\ UNCHANGED <<hostVars, endpoint, executed, inbox>>

ReplyTo(record, ok) ==
    [call |-> record.call, kind |-> WireType(record.kind), sequence |-> record.sequence, ok |-> ok]

Handle ==
    /\ handling # <<>>
    /\ \E ok \in BOOLEAN : endpoint' = IF endpoint = <<>>
                                       THEN <<ReplyTo(handling[1], ok)>>
                                       ELSE endpoint
    /\ executed' = executed \cup {handling[1].call}
    /\ handling' = <<>>
    /\ UNCHANGED <<hostVars, slot, inbox>>

(* The Host controller polls the endpoint.                                 *)
Deliver ==
    /\ endpoint # <<>>
    /\ inbox' = Append(inbox, endpoint[1])
    /\ endpoint' = <<>>
    /\ UNCHANGED <<hostVars, slot, handling, executed>>

Finished ==
    /\ phase \in {"idle", "closed"}
    /\ phase = "idle" => calls = MaxCalls
    /\ slot = <<>> /\ handling = <<>> /\ endpoint = <<>>
    /\ UNCHANGED vars

HostStep == Drain \/ Write \/ ReadReply

Next ==
    \/ Begin \/ HostStep \/ GiveUp \/ Disconnect
    \/ TakeRecord \/ Handle \/ Deliver
    \/ Finished

(***************************************************************************)
(* The deadline of an exchange passes: GiveUp is fair.  So is the Host's   *)
(* own code.  Nothing is assumed of the device.                            *)
(***************************************************************************)
Spec == Init /\ [][Next]_vars /\ WF_vars(HostStep) /\ WF_vars(GiveUp)

-----------------------------------------------------------------------------
(* An accepted reply puts Host and device in step again: whatever was late *)
(* before it (in the slot, a handler, the endpoint or the inbox) is never  *)
(* accepted after it.  The clients that keep the sequence of a failed      *)
(* request may take its late reply for that of its successor; they never   *)
(* stay one behind.                                                        *)
AcceptanceResynchronises ==
    \A i, j \in DOMAIN accepted : i < j => accepted[i].asked < accepted[j].answered

(***************************************************************************)
(* The layer implements the calls of module Rpc: what the caller is told   *)
(* succeeded was carried out by the device, once, for that very call.  A   *)
(* success that may be the late answer to a kept sequence counts for       *)
(* nothing.                                                                *)
(***************************************************************************)
OpenCall == IF request = <<>> THEN 0 ELSE request[1].call

Succeeded == verdicts \ doubtful
=============================================================================
