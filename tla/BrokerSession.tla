---------------------------- MODULE BrokerSession ----------------------------
(***************************************************************************)
(* Host clients sharing the device through its owner: DeviceBroker's TCP   *)
(* handlers, which queue a request and await its future without a limit;   *)
(* service_broker_requests of the owner's session, which serves the queues *)
(* between its own requests and publishes a snapshot; and BrokerClient,    *)
(* which gives up after its own timeout, leaving its request behind.       *)
(*                                                                         *)
(* Requests are numbered in the order they are made and never reused; the  *)
(* sequences they carry to the device, and the owner's own requests, are   *)
(* left out.                                                               *)
(* Handlers run on the broker's event loop, the owner on the main thread.  *)
(*                                                                         *)
(* Definitions named X_Y are X with the fault Y planted in it; no module   *)
(* uses them.                                                              *)
(***************************************************************************)
EXTENDS Integers, Sequences, FiniteSets

CONSTANTS
    Client,         \* the client processes
    AuditLimit,     \* CONTROL_AUDIT_LIMIT
    MaxRequests     \* bound: requests of all clients

BrokerAssumption == MaxRequests \in Nat /\ AuditLimit \in Nat \ {0}

Operations == {"record", "workload", "status", "reboot"}
Exchanges == {"record", "workload"}

VARIABLES
    requests,   \* the requests made, each with its client and operation
    future,     \* their futures: "pending", "done", "cancelled"
    replied,    \* requests whose handler has written its response
    awaited,    \* which request a client is waiting for, 0 for none
    queue,      \* DeviceBroker.requests
    controls,   \* DeviceBroker.controls
    batch,      \* what pending() returned and is not served yet
    owner,      \* where the owner's loop is
    stop,       \* the session's stop flag
    audit,      \* _control_audit, the last workload controls answered
    copied,     \* the copy publish() took under the lock
    snapshot    \* the control audit in the broker's snapshot

ownerVars == <<batch, owner, stop, copied>>
vars == <<requests, future, replied, awaited, queue, controls, audit, snapshot, ownerVars>>

Numbers == 1 .. Len(requests)

Init ==
    /\ requests = <<>> /\ future = <<>> /\ replied = {}
    /\ awaited = [c \in Client |-> 0]
    /\ queue = <<>> /\ controls = <<>> /\ batch = <<>>
    /\ owner = "looping"
    /\ stop = FALSE
    /\ audit = <<>> /\ copied = <<>>
    /\ snapshot = <<>>

(***************************************************************************)
(* Clients.  The handler decodes a request, queues it and awaits its       *)
(* future.                                                                 *)
(***************************************************************************)
SendRequest(c) ==
    /\ awaited[c] = 0
    /\ Len(requests) < MaxRequests
    /\ owner # "closed"
    /\ \E operation \in Operations :
         /\ requests' = Append(requests, [client |-> c, operation |-> operation])
         /\ LET n == Len(requests) + 1
            IN  IF operation \in Exchanges
                THEN queue' = Append(queue, n) /\ UNCHANGED controls
                ELSE controls' = Append(controls, n) /\ UNCHANGED queue
    /\ future' = Append(future, "pending")
    /\ awaited' = [awaited EXCEPT ![c] = Len(requests) + 1]
    /\ UNCHANGED <<replied, audit, snapshot, ownerVars>>

(* _rpc's socket timeout: the handler and the queued request stay.         *)
ClientTimesOut(c) ==
    /\ awaited[c] # 0
    /\ awaited[c] \notin replied
    /\ awaited' = [awaited EXCEPT ![c] = 0]
    /\ UNCHANGED <<requests, future, replied, queue, controls, audit, snapshot, ownerVars>>

ClientReceives(c) ==
    /\ awaited[c] \in replied
    /\ awaited' = [awaited EXCEPT ![c] = 0]
    /\ UNCHANGED <<requests, future, replied, queue, controls, audit, snapshot, ownerVars>>

(* A workload control enters the audit, which keeps the newest entries,    *)
(* and the snapshot that is in place.                                      *)
Newest(entries) ==
    IF Len(entries) > AuditLimit THEN Tail(entries) ELSE entries

RecordControlAudit(n) ==
    /\ audit' = Newest(Append(audit, n))
    /\ snapshot' = audit'

(* A handler whose future is done records the control and responds.        *)
Respond(n) ==
    /\ n \in Numbers \ replied
    /\ future[n] = "done"
    /\ replied' = replied \cup {n}
    /\ IF requests[n].operation = "workload"
       THEN RecordControlAudit(n)
       ELSE UNCHANGED <<audit, snapshot>>
    /\ UNCHANGED <<requests, future, awaited, queue, controls, ownerVars>>

(* Handlers that the closing event loop cancels end without a response.    *)
HandlerEnded(n) == n \in replied \/ future[n] = "cancelled"

(***************************************************************************)
(* The owner.  One turn of the main loop serves what was queued when it    *)
(* began, then every control, then publishes.                              *)
(***************************************************************************)
Pending ==
    /\ owner = "looping"
    /\ ~stop
    /\ batch' = queue
    /\ queue' = <<>>
    /\ owner' = "serving"
    /\ UNCHANGED <<requests, future, replied, awaited, controls, audit, snapshot,
                   stop, copied>>

Resolve(n) ==
    future' = [future EXCEPT ![n] = "done"]

(* One exchange: it may fail, and it may find the transport gone.          *)
ServeExchange_ErrorUnreported ==
    /\ owner = "serving"
    /\ batch # <<>>
    /\ Resolve(Head(batch)) \/ UNCHANGED future
    /\ UNCHANGED stop
    /\ batch' = Tail(batch)
    /\ UNCHANGED <<requests, replied, awaited, queue, controls, audit, snapshot,
                   owner, copied>>

ServeExchange ==
    /\ owner = "serving"
    /\ batch # <<>>
    /\ LET n == Head(batch)
       IN  /\ Resolve(n)
           /\ stop' \in {stop, TRUE}
    /\ batch' = Tail(batch)
    /\ UNCHANGED <<requests, replied, awaited, queue, controls, audit, snapshot,
                   owner, copied>>

(* A reboot that the device acknowledged ends the session after this turn. *)
ServeControl ==
    /\ owner = "serving"
    /\ batch = <<>>
    /\ controls # <<>>
    /\ LET n == Head(controls)
       IN  /\ Resolve(n)
           /\ \/ requests[n].operation = "reboot" /\ stop' = TRUE
              \/ UNCHANGED stop
    /\ controls' = Tail(controls)
    /\ UNCHANGED <<requests, replied, awaited, queue, audit, snapshot,
                   batch, owner, copied>>

(* publish() copies the audit under its lock and replaces the snapshot     *)
(* after it has let the lock go.                                           *)
PublishCopies ==
    /\ owner = "serving"
    /\ batch = <<>>
    /\ controls = <<>>
    /\ copied' = audit
    /\ owner' = "publishing"
    /\ UNCHANGED <<requests, future, replied, awaited, queue, controls, audit, snapshot,
                   batch, stop>>

PublishReplaces_WithoutAudit ==
    /\ owner = "publishing"
    /\ snapshot' = <<>>
    /\ owner' = "looping"
    /\ UNCHANGED <<requests, future, replied, awaited, queue, controls, audit,
                   batch, stop, copied>>

PublishReplaces ==
    /\ owner = "publishing"
    /\ snapshot' = copied
    /\ owner' = "looping"
    /\ UNCHANGED <<requests, future, replied, awaited, queue, controls, audit,
                   batch, stop, copied>>

Quit ==
    /\ owner = "looping"
    /\ stop' = TRUE
    /\ UNCHANGED <<requests, future, replied, awaited, queue, controls, audit, snapshot,
                   batch, owner, copied>>

(* stop(): the event loop ends and cancels every handler still waiting.    *)
CloseBroker ==
    /\ owner = "looping"
    /\ stop
    /\ owner' = "closed"
    /\ future' = [n \in Numbers |-> IF n \in replied THEN future[n] ELSE "cancelled"]
    /\ UNCHANGED <<requests, replied, awaited, queue, controls, audit, snapshot,
                   batch, stop, copied>>

OwnerStep == Pending \/ ServeExchange \/ ServeControl \/ PublishCopies \/ PublishReplaces
                \/ CloseBroker

Next ==
    \/ \E c \in Client : SendRequest(c) \/ ClientTimesOut(c) \/ ClientReceives(c)
    \/ \E n \in Numbers : Respond(n)
    \/ OwnerStep \/ Quit
    \/ owner = "closed" /\ UNCHANGED vars

(* The owner's loop turns, and the broker's event loop runs what is ready. *)
Fairness ==
    /\ WF_vars(OwnerStep)
    /\ \A n \in 1 .. MaxRequests : WF_vars(n \in Numbers /\ Respond(n))

Spec == Init /\ [][Next]_vars /\ Fairness

-----------------------------------------------------------------------------
(* _handle_client awaits its future without a limit: still every handler   *)
(* ends, because the loop serves what is queued or the broker is closed.   *)
HandlersEnd ==
    \A n \in 1 .. MaxRequests : n \in Numbers ~> (n \in Numbers /\ HandlerEnded(n))

(* An audited workload control is seen by later clients, unless newer ones *)
(* push it out of the audit first: an entry that publish() overwrites is   *)
(* back after the next turn of the loop.                                   *)
Audited(n) == \E i \in DOMAIN audit : audit[i] = n

AuditBecomesVisible ==
    \A n \in 1 .. MaxRequests :
        Audited(n) ~> \/ owner = "closed"
                      \/ \E i \in DOMAIN snapshot : snapshot[i] = n
                      \/ ~Audited(n)
=============================================================================
