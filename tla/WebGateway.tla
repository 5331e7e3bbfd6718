----------------------------- MODULE WebGateway -----------------------------
(***************************************************************************)
(* The requests of browsers to the Web applications: PublicSession and the *)
(* handler of rp86_remote.py, and the operations of WebApi that drive the  *)
(* device through the broker (rp86_web_api.py).  Every request has a       *)
(* thread of its own; the operations take request_lock.                    *)
(*                                                                         *)
(* An upload is Records records, BEGIN first and COMMIT last.  The state   *)
(* of the device is "ready" (EMPTY, STAGED or STOPPED), "receiving",       *)
(* "running", "completed" or "failed" (FAULTED or TIMED_OUT); a workload   *)
(* that runs may end by itself.  `known` is what the owner learned from    *)
(* the last reply ok, `view` what its broker has published of it.  A       *)
(* record or its reply may be lost; a client of the broker outside the Web *)
(* application may act at any time.                                        *)
(***************************************************************************)
EXTENDS Naturals

CONSTANTS
    Browsers, Threads,
    Nobody,         \* request_lock is free
    Records,        \* records of an upload
    MaxRequests, MaxTokens, MaxLost, MaxOutside     \* bounds on what happens

GatewayAssumption ==
    /\ Records \in Nat /\ Records >= 2
    /\ {MaxRequests, MaxTokens, MaxLost, MaxOutside} \subseteq Nat
    /\ Nobody \notin Threads

VARIABLES
    token, held,    \* PublicSession._token, and the token of each browser
    issued,         \* tokens issued so far
    lock,           \* request_lock
    pc, kind, number,     \* of each thread: its request
    position,       \* the record of an upload that is next
    attempt,        \* of a command
    ok,             \* the answer
    requests, lost, outside,
    life, transfer, received,
    known, view,
    staged,         \* history: the request whose upload was committed last
    disturbed,      \* history: since the last hello a record or reply was lost or
                    \* a client outside acted
    misread         \* history: the last hello showed a busy processor that was not
                    \* busy, or the reverse, or the workload ended since

session == <<token, held, issued>>
device == <<life, transfer, received, staged>>
history == <<disturbed, misread>>
vars == <<session, lock, pc, kind, number, position, attempt, ok, requests, lost,
          outside, device, known, view, history>>

\* Definitions named X_Y are X with the fault Y planted in it; no module uses them.

Kinds == {"upload", "run", "stop", "restart", "command"}
Busy == {"running", "completed"}

Init ==
    /\ token = 0 /\ held = [b \in Browsers |-> 0] /\ issued = 0
    /\ lock = Nobody
    /\ pc = [t \in Threads |-> "idle"]
    /\ kind = [t \in Threads |-> "run"]
    /\ number = [t \in Threads |-> 0]
    /\ position = [t \in Threads |-> 1]
    /\ attempt = [t \in Threads |-> 1]
    /\ ok = [t \in Threads |-> FALSE]
    /\ requests = 0 /\ lost = 0 /\ outside = 0
    /\ life = "ready" /\ transfer = 0 /\ received = 0 /\ staged = 0
    /\ known = "ready" /\ view = "ready"
    /\ disturbed = FALSE /\ misread = FALSE

-----------------------------------------------------------------------------
(***************************************************************************)
(* PublicSession.  An acquire that resumes or conflicts, and a release     *)
(* without the token, change nothing.                                      *)
(***************************************************************************)
Mine(b) == token # 0 /\ held[b] = token

Acquire(b) ==
    /\ token = 0 /\ issued < MaxTokens
    /\ issued' = issued + 1
    /\ token' = issued' /\ held' = [held EXCEPT ![b] = issued']
    /\ UNCHANGED <<lock, pc, kind, number, position, attempt, ok, requests, lost,
                   outside, device, known, view, history>>

Release(b) ==
    /\ Mine(b)
    /\ token' = 0
    /\ UNCHANGED <<held, issued, lock, pc, kind, number, position, attempt, ok,
                   requests, lost, outside, device, known, view, history>>

\* do_POST: authorize, then the operation, which first waits for request_lock.
Post(t, b, k) ==
    /\ pc[t] = "idle" /\ requests < MaxRequests
    /\ Mine(b)
    /\ requests' = requests + 1
    /\ pc' = [pc EXCEPT ![t] = "wait"]
    /\ kind' = [kind EXCEPT ![t] = k]
    /\ number' = [number EXCEPT ![t] = requests']
    /\ UNCHANGED <<session, lock, position, attempt, ok, lost, outside, device, known,
                   view, history>>

LockIsFree == lock = Nobody

Lock(t) ==
    /\ pc[t] = "wait" /\ LockIsFree
    /\ lock' = t
    /\ pc' = [pc EXCEPT ![t] = "hello"]
    /\ UNCHANGED <<session, kind, number, position, attempt, ok, requests, lost, outside,
                   device, known, view, history>>

-----------------------------------------------------------------------------
(***************************************************************************)
(* The device, for a record of request n (0: a client outside).            *)
(***************************************************************************)
UploadOp(i) == IF i = 1 THEN "begin" ELSE IF i = Records THEN "commit" ELSE "data"
Op(t) == IF pc[t] = "stop" THEN "stop"
         ELSE IF kind[t] = "upload" THEN UploadOp(position[t]) ELSE kind[t]

Accepts(op, n, i) ==
    \/ op = "begin" /\ life \notin Busy
    \/ op = "data" /\ life = "receiving" /\ transfer = n /\ received = i - 1
    \/ op = "commit" /\ life = "receiving" /\ transfer = n /\ received = Records - 1
    \/ op = "stop" /\ life \in Busy
    \/ op = "run" /\ life = "ready" /\ staged # 0
    \/ op = "restart" /\ life \in Busy \cup {"ready"} /\ staged # 0
    \/ op \in {"command", "status"}

Execute(op, n) ==
    /\ life' = CASE op = "begin" -> "receiving"
                 [] op \in {"commit", "stop"} -> "ready"
                 [] op \in {"run", "restart"} -> "running"
                 [] OTHER -> life
    /\ transfer' = IF op = "begin" THEN n ELSE transfer
    /\ received' = CASE op = "begin" -> 1
                     [] op = "data" -> received + 1
                     [] OTHER -> received
    /\ staged' = CASE op = "begin" -> 0
                   [] op = "commit" -> n
                   [] OTHER -> staged

\* A COMMIT that does not match faults the workload; so does a start that fails.
Refuse(op, n, i) ==
    /\ \/ /\ ~Accepts(op, n, i)
          /\ life' = IF op = "commit" /\ life = "receiving" THEN "failed" ELSE life
       \/ /\ Accepts(op, n, i) /\ op \in {"run", "restart"}
          /\ life' = "failed"
    /\ UNCHANGED <<transfer, received, staged>>

\* The processor completes, faults or runs out of time.
Ends ==
    /\ life = "running" /\ life' \in {"completed", "failed"}
    /\ misread' = TRUE
    /\ UNCHANGED <<session, lock, pc, kind, number, position, attempt, ok, requests, lost,
                   outside, transfer, received, staged, known, view, disturbed>>

\* A client outside the Web application; the owner sees its replies too.
Outside(op) ==
    /\ outside < MaxOutside /\ outside' = outside + 1
    /\ \/ Accepts(op, 0, 1) /\ Execute(op, 0) /\ known' \in {known, life'}
       \/ Refuse(op, 0, 1) /\ UNCHANGED known
    /\ disturbed' = TRUE
    /\ UNCHANGED <<session, lock, pc, kind, number, position, attempt, ok, requests, lost,
                   view, misread>>

\* The owner asks for the status, after a line that reports an end among others.
Refresh ==
    /\ known # life /\ known' = life
    /\ UNCHANGED <<session, lock, pc, kind, number, position, attempt, ok, requests, lost,
                   outside, device, view, history>>

\* service_broker_requests: the snapshot is published after the futures of the
\* replies are resolved, so a request can follow its own reply with a hello that
\* still shows the state before.
Publish ==
    /\ view # known /\ view' = known
    /\ UNCHANGED <<session, lock, pc, kind, number, position, attempt, ok, requests, lost,
                   outside, device, known, history>>

-----------------------------------------------------------------------------
(***************************************************************************)
(* The operations.  A record that is not answered with OK ends an upload   *)
(* or a control request; a command is tried once more, from the hello on   *)
(* (as is the read of memory, which changes nothing).                      *)
(***************************************************************************)
Answer(t, success) ==
    /\ pc' = [pc EXCEPT ![t] = "answer"]
    /\ ok' = [ok EXCEPT ![t] = success]

WorkloadUpload_Anyway(t, replied) ==
    /\ UNCHANGED attempt
    /\ \/ /\ pc[t] = "stop"
          /\ pc' = [pc EXCEPT ![t] = "send"] /\ UNCHANGED <<ok, position>>
       \/ /\ pc[t] # "stop" /\ position[t] < Records
          /\ position' = [position EXCEPT ![t] = @ + 1] /\ UNCHANGED <<pc, ok>>
       \/ /\ pc[t] # "stop" /\ position[t] = Records
          /\ Answer(t, TRUE) /\ UNCHANGED position
WorkloadUpload(t, replied) ==
    /\ UNCHANGED attempt
    /\ \/ /\ replied /\ pc[t] = "stop"
          /\ pc' = [pc EXCEPT ![t] = "send"] /\ UNCHANGED <<ok, position>>
       \/ /\ replied /\ pc[t] = "send" /\ position[t] < Records
          /\ position' = [position EXCEPT ![t] = @ + 1] /\ UNCHANGED <<pc, ok>>
       \/ /\ replied /\ pc[t] = "send" /\ position[t] = Records
          /\ Answer(t, TRUE) /\ UNCHANGED position
       \/ ~replied /\ Answer(t, FALSE) /\ UNCHANGED position

WorkloadControl(t, replied) == Answer(t, replied) /\ UNCHANGED <<position, attempt>>

ProcessorCommand(t, replied) ==
    /\ UNCHANGED position
    /\ \/ /\ ~replied /\ attempt[t] = 1
          /\ attempt' = [attempt EXCEPT ![t] = 2]
          /\ pc' = [pc EXCEPT ![t] = "hello"] /\ UNCHANGED ok
       \/ (replied \/ attempt[t] = 2) /\ Answer(t, replied) /\ UNCHANGED attempt

Advance(t, replied) ==
    \/ kind[t] = "upload" /\ WorkloadUpload(t, replied)
    \/ kind[t] = "command" /\ ProcessorCommand(t, replied)
    \/ kind[t] \notin {"upload", "command"} /\ WorkloadControl(t, replied)

\* hello: the sequence, and for an upload whether to stop the processor first.
Hello(t) ==
    /\ pc[t] = "hello"
    /\ \/ /\ pc' = [pc EXCEPT ![t] =
                        IF kind[t] = "upload" /\ view \in Busy THEN "stop" ELSE "send"]
          /\ disturbed' = FALSE
          /\ misread' = ((view \in Busy) # (life \in Busy))
          /\ UNCHANGED <<position, attempt, ok, lost>>
       \/ lost < MaxLost /\ lost' = lost + 1 /\ Advance(t, FALSE) /\ UNCHANGED history
    /\ UNCHANGED <<session, lock, kind, number, requests, outside, device, known, view>>

Exchange(t) ==
    /\ pc[t] \in {"stop", "send"}
    /\ \/ /\ Accepts(Op(t), number[t], position[t]) /\ Execute(Op(t), number[t])
          /\ known' = IF Op(t) = "command" THEN known ELSE life'
          /\ UNCHANGED <<lost, disturbed>>
          /\ Advance(t, TRUE)
       \/ /\ Refuse(Op(t), number[t], position[t])
          /\ UNCHANGED <<lost, disturbed, known>>
          /\ Advance(t, FALSE)
       \/ /\ lost < MaxLost /\ lost' = lost + 1 /\ disturbed' = TRUE
          /\ UNCHANGED known
          /\ \/ UNCHANGED device
             \/ Accepts(Op(t), number[t], position[t]) /\ Execute(Op(t), number[t])
          /\ Advance(t, FALSE)
    /\ UNCHANGED <<session, lock, kind, number, requests, outside, view, misread>>

Reply(t) ==
    /\ pc[t] = "answer"
    /\ pc' = [pc EXCEPT ![t] = "idle"]
    /\ lock' = IF lock = t THEN Nobody ELSE lock
    /\ number' = [number EXCEPT ![t] = 0]
    /\ kind' = [kind EXCEPT ![t] = "run"]
    /\ position' = [position EXCEPT ![t] = 1]
    /\ attempt' = [attempt EXCEPT ![t] = 1]
    /\ ok' = [ok EXCEPT ![t] = FALSE]
    /\ UNCHANGED <<session, requests, lost, outside, device, known, view, history>>

-----------------------------------------------------------------------------
Quiet ==
    /\ \A t \in Threads : pc[t] = "idle"
    /\ UNCHANGED vars

Thread(t) == Hello(t) \/ Exchange(t) \/ Reply(t)

Next ==
    \/ \E b \in Browsers : Acquire(b) \/ Release(b)
    \/ \E t \in Threads, b \in Browsers, k \in Kinds : Post(t, b, k)
    \/ \E t \in Threads : Lock(t) \/ Thread(t)
    \/ \E op \in {"begin", "commit", "run", "restart", "stop", "status"} : Outside(op)
    \/ Ends \/ Refresh \/ Publish \/ Quiet

Spec == Init /\ [][Next]_vars

-----------------------------------------------------------------------------
(***************************************************************************)
(* Properties.                                                             *)
(***************************************************************************)

\* An upload that is answered with ok staged the image of this request, all
\* of it, whatever other clients did to the transfer in the meantime.
StagesItsImage ==
    \A t \in Threads :
        (pc[t] = "send" /\ kind[t] = "upload" /\ pc'[t] = "answer" /\ ok'[t])
            => staged' = number[t] /\ received' = Records - 1

\* Browsers do not disturb each other: request_lock is held from the hello to
\* the last record, so an upload fails only when since its hello something was
\* lost or a client outside acted, or at its first record, STOP or BEGIN, when
\* the hello did not show what the processor did.
FailsOnlyDisturbed ==
    \A t \in Threads :
        (pc[t] \in {"stop", "send"} /\ kind[t] = "upload" /\ pc'[t] = "answer" /\ ~ok'[t])
            => disturbed' \/ (misread /\ position[t] = 1)
=============================================================================
