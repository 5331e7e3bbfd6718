----------------------------- MODULE HostSession -----------------------------
(***************************************************************************)
(* The loop of one Host session (persistent_monitor in session.py): the    *)
(* status it starts with, the refresh that a CDC line asks for, the polls  *)
(* and the verdict of a physical regression, the commands that drive the   *)
(* life cycle of a workload, the evidence it collects (session_evidence.py)*)
(* and its exit code.  The session is the owner of the device, and then    *)
(* executes the requests of its broker's clients between two commands, or  *)
(* one of these clients, and then others act on the device between any two *)
(* of its records.                                                         *)
(*                                                                         *)
(* The device is reduced to what its replies show: the life cycle of       *)
(* CanonicalRuntime with the data of an upload left out (BEGIN and COMMIT  *)
(* stand for its records).  A record or its reply may get lost, which ends *)
(* the transaction; that a late reply may answer a later request is the    *)
(* subject of RequestChannel.  Wall time is left out: a poll may be due in *)
(* any turn and the deadline of the regression expires at some time.       *)
(***************************************************************************)
EXTENDS Naturals, Sequences

CONSTANTS
    Own, Other,     \* the images this session and the others upload
    NoImage,        \* the `image` of a result without metadata
    Settings        \* the sessions, with their bounds

\* owner: the session owns the device; regression: --physical-regression;
\* othersUpload: other clients upload workloads.  The bounds are those on the
\* uploads that begin, the runs of a workload, the commands of the user, the
\* records that get no reply and the requests of other clients; cycles are the
\* cycle counts a run may end with.
SessionAssumption ==
    /\ Settings \subseteq
           [owner : BOOLEAN, regression : BOOLEAN, othersUpload : BOOLEAN,
            maxUploads : Nat, maxRuns : Nat, maxCommands : Nat, maxLost : Nat,
            maxOthers : Nat, cycles : SUBSET (Nat \ {0})]
    /\ NoImage \notin {Own, Other}

VARIABLES
    setting,        \* the session at hand
    \* the device
    dev,            \* what a status reply shows
    transfer,       \* whose upload is in progress
    images,         \* the image of each workload id
    diag,           \* the snapshot of a stopped executor is available
    ended,          \* the executor ended this run by itself
    lines,          \* [WORKLOAD ...] lines on the CDC interface
    uploads, runs, others, lost,
    \* the session
    pc,
    view,           \* WorkloadRuntimeState
    todo,           \* the records of the transaction that are left
    purpose,        \* what the transaction is for
    pending,        \* workload_completion_pending
    commands,       \* regression_commands
    started,        \* regression_started
    passed,         \* regression_passed
    expired,        \* time.monotonic() >= regression_deadline
    transportError, \* transport_error is not None
    used, exit,
    \* SessionEvidence
    bound,          \* _image_workload_id and _image
    results,        \* workload_results
    last,           \* _last_terminal
    observed,       \* diagnostics_observed
    retained,       \* bus_diagnostics, the ones read on a fault
    \* history
    mine,           \* ids of the workloads this session uploaded
    achieved        \* ids of the workloads that completed with PASS

device == <<dev, transfer, images, diag, ended, lines, uploads, runs, mine, achieved>>
regression == <<commands, started, passed, expired>>
evidence == <<bound, results, last, observed, retained>>
vars == <<setting, device, others, lost, pc, view, todo, purpose, pending, regression,
          transportError, used, exit, evidence>>

\* Definitions named X_Y are X with the fault Y planted in it; no module uses them.

Stopped == {"STOPPED", "COMPLETED", "FAULTED", "TIMED_OUT"}
Failed == {"FAULTED", "TIMED_OUT"}
Idle == [id |-> 0, lifecycle |-> "EMPTY", cycles |-> 0, reason |-> "NONE", pass |-> FALSE,
         identified |-> FALSE, prepared |-> FALSE]
Nothing == [id |-> 0, lifecycle |-> "EMPTY", cycles |-> 0, reason |-> "NONE"]
Unbound == [id |-> 0, image |-> NoImage]
Send(op, id) == [op |-> op, id |-> id]
Upload == <<Send("begin", 0), Send("commit", 0)>>

Init ==
    /\ setting \in Settings
    /\ \E i, p \in BOOLEAN : dev = [Idle EXCEPT !.identified = i, !.prepared = p]
    /\ transfer = "none" /\ images = <<>> /\ diag = FALSE /\ ended = FALSE
    /\ lines = <<>> /\ uploads = 0 /\ runs = 0 /\ others = 0 /\ lost = 0
    /\ pc = "send" /\ purpose = "startup" /\ todo = <<Send("status", 0)>>
    /\ view = Idle
    /\ pending = FALSE
    /\ commands = IF setting.regression THEN <<"load", "run">> ELSE <<>>
    /\ started = FALSE /\ passed = "none" /\ expired = FALSE
    /\ transportError = FALSE /\ used = 0 /\ exit = "none"
    /\ bound = Unbound /\ results = <<>> /\ last = Idle /\ observed = Nothing
    /\ retained = <<>> /\ mine = {} /\ achieved = {}

-----------------------------------------------------------------------------
(***************************************************************************)
(* The device: whether it accepts a workload record, and what it does with *)
(* it.  A COMMIT of another transfer is refused and faults the upload; a   *)
(* start that fails is refused and faults the workload.                    *)
(***************************************************************************)
Matches(id) == dev.id # 0 /\ id \in {0, dev.id}

Accepts(who, r) ==
    \/ r.op = "status" /\ r.id \in {0, dev.id}
    \/ r.op = "begin" /\ dev.lifecycle \notin {"RUNNING", "COMPLETED"}
    \/ r.op = "commit" /\ dev.lifecycle = "RECEIVING" /\ transfer = who
    \/ r.op = "run" /\ Matches(r.id) /\ dev.lifecycle \in {"STAGED", "STOPPED"}
    \/ r.op = "stop" /\ Matches(r.id) /\ dev.lifecycle \in {"RUNNING", "COMPLETED"}
    \/ /\ r.op = "restart" /\ Matches(r.id)
       /\ dev.lifecycle \in {"STAGED", "RUNNING", "STOPPED", "COMPLETED"}

Becomes(l) == dev' = [dev EXCEPT !.lifecycle = l]
\* reset_native_result and the cleared statistics of the bus.
Fresh(d, l, why) ==
    [d EXCEPT !.lifecycle = l, !.cycles = 0, !.pass = FALSE, !.reason = why]

Execute(who, r) ==
    \/ r.op = "status" /\ UNCHANGED device
    \/ /\ r.op = "begin" /\ uploads < setting.maxUploads
       /\ Becomes("RECEIVING") /\ transfer' = who
       /\ diag' = FALSE /\ ended' = FALSE /\ uploads' = uploads + 1
       /\ UNCHANGED <<images, lines, runs, mine, achieved>>
    \/ /\ r.op = "commit"
       /\ dev' = Fresh([dev EXCEPT !.id = @ + 1], "STAGED", "NONE")
       /\ images' = Append(images, IF who = "me" THEN Own ELSE Other)
       /\ mine' = IF who = "me" THEN mine \cup {dev.id + 1} ELSE mine
       /\ UNCHANGED <<transfer, diag, ended, lines, uploads, runs, achieved>>
    \/ /\ r.op \in {"run", "restart"} /\ runs < setting.maxRuns
       /\ dev' = Fresh(dev, "RUNNING", "NONE")
       /\ diag' = FALSE /\ ended' = FALSE /\ runs' = runs + 1
       /\ UNCHANGED <<transfer, images, lines, uploads, mine, achieved>>
    \/ /\ r.op = "stop" /\ diag' = TRUE /\ ended' = FALSE
       /\ dev' = [dev EXCEPT !.lifecycle = "STOPPED",
                             !.reason = IF @ = "NONE" THEN "STOP_REQUESTED" ELSE @]
       /\ UNCHANGED <<transfer, images, lines, uploads, runs, mine, achieved>>

Refuse(who, r) ==
    \/ ~Accepts(who, r) /\ ~(r.op = "commit" /\ dev.lifecycle = "RECEIVING")
       /\ UNCHANGED device
    \/ /\ ~Accepts(who, r) /\ r.op = "commit" /\ dev.lifecycle = "RECEIVING"
       /\ Becomes("FAULTED")
       /\ UNCHANGED <<transfer, images, diag, ended, lines, uploads, runs, mine, achieved>>
    \/ /\ Accepts(who, r) /\ r.op \in {"run", "restart"} /\ runs < setting.maxRuns
       /\ dev' = Fresh(dev, "FAULTED", "START_FAILURE")
       /\ diag' = TRUE /\ ended' = FALSE /\ runs' = runs + 1
       /\ UNCHANGED <<transfer, images, lines, uploads, mine, achieved>>

\* A running workload completes, faults or times out, and says so on the CDC
\* interface, which only the owner reads.
Ways == {[to |-> "COMPLETED", why |-> "NATIVE_HLT"], [to |-> "FAULTED", why |-> "BUS_FAULT"],
         [to |-> "TIMED_OUT", why |-> "EXECUTION_DEADLINE"],
         [to |-> "TIMED_OUT", why |-> "NO_BUS_CYCLE"]}
Ends(way, c, p) ==
    /\ dev.lifecycle = "RUNNING"
    /\ p => way.to = "COMPLETED"
    /\ dev' = [dev EXCEPT !.lifecycle = way.to, !.cycles = c, !.pass = p, !.reason = way.why]
    /\ lines' = IF setting.owner THEN Append(lines, way.to) ELSE lines
    /\ diag' = TRUE /\ ended' = TRUE
    /\ achieved' = IF p THEN achieved \cup {dev.id} ELSE achieved
    /\ UNCHANGED <<transfer, images, uploads, runs, mine, others, lost, pc, view, todo,
                   purpose, pending, regression, transportError, used, exit, evidence>>

-----------------------------------------------------------------------------
(***************************************************************************)
(* SessionEvidence.  Two observations are the same result when nothing of  *)
(* the snapshot differs; an image is only reported for the workload it was *)
(* bound to.                                                               *)
(***************************************************************************)
Snapshot(v, b) ==
    [id |-> v.id, lifecycle |-> v.lifecycle, cycles |-> v.cycles, reason |-> v.reason,
     pass |-> v.lifecycle = "COMPLETED" /\ v.pass,
     image |-> IF b.id = v.id THEN b.image ELSE NoImage]

ObserveWorkload_FirstOnly(v, b) ==
    /\ last' = Snapshot(v, b)
    /\ results' = IF v.lifecycle \in Stopped /\ last.lifecycle \notin Stopped
                  THEN Append(results, Snapshot(v, b)) ELSE results
ObserveWorkload(v, b) ==
    LET s == Snapshot(v, b)
    IN  IF v.lifecycle \notin Stopped
        THEN last' = Idle /\ results' = results
        ELSE /\ last' = s
             /\ results' = IF s # last THEN Append(results, s) ELSE results

Key(v) == [id |-> v.id, lifecycle |-> v.lifecycle, cycles |-> v.cycles, reason |-> v.reason]

(***************************************************************************)
(* What follows a record of a transaction: the next one, or the            *)
(* continuation of the code that asked for the transaction.  `Fatal` are   *)
(* the failures that end a regression at once.                             *)
(***************************************************************************)
Fatal(ok) ==
    /\ setting.regression
    /\ \/ ~ok /\ purpose \in {"startup", "stopForLoad", "upload", "run", "stop", "restart"}
       \/ purpose = "startup" /\ ~view'.identified

BindWorkload(ok) == purpose = "upload" /\ ok

TransactionEnds(ok) ==
    /\ passed' = IF Fatal(ok) THEN "fail" ELSE passed
    /\ started' = (started \/ (setting.regression /\ ok /\ purpose = "run"))
    /\ UNCHANGED <<commands, expired>>
    /\ pc' = CASE Fatal(ok) -> "closing"
               [] purpose = "refresh" -> "poll"
               [] purpose = "poll" -> "verdict"
               [] purpose = "stopForLoad" /\ ok -> "send"
               [] OTHER -> "turn"
    /\ IF purpose = "stopForLoad" /\ ok
       THEN todo' = Upload /\ purpose' = "upload"
       ELSE todo' = <<>> /\ purpose' = "none"

NextRecord ==
    IF Len(todo) > 1
    THEN todo' = Tail(todo) /\ pc' = "send" /\ UNCHANGED <<purpose, regression>>
    ELSE TransactionEnds(TRUE)

TransactionFails ==
    /\ UNCHANGED <<view, last, results, observed, retained>>
    /\ bound' = IF BindWorkload(FALSE) THEN [id |-> view.id, image |-> Own] ELSE bound
    /\ TransactionEnds(FALSE)

\* accept_workload_state, up to the diagnostics it reads from the device, and
\* bind_workload once the last record of an upload was accepted.
AcceptWorkloadState(v) ==
    LET kept == IF bound.id = v.id THEN bound ELSE Unbound
        read == v.lifecycle \in Failed /\ Key(v) # observed
    IN  /\ view' = v
        /\ ObserveWorkload(v, kept)
        /\ bound' = IF BindWorkload(TRUE) /\ Len(todo) = 1
                    THEN [id |-> v.id, image |-> Own] ELSE kept
        /\ observed' = IF v.lifecycle \in Failed THEN Key(v) ELSE Nothing
        /\ IF read THEN pc' = "diagnose" /\ UNCHANGED <<todo, purpose, regression>>
                   ELSE NextRecord
        /\ retained' = retained

(***************************************************************************)
(* drain_cdc: a line about the end of a run asks for a status.  It is also *)
(* called while an exchange waits for its reply.                           *)
(***************************************************************************)
AsksForStatus_CompletedOnly(l) == l = "COMPLETED"
AsksForStatus(l) == l \in {"COMPLETED", "FAULTED", "TIMED_OUT"}

DrainCdc ==
    IF transportError THEN UNCHANGED <<pending, lines>>
    ELSE /\ pending' = (pending \/ \E i \in DOMAIN lines : AsksForStatus(lines[i]))
         /\ lines' = <<>>

DrainWhileWaiting ==
    /\ pc \in {"send", "diagnose", "trace", "prepare"} /\ lines # <<>>
    /\ DrainCdc
    /\ UNCHANGED <<dev, transfer, images, diag, ended, uploads, runs, mine, achieved,
                   others, lost, pc, view, todo, purpose, regression, transportError,
                   used, exit, evidence>>

(***************************************************************************)
(* exchange, for one record of WorkloadClient.transact: the reply arrives; *)
(* the device refuses the record; the record or its reply is lost; the     *)
(* device or the broker is gone.                                           *)
(***************************************************************************)
Exchange ==
    /\ pc = "send"
    /\ \/ /\ ~transportError /\ Accepts("me", todo[1]) /\ Execute("me", todo[1])
          /\ AcceptWorkloadState(dev')
          /\ UNCHANGED <<lost, transportError>>
       \/ /\ ~transportError /\ Refuse("me", todo[1])
          /\ TransactionFails
          /\ UNCHANGED <<lost, transportError>>
       \/ /\ ~transportError /\ lost < setting.maxLost /\ lost' = lost + 1
          /\ \/ UNCHANGED device
             \/ Accepts("me", todo[1]) /\ Execute("me", todo[1])
          /\ TransactionFails
          /\ UNCHANGED transportError
       \/ /\ transportError' = TRUE
          /\ TransactionFails
          /\ UNCHANGED <<device, lost>>
    /\ UNCHANGED <<others, pending, used, exit>>

\* BusDiagnostics.from_reply and retain_diagnostics: the snapshot of the
\* workload that was asked for (0 for any), retained once when repeated.
Readable(id) == diag /\ dev.lifecycle \in Stopped /\ dev.id # 0 /\ id \in {0, dev.id}

Retain(auto) ==
    IF retained # <<>> /\ retained[Len(retained)].of = Key(dev) THEN retained
    ELSE Append(retained, [of |-> Key(dev), auto |-> auto])

SameAttempt(v) == dev.lifecycle = v.lifecycle /\ dev.cycles = v.cycles /\ dev.reason = v.reason

\* The rest of accept_workload_state: read the snapshot of the fault, which
\* another client may have replaced by now.
Diagnose ==
    /\ pc = "diagnose"
    /\ view' = view
    /\ \/ /\ ~transportError /\ Readable(view.id)
          /\ retained' = IF SameAttempt(view) THEN Retain(TRUE) ELSE retained
          /\ UNCHANGED <<lost, transportError>>
       \/ /\ ~transportError /\ ~Readable(view.id)
          /\ UNCHANGED <<retained, lost, transportError>>
       \/ /\ ~transportError /\ lost < setting.maxLost /\ lost' = lost + 1
          /\ UNCHANGED <<retained, transportError>>
       \/ /\ transportError' = TRUE
          /\ UNCHANGED <<retained, lost>>
    /\ NextRecord
    /\ UNCHANGED <<device, others, pending, used, exit, bound, results, last, observed>>

-----------------------------------------------------------------------------
(***************************************************************************)
(* The turns of the loop.  ServeBroker is one iteration of                 *)
(* service_broker_requests with a workload record of another client;       *)
(* BrokerSession models the broker itself.                                 *)
(***************************************************************************)
Requests == {Send(op, 0) : op \in {"run", "stop", "restart"}
                           \cup (IF setting.othersUpload THEN {"begin", "commit"} ELSE {})}

ServeBroker(r) ==
    /\ setting.owner /\ pc = "turn" /\ others < setting.maxOthers /\ others' = others + 1
    /\ ~transportError
    /\ \/ Accepts("other", r) /\ Execute("other", r) /\ AcceptWorkloadState(dev')
       \/ /\ Refuse("other", r)
          /\ UNCHANGED <<pc, view, todo, purpose, regression, evidence>>
    /\ UNCHANGED <<lost, pending, transportError, used, exit>>

\* The session is a client: the device is another process's.
OtherClient(r) ==
    /\ ~setting.owner /\ pc # "closed" /\ others < setting.maxOthers /\ others' = others + 1
    /\ \/ Accepts("other", r) /\ Execute("other", r)
       \/ Refuse("other", r)
    /\ UNCHANGED <<lost, pc, view, todo, purpose, pending, regression, transportError,
                   used, exit, evidence>>

StartTurn ==
    /\ pc = "turn"
    /\ DrainCdc
    /\ pc' = IF transportError THEN "closing" ELSE "refresh"
    /\ UNCHANGED <<dev, transfer, images, diag, ended, uploads, runs, mine, achieved,
                   others, lost, view, todo, purpose, regression, transportError, used,
                   exit, evidence>>

local == <<device, others, lost, view, transportError, exit, evidence>>

Transact(why, records) == pc' = "send" /\ todo' = records /\ purpose' = why

CompletionRefresh ==
    /\ pc = "refresh"
    /\ pending' = FALSE
    /\ IF pending THEN Transact("refresh", <<Send("status", view.id)>>)
                  ELSE pc' = "poll" /\ UNCHANGED <<todo, purpose>>
    /\ UNCHANGED <<local, regression, used>>

\* Another poll of the regression may be due, or not yet.
Poll ==
    /\ pc = "poll"
    /\ \/ /\ started /\ view.lifecycle # "COMPLETED"
          /\ Transact("poll", <<Send("status", view.id)>>)
       \/ pc' = "verdict" /\ UNCHANGED <<todo, purpose>>
    /\ UNCHANGED <<local, pending, regression, used>>

PhysicalRegressionPassed_Completed(v) == v.lifecycle = "COMPLETED" /\ v.identified
PhysicalRegressionPassed(v) == v.lifecycle = "COMPLETED" /\ v.pass /\ v.identified

DeadlineExpired == setting.regression /\ expired

Verdict ==
    /\ pc = "verdict"
    /\ \/ /\ started /\ view.lifecycle = "COMPLETED"
          /\ passed' = IF PhysicalRegressionPassed(view) THEN "pass" ELSE "fail"
          /\ pc' = "closing"
       \/ /\ started /\ view.lifecycle \in Failed
          /\ passed' = "fail" /\ pc' = "closing"
       \/ /\ ~(started /\ view.lifecycle \in Failed \cup {"COMPLETED"})
          /\ DeadlineExpired
          /\ passed' = "fail" /\ pc' = "closing"
       \/ /\ ~(started /\ view.lifecycle \in Failed \cup {"COMPLETED"})
          /\ ~DeadlineExpired
          /\ passed' = passed /\ pc' = "command"
    /\ UNCHANGED <<local, todo, purpose, pending, commands, started, expired, used>>

Deadline ==
    /\ setting.regression /\ ~expired /\ expired' = TRUE
    /\ UNCHANGED <<local, pc, todo, purpose, pending, commands, started, passed, used>>

-----------------------------------------------------------------------------
(***************************************************************************)
(* The commands.  A regression issues its own, a user any of them.         *)
(***************************************************************************)
Command(name) ==
    /\ pc = "command"
    /\ IF commands # <<>>
       THEN name = commands[1] /\ commands' = Tail(commands) /\ used' = used
       ELSE /\ ~setting.regression /\ used < setting.maxCommands
            /\ used' = used + 1 /\ commands' = commands

\* load: a package that cannot be read ends a regression.
Load ==
    /\ Command("load")
    /\ \/ /\ IF view.lifecycle \in {"RUNNING", "COMPLETED"}
             THEN Transact("stopForLoad", <<Send("stop", view.id)>>)
             ELSE Transact("upload", Upload)
          /\ passed' = passed
       \/ /\ UNCHANGED <<todo, purpose>>
          /\ passed' = IF setting.regression THEN "fail" ELSE passed
          /\ pc' = IF setting.regression THEN "closing" ELSE "turn"
    /\ UNCHANGED <<local, pending, started, expired>>

\* status, run, stop and restart; run and restart first obtain the identity
\* of a prepared runtime that is not initialized.
Control(name) ==
    /\ Command(name)
    /\ IF name \in {"run", "restart"} /\ ~view.prepared
       THEN pc' = "prepare" /\ purpose' = name /\ todo' = <<Send(name, 0)>>
       ELSE Transact(name, <<Send(name, IF name = "status" THEN view.id ELSE 0)>>)
    /\ UNCHANGED <<local, pending, passed, started, expired>>

\* ensure_prepared_runtime_initialized: a heartbeat, answered or not.
Prepare ==
    /\ pc = "prepare"
    /\ \/ /\ ~transportError
          /\ view' = [view EXCEPT !.prepared = TRUE] /\ pc' = "send"
          /\ UNCHANGED <<todo, purpose, transportError>>
       \/ /\ transportError' \in {transportError, TRUE}
          /\ pc' = "turn" /\ todo' = <<>> /\ purpose' = "none" /\ view' = view
    /\ UNCHANGED <<device, others, lost, exit, evidence, pending, regression, used>>

\* trace: the snapshot of whatever stopped last, when the read succeeds.
Trace ==
    /\ Command("trace")
    /\ retained' \in {retained} \cup (IF ~transportError /\ Readable(0)
                                     THEN {Retain(FALSE)} ELSE {})
    /\ pc' = "turn"
    /\ UNCHANGED <<device, others, lost, view, transportError, exit, bound, results, last,
                   observed, todo, purpose, pending, passed, started, expired>>

\* No command, or one that does not concern the life cycle of a workload.
NoCommand ==
    /\ pc = "command" /\ commands = <<>>
    /\ pc' = "turn"
    /\ UNCHANGED <<local, todo, purpose, pending, regression, used>>

\* quit, and the KeyboardInterrupt that the loop catches.
Quit ==
    /\ pc \in {"turn", "command"}
    /\ pc' = "closing"
    /\ UNCHANGED <<local, todo, purpose, pending, regression, used>>

ExitCode ==
    CASE transportError -> "TRANSPORT"
      [] ~transportError /\ setting.regression /\ passed # "pass" -> "VALIDATION"
      [] OTHER -> "PASS"

Close ==
    /\ pc = "closing"
    /\ DrainCdc
    /\ pc' = "closed" /\ exit' = ExitCode
    /\ UNCHANGED <<dev, transfer, images, diag, ended, uploads, runs, mine, achieved,
                   others, lost, view, todo, purpose, regression, transportError, used,
                   evidence>>

Closed == pc = "closed" /\ UNCHANGED vars

-----------------------------------------------------------------------------
Session ==
    /\ \/ Exchange \/ Diagnose \/ StartTurn \/ CompletionRefresh \/ Poll \/ Verdict
       \/ Load \/ Prepare \/ Trace \/ NoCommand \/ Close
       \/ \E name \in {"status", "run", "stop", "restart"} : Control(name)
    /\ UNCHANGED setting

\* What does not wait for the loop: its reader, its user, its deadline and the
\* other side.
Others ==
    /\ \/ DrainWhileWaiting \/ Quit \/ Deadline
       \/ \E r \in Requests : ServeBroker(r) \/ OtherClient(r)
       \/ \E way \in Ways, c \in setting.cycles, p \in BOOLEAN : Ends(way, c, p)
    /\ UNCHANGED setting

Next == Session \/ Others \/ Closed

Spec == Init /\ [][Next]_vars /\ WF_vars(Session)

-----------------------------------------------------------------------------
(***************************************************************************)
(* Properties.                                                             *)
(***************************************************************************)

\* The session JSON names an image only for a workload that this session
\* uploaded itself, whoever else uploaded, ran or replaced workloads in the
\* meantime: bind_workload after a complete upload, observe_workload and
\* workload_snapshot by workload id.
ImageIsOwn ==
    \A i \in DOMAIN results :
        results[i].image # NoImage =>
            results[i].id \in mine /\ images[results[i].id] = results[i].image

\* What the session believes to have stopped is what its evidence reports: no
\* path that updates the view, the requests of broker clients and the refresh
\* after a CDC line included, goes past observe_workload.
EvidenceIsCurrent ==
    view.lifecycle \in Stopped =>
        results # <<>> /\ [results[Len(results)] EXCEPT !.image = NoImage] = Snapshot(view, Unbound)

\* A bus snapshot that the session read by itself belongs to a failure that it
\* reports, even when another client restarted the workload between the
\* status and the read.
DiagnosticsMatch ==
    \A i \in DOMAIN retained :
        retained[i].auto =>
            \E j \in DOMAIN results : Key(results[j]) = retained[i].of

\* A regression exits with PASS only when a workload that it uploaded itself
\* completed with PASS on the processor; the other clients run and stop
\* workloads, and upload none.
RegressionPassIsReal ==
    setting.regression /\ ~setting.othersUpload /\ exit = "PASS" => mine \cap achieved # {}

\* The owner finds out how a run ended without being asked: a line on the CDC
\* interface leads to a status, unless the run was superseded or the session
\* closed.  The line is taken to arrive (CdcStream says when it does) and the
\* status to be answered: persistent_monitor asks once.
CompletionIsSeen ==
    (setting.owner /\ setting.maxLost = 0 /\ ended /\ pc # "closed")
        ~> (Key(view) = Key(dev) \/ ~ended \/ pc = "closed")
=============================================================================
