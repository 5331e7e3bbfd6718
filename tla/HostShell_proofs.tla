-------------------------- MODULE HostShell_proofs --------------------------
(***************************************************************************)
(* Proofs about HostShell: the evidence and the verdict of a session, and  *)
(* its native probes.  The line editor has a module of its own.            *)
(***************************************************************************)
EXTENDS HostShell, TLAPS

-----------------------------------------------------------------------------
(***************************************************************************)
(* The session.  The device: the ids in use, whose images they are, and    *)
(* what the completion reason tells.                                       *)
(***************************************************************************)
Lifecycles == {"EMPTY", "RECEIVING", "STAGED", "RUNNING"} \cup Loop!Stopped

Reasons == {"NONE", "STOP_REQUESTED", "START_FAILURE", "NATIVE_HLT", "BUS_FAULT",
            "EXECUTION_DEADLINE", "NO_BUS_CYCLE"}
States == [id : Nat, lifecycle : Lifecycles, cycles : Nat, reason : Reasons,
           pass : BOOLEAN, identified : BOOLEAN, prepared : BOOLEAN]

DeviceTypes ==
    /\ setting \in Settings /\ dev \in States /\ diag \in BOOLEAN
    /\ images \in Seq({Own, Other}) /\ Len(images) = dev.id

\* The workloads this session uploaded have its image; only others who upload
\* account for the rest.
ImagesKnown ==
    /\ mine \subseteq 1 .. dev.id
    /\ \A i \in mine : images[i] = Own
    /\ ~setting.othersUpload => mine = 1 .. dev.id

\* A workload that never was has no history; the snapshot of a failure comes
\* from the executor, which says why; an upload clears it.
ReasonKnown ==
    /\ dev.id = 0 => dev.reason = "NONE" /\ dev.lifecycle # "RUNNING"
    /\ dev.lifecycle = "RECEIVING" => ~diag
    /\ diag /\ dev.lifecycle \in Loop!Failed => dev.reason # "NONE"

\* What completed with PASS has achieved it.
PassesKnown ==
    /\ achieved \subseteq 1 .. dev.id
    /\ dev.lifecycle = "COMPLETED" /\ dev.pass => dev.id \in achieved

DeviceInv == DeviceTypes /\ ImagesKnown /\ ReasonKnown /\ PassesKnown

\* The view of the session is a state the device was in.
ViewKnown ==
    /\ view \in States
    /\ view.id = 0 => view.reason = "NONE"
    /\ view.lifecycle = "COMPLETED" /\ view.pass => view.id \in achieved

\* The last terminal state is the last result, and that of the view.
LastIsCurrent ==
    IF view.lifecycle \in Loop!Stopped
    THEN /\ results # <<>> /\ last = results[Len(results)]
         /\ last = [Loop!Snapshot(view, Loop!Unbound) EXCEPT !.image = last.image]
    ELSE last = Loop!Idle

\* The records of an upload; nothing is left over between two transactions.
UploadPart ==
    /\ purpose = "upload" => todo \in {Loop!Upload, <<Loop!Send("commit", 0)>>}
    /\ pc \in {"turn", "refresh", "poll", "verdict", "command"} => purpose = "none"

Results == [id : Nat, lifecycle : Loop!Stopped, cycles : Nat, reason : Reasons, pass : BOOLEAN,
            image : {Own, NoImage}]
ImagesReported ==
    /\ results \in Seq(Results)
    /\ bound \in [id : Nat, image : {Own, NoImage}]
    /\ bound.image # NoImage => bound.id \in mine
    /\ \A i \in DOMAIN results : results[i].image # NoImage => results[i].id \in mine

Keys == [id : Nat, lifecycle : Lifecycles, cycles : Nat, reason : Reasons]
SnapshotTypes == retained \in Seq([of : Keys, auto : BOOLEAN])

DiagnosesFailure == pc = "diagnose" => view.lifecycle \in Loop!Failed

\* The verdict of a regression rests on a PASS.
VerdictIsReal ==
    setting.regression /\ (passed = "pass" \/ exit = "PASS") => achieved # {}

SessionInv ==
    /\ DeviceInv /\ ViewKnown /\ LastIsCurrent /\ UploadPart /\ ImagesReported
    /\ SnapshotTypes /\ DiagnosesFailure /\ Loop!DiagnosticsMatch /\ VerdictIsReal

\* A step of the device: the workloads of this session and the ones that
\* passed are not forgotten.
DeviceStep == DeviceInv' /\ mine \subseteq mine' /\ achieved \subseteq achieved' /\ setting' = setting

LEMMA DeviceRests ==
    ASSUME DeviceInv, UNCHANGED <<setting, dev, images, diag, mine, achieved>>
    PROVE  DeviceStep
BY Zenon DEF DeviceInv, DeviceTypes, ImagesKnown, ReasonKnown, PassesKnown, DeviceStep, Loop!Failed

\* A state with a fresh result, and one that stopped.
LEMMA FreshState ==
    ASSUME NEW d \in States, NEW l \in Lifecycles, NEW why \in Reasons
    PROVE  /\ Loop!Fresh(d, l, why) \in States
           /\ Loop!Fresh(d, l, why).id = d.id /\ Loop!Fresh(d, l, why).lifecycle = l
           /\ Loop!Fresh(d, l, why).reason = why
<1>1. [d EXCEPT !.lifecycle = l] \in States
  BY Zenon DEF States
<1>2. [[d EXCEPT !.lifecycle = l] EXCEPT !.cycles = 0] \in States
  BY <1>1, Zenon DEF States
<1>3. [[[d EXCEPT !.lifecycle = l] EXCEPT !.cycles = 0] EXCEPT !.pass = FALSE] \in States
  BY <1>2, Zenon DEF States
<1>4. QED
  BY <1>3, Zenon DEF States, Loop!Fresh

\* A record that the device accepts, of this session or of another client.
LEMMA ExecuteStep ==
    ASSUME DeviceInv, setting' = setting, NEW who \in {"me", "other"}, NEW r,
           Loop!Accepts(who, r), Loop!Execute(who, r),
           who = "other" /\ r.op = "commit" => setting.othersUpload
    PROVE  DeviceStep /\ (who = "me" /\ r.op = "commit" => dev'.id \in mine')
<1>1. CASE r.op = "status"
  BY <1>1, DeviceRests, Zenon DEF Loop!Execute, Loop!device
<1>2. CASE r.op = "begin"
  <2>1. /\ dev' = [dev EXCEPT !.lifecycle = "RECEIVING"] /\ diag' = FALSE
        /\ UNCHANGED <<images, mine, achieved>>
        /\ dev.lifecycle \notin {"RUNNING", "COMPLETED"}
    BY <1>2, Zenon DEF Loop!Execute, Loop!Accepts, Loop!Becomes
  <2>2. QED
    BY <1>2, <2>1, Zenon DEF DeviceInv, DeviceTypes, ImagesKnown, ReasonKnown, PassesKnown, DeviceStep,
                      States, Lifecycles, Loop!Failed, Loop!Stopped
<1>3. CASE r.op = "commit"
  <2>1. /\ dev' = Loop!Fresh([dev EXCEPT !.id = dev.id + 1], "STAGED", "NONE")
        /\ images' = Append(images, IF who = "me" THEN Own ELSE Other)
        /\ mine' = IF who = "me" THEN mine \cup {dev.id + 1} ELSE mine
        /\ UNCHANGED <<diag, achieved>> /\ dev.lifecycle = "RECEIVING"
    BY <1>3, Zenon DEF Loop!Execute, Loop!Accepts
  <2>2. /\ dev' \in States /\ dev'.id = dev.id + 1 /\ dev'.lifecycle = "STAGED"
        /\ dev'.reason = "NONE"
    <3> DEFINE d == [dev EXCEPT !.id = dev.id + 1]
    <3>1. d \in States /\ d.id = dev.id + 1
      BY DEF DeviceInv, DeviceTypes, States
    <3>2. "STAGED" \in Lifecycles /\ "NONE" \in Reasons
      BY Zenon DEF Lifecycles, Reasons
    <3>3. dev' = Loop!Fresh(d, "STAGED", "NONE")
      BY <2>1, Zenon
    <3> HIDE DEF d
    <3>4. QED
      BY <3>1, <3>2, <3>3, FreshState
  <2>3. /\ images' \in Seq({Own, Other}) /\ Len(images') = dev.id + 1
        /\ \A i \in 1 .. dev.id : images'[i] = images[i]
        /\ images'[dev.id + 1] = IF who = "me" THEN Own ELSE Other
    BY <2>1 DEF DeviceInv, DeviceTypes
  <2>4. DeviceTypes'
    BY <2>1, <2>2, <2>3, Zenon DEF DeviceInv, DeviceTypes
  <2>5. ImagesKnown'
    <3>1. dev.id \in Nat
      BY Zenon DEF DeviceInv, DeviceTypes, States
    <3>2. CASE who = "me"
      BY <2>1, <2>2, <2>3, <3>1, <3>2 DEF DeviceInv, ImagesKnown
    <3>3. CASE who = "other"
      BY <1>3, <2>1, <2>2, <2>3, <3>1, <3>3 DEF DeviceInv, ImagesKnown
    <3>4. QED
      BY <3>2, <3>3, Zenon
  <2>6. ReasonKnown' /\ PassesKnown'
    <3>1. dev.id \in Nat
      BY Zenon DEF DeviceInv, DeviceTypes, States
    <3>2. ReasonKnown'
      BY <2>2, <3>1, Zenon DEF ReasonKnown, Loop!Failed
    <3>3. PassesKnown'
      BY <2>1, <2>2, <3>1 DEF DeviceInv, PassesKnown
    <3>4. QED
      BY <3>2, <3>3, Zenon
  <2>7. QED
    BY <1>3, <2>1, <2>2, <2>4, <2>5, <2>6, Zenon DEF DeviceInv, DeviceStep
<1>4. CASE r.op \in {"run", "restart"}
  <2>1. /\ dev' = Loop!Fresh(dev, "RUNNING", "NONE")
        /\ UNCHANGED <<images, mine, achieved>> /\ dev.id # 0 /\ diag' = FALSE
    BY <1>4, Zenon DEF Loop!Execute, Loop!Accepts, Loop!Matches
  <2>2. "RUNNING" \in Lifecycles /\ "NONE" \in Reasons
    BY Zenon DEF Lifecycles, Reasons
  <2>3. dev' \in States /\ dev'.id = dev.id /\ dev'.lifecycle = "RUNNING"
    BY <2>1, <2>2, FreshState DEF DeviceInv, DeviceTypes
  <2>4. QED
    BY <1>4, <2>1, <2>3, Zenon
       DEF DeviceInv, DeviceTypes, ImagesKnown, ReasonKnown, PassesKnown, DeviceStep
<1>5. CASE r.op = "stop"
  <2> DEFINE w == IF dev.reason = "NONE" THEN "STOP_REQUESTED" ELSE dev.reason
  <2>1. /\ dev' = [dev EXCEPT !.lifecycle = "STOPPED", !.reason = w]
        /\ UNCHANGED <<images, mine, achieved>> /\ dev.id # 0 /\ diag' = TRUE
    BY <1>5, Zenon DEF Loop!Execute, Loop!Accepts, Loop!Matches
  <2>2. w \in Reasons /\ "STOPPED" \in Lifecycles
    <3>1. dev.reason \in Reasons
      BY Zenon DEF DeviceInv, DeviceTypes, States
    <3>2. QED
      BY <3>1, Zenon DEF Reasons, Lifecycles, Loop!Stopped
  <2>3. dev' \in States /\ dev'.id = dev.id /\ dev'.lifecycle = "STOPPED"
    <3> HIDE DEF w
    <3>1. QED
      BY <2>1, <2>2, Zenon DEF DeviceInv, DeviceTypes, States
  <2>4. QED
    BY <1>5, <2>1, <2>3, Zenon DEF DeviceInv, DeviceTypes, ImagesKnown, ReasonKnown, PassesKnown,
                            DeviceStep, Loop!Failed
<1>6. QED
  BY <1>1, <1>2, <1>3, <1>4, <1>5, Zenon DEF Loop!Accepts

\* A record that it refuses: a foreign COMMIT faults the upload without a
\* snapshot, a start that fails faults the workload with one.
LEMMA RefuseStep ==
    ASSUME DeviceInv, setting' = setting, NEW who, NEW r, Loop!Refuse(who, r)
    PROVE  DeviceStep
<1>1. CASE UNCHANGED Loop!device
  BY <1>1, DeviceRests, Zenon DEF Loop!device
<1>2. CASE /\ dev.lifecycle = "RECEIVING" /\ Loop!Becomes("FAULTED")
           /\ UNCHANGED <<images, diag, mine, achieved>>
  BY <1>2, Zenon DEF DeviceInv, DeviceTypes, ImagesKnown, ReasonKnown, PassesKnown, DeviceStep,
              States, Lifecycles, Loop!Failed, Loop!Stopped, Loop!Becomes
<1>3. CASE /\ dev' = Loop!Fresh(dev, "FAULTED", "START_FAILURE") /\ dev.id # 0
           /\ diag' = TRUE /\ UNCHANGED <<images, mine, achieved>>
  <2>1. "FAULTED" \in Lifecycles /\ "START_FAILURE" \in Reasons
    BY Zenon DEF Lifecycles, Reasons, Loop!Stopped
  <2>2. /\ dev' \in States /\ dev'.id = dev.id /\ dev'.lifecycle = "FAULTED"
        /\ dev'.reason = "START_FAILURE"
    BY <1>3, <2>1, FreshState DEF DeviceInv, DeviceTypes
  <2>3. QED
    BY <1>3, <2>2, Zenon
       DEF DeviceInv, DeviceTypes, ImagesKnown, ReasonKnown, PassesKnown, DeviceStep
<1>4. QED
  BY <1>1, <1>2, <1>3, Zenon DEF Loop!Refuse, Loop!Accepts, Loop!Matches

\* A running workload ends by itself.
LEMMA EndsStep ==
    ASSUME DeviceInv, setting' = setting, NEW way \in Loop!Ways, NEW c \in setting.cycles,
           NEW p \in BOOLEAN, Loop!Ends(way, c, p)
    PROVE  DeviceStep
<1>1. c \in Nat
  BY ShellAssumption, Zenon DEF DeviceInv, DeviceTypes, Loop!SessionAssumption
<1>2. /\ way.to \in {"COMPLETED", "FAULTED", "TIMED_OUT"}
      /\ way.why \in {"NATIVE_HLT", "BUS_FAULT", "EXECUTION_DEADLINE", "NO_BUS_CYCLE"}
  BY DEF Loop!Ways
<1>3. /\ dev' = [dev EXCEPT !.lifecycle = way.to, !.cycles = c, !.pass = p,
                            !.reason = way.why]
      /\ dev.lifecycle = "RUNNING" /\ diag' = TRUE /\ UNCHANGED <<images, mine>>
      /\ achieved' = IF p THEN achieved \cup {dev.id} ELSE achieved
  BY Zenon DEF Loop!Ends
<1>4. /\ dev' \in States /\ dev'.id = dev.id /\ dev'.reason # "NONE" /\ dev'.pass = p
      /\ dev'.lifecycle \notin {"RECEIVING", "RUNNING"} /\ dev.id \in Nat \ {0}
  <2>1. way.to \in Lifecycles /\ way.why \in Reasons /\ way.why # "NONE"
    BY <1>2, Zenon DEF Lifecycles, Reasons, Loop!Stopped
  <2>2. /\ dev' \in States /\ dev'.id = dev.id /\ dev'.reason = way.why /\ dev'.pass = p
        /\ dev'.lifecycle = way.to
    <3>1. [dev EXCEPT !.lifecycle = way.to] \in States
      BY <2>1, Zenon DEF DeviceInv, DeviceTypes, States
    <3>2. [[dev EXCEPT !.lifecycle = way.to] EXCEPT !.cycles = c] \in States
      BY <1>1, <3>1, Zenon DEF States
    <3>3. [[[dev EXCEPT !.lifecycle = way.to] EXCEPT !.cycles = c] EXCEPT !.pass = p]
              \in States
      BY <3>2, Zenon DEF States
    <3>4. QED
      BY <1>3, <2>1, <3>3, Zenon DEF States
  <2>3. dev.id \in Nat \ {0}
    BY <1>3, Zenon DEF DeviceInv, DeviceTypes, ReasonKnown, States
  <2>4. QED
    BY <1>2, <2>1, <2>2, <2>3, Zenon
<1>5. QED
  BY <1>3, <1>4 DEF DeviceInv, DeviceTypes, ImagesKnown, ReasonKnown, PassesKnown, DeviceStep

\* What follows the last reply of a record.
LEMMA NextRecordStep ==
    ASSUME UploadPart, Loop!NextRecord
    PROVE  /\ UploadPart' /\ pc' # "diagnose" /\ passed' \in {passed, "fail"}
<1>1. CASE Len(todo) > 1
  <2>1. todo' = Tail(todo) /\ pc' = "send" /\ purpose' = purpose /\ passed' = passed
    BY <1>1, Zenon DEF Loop!NextRecord, Loop!regression
  <2>2. purpose = "upload" => todo' = <<Loop!Send("commit", 0)>>
    <3>1. \A x, y : Tail(<<x, y>>) = <<y>> /\ ~(Len(<<x>>) > 1)
      OBVIOUS
    <3>2. QED
      BY <1>1, <2>1, <3>1, Zenon DEF UploadPart, Loop!Upload
  <2>3. QED
    BY <2>1, <2>2, Zenon DEF UploadPart
<1>2. CASE ~(Len(todo) > 1)
  <2>1. Loop!TransactionEnds(TRUE)
    BY <1>2, Zenon DEF Loop!NextRecord
  <2>2. QED
    BY <2>1, Zenon DEF Loop!TransactionEnds, Loop!Fatal, UploadPart
<1>3. QED
  BY <1>1, <1>2, Zenon

\* The session learns no state of the device, which may go on; but it may read
\* a bus snapshot.
LEMMA WatchStep ==
    ASSUME SessionInv, DeviceStep, UNCHANGED <<view, bound, results, last, exit>>,
           Loop!DiagnosticsMatch', SnapshotTypes', UploadPart',
           pc' # "diagnose" \/ pc' = pc, passed' \in {passed, "fail"}
    PROVE  SessionInv'
<1>1. ViewKnown' /\ LastIsCurrent'
  BY Zenon DEF SessionInv, ViewKnown, LastIsCurrent, DeviceStep, Loop!Snapshot, Loop!Unbound,
         Loop!Idle, Loop!Stopped
<1>2. ImagesReported'
  BY Zenon DEF SessionInv, ImagesReported, DeviceStep, Loop!Stopped
<1>3. DiagnosesFailure'
  BY Zenon DEF SessionInv, DiagnosesFailure, Loop!Failed
<1>4. VerdictIsReal'
  BY Zenon DEF SessionInv, VerdictIsReal, DeviceStep
<1>5. QED
  BY <1>1, <1>2, <1>3, <1>4, Zenon DEF SessionInv, DeviceStep

LEMMA QuietStep ==
    ASSUME SessionInv, DeviceStep, UNCHANGED <<view, bound, results, last, retained, exit>>,
           UploadPart', pc' # "diagnose" \/ pc' = pc, passed' \in {passed, "fail"}
    PROVE  SessionInv'
<1>1. Loop!DiagnosticsMatch' /\ SnapshotTypes'
  BY Zenon DEF SessionInv, SnapshotTypes, Loop!DiagnosticsMatch, Loop!Key
<1>2. QED
  BY <1>1, WatchStep, Zenon

\* observe_workload: the last result is the one that stopped last, and its
\* image is that of the upload it was bound to.
LEMMA Observation ==
    ASSUME SessionInv, NEW v \in States, NEW b \in [id : Nat, image : {Own, NoImage}],
           b.image # NoImage => b.id \in mine, Loop!ObserveWorkload(v, b)
    PROVE  /\ v.lifecycle \notin Loop!Stopped => last' = Loop!Idle /\ results' = results
           /\ v.lifecycle \in Loop!Stopped =>
                  /\ last' = Loop!Snapshot(v, b)
                  /\ results' # <<>> /\ results'[Len(results')] = last'
           /\ results' \in Seq(Results)
           /\ Len(results) <= Len(results')
           /\ \A i \in 1 .. Len(results) : results'[i] = results[i]
           /\ \A i \in 1 .. Len(results') : results'[i].image # NoImage => results'[i].id \in mine
<1> DEFINE s == Loop!Snapshot(v, b)
<1>1. results \in Seq(Results) /\ \A i \in 1 .. Len(results) : results[i].image # NoImage => results[i].id \in mine
  BY DEF SessionInv, ImagesReported
<1>2. CASE v.lifecycle \notin Loop!Stopped
  BY <1>1, <1>2 DEF Loop!ObserveWorkload
<1>3. CASE v.lifecycle \in Loop!Stopped
  <2>1. last' = s /\ results' = IF s # last THEN Append(results, s) ELSE results
    BY <1>3, Zenon DEF Loop!ObserveWorkload
  <2>2. s \in Results /\ (s.image # NoImage => s.id \in mine) /\ s.lifecycle = v.lifecycle
    BY <1>3, Zenon DEF Loop!Snapshot, States, Results
  <2>3. CASE s = last
    <3>1. results # <<>> /\ last = results[Len(results)]
      BY <1>3, <2>2, <2>3 DEF SessionInv, LastIsCurrent, Loop!Idle, Loop!Stopped
    <3>2. QED
      BY <1>1, <1>3, <2>1, <2>3, <3>1
  <2>4. CASE s # last
    <3> HIDE DEF s
    <3>1. results' = Append(results, s)
      BY <2>1, <2>4, Zenon
    <3>2. /\ results' \in Seq(Results) /\ Len(results') = Len(results) + 1 /\ Len(results) \in Nat
          /\ \A i \in 1 .. Len(results) : results'[i] = results[i]
          /\ results'[Len(results) + 1] = s
      BY <1>1, <2>2, <3>1
    <3>3. \A i \in 1 .. Len(results') : results'[i].image # NoImage => results'[i].id \in mine
      BY <1>1, <2>2, <3>2
    <3>4. results' # <<>> /\ Len(results) <= Len(results')
      BY <3>2
    <3>5. QED
      BY <1>3, <2>1, <3>2, <3>3, <3>4, Zenon DEF s
  <2>5. QED
    BY <2>3, <2>4, Zenon
<1>4. QED
  BY <1>2, <1>3, Zenon

\* accept_workload_state.
LEMMA AcceptStep ==
    ASSUME SessionInv, DeviceStep, Loop!AcceptWorkloadState(dev'), exit' = exit,
           purpose = "upload" /\ Len(todo) = 1 => dev'.id \in mine'
    PROVE  SessionInv'
<1> DEFINE kept == IF bound.id = dev'.id THEN bound ELSE Loop!Unbound
<1>1. /\ dev' \in States /\ (dev'.id = 0 => dev'.reason = "NONE")
      /\ dev'.lifecycle = "COMPLETED" /\ dev'.pass => dev'.id \in achieved'
  BY Zenon DEF DeviceStep, DeviceInv, DeviceTypes, ReasonKnown, PassesKnown
<1>2. /\ kept \in [id : Nat, image : {Own, NoImage}]
      /\ kept.image # NoImage => kept.id \in mine
  BY Zenon DEF SessionInv, ImagesReported, Loop!Unbound
<1>3. /\ view' = dev' /\ Loop!ObserveWorkload(dev', kept) /\ retained' = retained
      /\ bound' = IF purpose = "upload" /\ Len(todo) = 1
                  THEN [id |-> dev'.id, image |-> Own] ELSE kept
  BY Zenon DEF Loop!AcceptWorkloadState, Loop!BindWorkload
<1>4. \/ pc' = "diagnose" /\ dev'.lifecycle \in Loop!Failed /\ UNCHANGED <<todo, purpose, passed>>
      \/ Loop!NextRecord
  BY Zenon DEF Loop!AcceptWorkloadState, Loop!regression
<1>5. /\ dev'.lifecycle \notin Loop!Stopped => last' = Loop!Idle /\ results' = results
      /\ dev'.lifecycle \in Loop!Stopped =>
             /\ last' = Loop!Snapshot(dev', kept)
             /\ results' # <<>> /\ results'[Len(results')] = last'
      /\ results' \in Seq(Results)
      /\ Len(results) <= Len(results')
      /\ \A i \in 1 .. Len(results) : results'[i] = results[i]
      /\ \A i \in 1 .. Len(results') : results'[i].image # NoImage => results'[i].id \in mine
  <2> HIDE DEF kept
  <2>1. QED
    BY <1>1, <1>2, <1>3, Observation, Zenon
<1>6. ViewKnown'
  BY <1>1, <1>3, Zenon DEF ViewKnown
<1>7. LastIsCurrent'
  BY <1>3, <1>5 DEF LastIsCurrent, Loop!Snapshot, Loop!Unbound, Loop!Idle, Loop!Stopped
<1>8. ImagesReported'
  <2>1. bound' \in [id : Nat, image : {Own, NoImage}] /\ (bound'.image # NoImage => bound'.id \in mine')
    <3>1. dev'.id \in Nat
      BY <1>1, Zenon DEF States
    <3>2. QED
      BY <1>2, <1>3, <3>1, Zenon DEF DeviceStep
  <2>2. DOMAIN results' = 1 .. Len(results')
    BY <1>5
  <2>3. QED
    BY <1>5, <2>1, <2>2, Zenon DEF ImagesReported, DeviceStep, Loop!Stopped
<1>9. UploadPart' /\ DiagnosesFailure' /\ passed' \in {passed, "fail"}
  BY <1>3, <1>4, NextRecordStep, Zenon DEF SessionInv, UploadPart, DiagnosesFailure, Loop!Failed
<1>10. Loop!DiagnosticsMatch'
  <2>1. DOMAIN results = 1 .. Len(results) /\ DOMAIN results' = 1 .. Len(results')
    BY <1>5 DEF SessionInv, ImagesReported
  <2>2. \A i \in DOMAIN results : i \in DOMAIN results' /\ results'[i] = results[i]
    BY <1>5, <2>1 DEF SessionInv, ImagesReported
  <2>3. QED
    BY <1>3, <2>2, ZenonT(30) DEF SessionInv, Loop!DiagnosticsMatch, Loop!Key
<1>11. VerdictIsReal' /\ SnapshotTypes'
  BY <1>3, <1>9, Zenon DEF SessionInv, VerdictIsReal, SnapshotTypes, DeviceStep
<1>12. QED
  BY <1>6, <1>7, <1>8, <1>9, <1>10, <1>11, Zenon DEF SessionInv, DeviceStep

\* One record of a transaction.
LEMMA ExchangeStep ==
    ASSUME SessionInv, setting' = setting, Loop!Exchange
    PROVE  SessionInv'
<1>1. DeviceInv /\ exit' = exit
  BY Zenon DEF SessionInv, Loop!Exchange
<1>2. UNCHANGED Loop!device => DeviceStep
  BY <1>1, DeviceRests, Zenon DEF Loop!device
<1>3. Loop!Refuse("me", todo[1]) => DeviceStep
  BY <1>1, RefuseStep, Zenon
<1>4. Loop!Accepts("me", todo[1]) /\ Loop!Execute("me", todo[1])
          => DeviceStep /\ (todo[1].op = "commit" => dev'.id \in mine')
  BY <1>1, ExecuteStep, Zenon
<1>5. purpose = "upload" /\ Len(todo) = 1 => todo[1].op = "commit"
  BY DEF SessionInv, UploadPart, Loop!Upload, Loop!Send
<1>6. CASE /\ Loop!Accepts("me", todo[1]) /\ Loop!Execute("me", todo[1])
           /\ Loop!AcceptWorkloadState(dev')
  BY <1>1, <1>4, <1>5, <1>6, AcceptStep, Zenon
<1>7. CASE DeviceStep /\ Loop!TransactionFails
  <2>1. UNCHANGED <<view, last, results, retained, bound>> /\ Loop!TransactionEnds(FALSE)
    BY <1>7, Zenon DEF Loop!TransactionFails, Loop!BindWorkload
  <2>2. UploadPart' /\ pc' # "diagnose" /\ passed' \in {passed, "fail"}
    BY <2>1, Zenon DEF Loop!TransactionEnds, UploadPart
  <2>3. QED
    BY <1>1, <1>7, <2>1, <2>2, QuietStep, Zenon
<1>8. QED
  BY <1>2, <1>3, <1>4, <1>6, <1>7, Zenon DEF Loop!Exchange

\* A bus snapshot that is retained: one that the session read by itself is of
\* a failure that it reports.
LEMMA RetainStep ==
    ASSUME SessionInv, NEW auto \in BOOLEAN, retained' = Loop!Retain(auto), results' = results,
           auto => \E j \in DOMAIN results : Loop!Key(results[j]) = Loop!Key(dev)
    PROVE  Loop!DiagnosticsMatch' /\ retained' \in Seq([of : Keys, auto : BOOLEAN])
<1>1. retained \in Seq([of : Keys, auto : BOOLEAN])
  BY Zenon DEF SessionInv, SnapshotTypes
<1>2. CASE retained' = retained
  BY <1>1, <1>2, Zenon DEF SessionInv, Loop!DiagnosticsMatch, Loop!Key
<1>3. CASE retained' = Append(retained, [of |-> Loop!Key(dev), auto |-> auto])
  <2>1. Loop!Key(dev) \in Keys
    BY Zenon DEF SessionInv, DeviceInv, DeviceTypes, States, Keys, Loop!Key
  <2> DEFINE one == [of |-> Loop!Key(dev), auto |-> auto]
  <2>2. one \in [of : Keys, auto : BOOLEAN] /\ one.auto = auto /\ one.of = Loop!Key(dev)
    BY <2>1, Zenon
  <2>3. retained' = Append(retained, one)
    BY <1>3, Zenon
  <2> HIDE DEF one
  <2>4. /\ retained' \in Seq([of : Keys, auto : BOOLEAN]) /\ Len(retained) \in Nat
        /\ DOMAIN retained' = 1 .. Len(retained) + 1 /\ DOMAIN retained = 1 .. Len(retained)
        /\ \A i \in 1 .. Len(retained) : retained'[i] = retained[i]
        /\ retained'[Len(retained) + 1] = one
    BY <1>1, <2>2, <2>3
  <2>5. ASSUME NEW i \in DOMAIN retained', retained'[i].auto
        PROVE  \E j \in DOMAIN results : Loop!Key(results[j]) = retained'[i].of
    <3>1. CASE i \in DOMAIN retained
      BY <2>4, <2>5, <3>1, Zenon DEF SessionInv, Loop!DiagnosticsMatch
    <3>2. CASE i = Len(retained) + 1
      BY <2>2, <2>4, <2>5, <3>2, Zenon
    <3>3. QED
      BY <2>4, <2>5, <3>1, <3>2
  <2>6. Loop!DiagnosticsMatch'
    BY <2>5, Zenon DEF Loop!DiagnosticsMatch, Loop!Key
  <2>7. QED
    BY <2>4, <2>6, Zenon
<1>4. QED
  BY <1>2, <1>3, Zenon DEF Loop!Retain

\* The snapshot of a failure: another client may have replaced the workload or
\* run it again since the status.
LEMMA DiagnoseStep ==
    ASSUME SessionInv, setting' = setting, Loop!Diagnose
    PROVE  SessionInv'
<1>1. /\ UNCHANGED <<view, bound, results, last, exit>> /\ UNCHANGED Loop!device
      /\ Loop!NextRecord /\ pc = "diagnose"
  BY Zenon DEF Loop!Diagnose
<1>2. DeviceStep
  BY <1>1, DeviceRests, Zenon DEF SessionInv, Loop!device
<1>3. UploadPart' /\ pc' # "diagnose" /\ passed' \in {passed, "fail"}
  BY <1>1, NextRecordStep, Zenon DEF SessionInv
<1>4. CASE retained' = retained
  BY <1>1, <1>2, <1>3, <1>4, QuietStep, Zenon
<1>5. CASE Loop!Readable(view.id) /\ Loop!SameAttempt(view) /\ retained' = Loop!Retain(TRUE)
  <2>1. view.lifecycle \in Loop!Failed
    BY <1>1, Zenon DEF SessionInv, DiagnosesFailure
  <2>2. view.id = dev.id
    <3>1. dev.reason # "NONE"
      BY <1>5, <2>1, Zenon DEF SessionInv, DeviceInv, ReasonKnown, Loop!Readable, Loop!SameAttempt
    <3>2. view.id # 0
      BY <1>5, <3>1, Zenon DEF SessionInv, ViewKnown, Loop!SameAttempt
    <3>3. QED
      BY <1>5, <3>2, Zenon DEF Loop!Readable
  <2>3. Len(results) \in DOMAIN results /\ Loop!Key(results[Len(results)]) = Loop!Key(view)
    <3>1. /\ results # <<>> /\ results[Len(results)]
             = [Loop!Snapshot(view, Loop!Unbound) EXCEPT !.image = results[Len(results)].image]
      BY <2>1, Zenon DEF SessionInv, LastIsCurrent, Loop!Failed, Loop!Stopped
    <3>2. Len(results) \in DOMAIN results
      BY <3>1 DEF SessionInv, ImagesReported
    <3>3. QED
      BY <3>1, <3>2, Zenon DEF Loop!Key, Loop!Snapshot
  <2>4. Loop!Key(view) = Loop!Key(dev)
    BY <1>5, <2>2, Zenon DEF Loop!Key, Loop!SameAttempt
  <2>5. Loop!DiagnosticsMatch' /\ SnapshotTypes'
    BY <1>1, <1>5, <2>3, <2>4, RetainStep, Zenon DEF SnapshotTypes
  <2>6. QED
    BY <1>1, <1>2, <1>3, <2>5, WatchStep, Zenon
<1>6. QED
  BY <1>4, <1>5, Zenon DEF Loop!Diagnose

\* trace retains a snapshot that the user asked for.
LEMMA TraceStep ==
    ASSUME SessionInv, setting' = setting, Loop!Trace
    PROVE  SessionInv'
<1>1. /\ UNCHANGED <<view, bound, results, last, exit, todo, purpose, passed>>
      /\ UNCHANGED Loop!device /\ pc' = "turn" /\ pc = "command"
      /\ retained' \in {retained, Loop!Retain(FALSE)}
  BY Zenon DEF Loop!Trace, Loop!Command
<1>2. DeviceStep
  BY <1>1, DeviceRests, Zenon DEF SessionInv, Loop!device
<1>3. UploadPart'
  BY <1>1, Zenon DEF SessionInv, UploadPart
<1>4. CASE retained' = retained
  BY <1>1, <1>2, <1>3, <1>4, QuietStep, Zenon
<1>5. CASE retained' = Loop!Retain(FALSE)
  <2>1. Loop!DiagnosticsMatch' /\ SnapshotTypes'
    BY <1>1, <1>5, RetainStep, Zenon DEF SnapshotTypes
  <2>2. QED
    BY <1>1, <1>2, <1>3, <2>1, WatchStep, Zenon
<1>6. QED
  BY <1>1, <1>4, <1>5, Zenon

\* The turns of the loop and the commands that send no record yet; the device
\* rests.
LEMMA LoopStep ==
    ASSUME SessionInv, setting' = setting,
           \/ Loop!StartTurn \/ Loop!CompletionRefresh \/ Loop!Poll \/ Loop!Load
           \/ Loop!NoCommand \/ Loop!DrainWhileWaiting \/ Loop!Quit \/ Loop!Deadline
           \/ \E name \in {"status", "run", "stop", "restart"} : Loop!Control(name)
    PROVE  SessionInv'
<1>1. /\ UNCHANGED <<view, bound, results, last, retained, exit>>
      /\ UNCHANGED <<dev, images, diag, mine, achieved>>
  BY Zenon DEF Loop!StartTurn, Loop!CompletionRefresh, Loop!Poll, Loop!Load, Loop!NoCommand,
         Loop!DrainWhileWaiting, Loop!Quit, Loop!Deadline, Loop!Control, Loop!local,
         Loop!device, Loop!evidence
<1>2. DeviceStep
  BY <1>1, DeviceRests, Zenon DEF SessionInv
<1>3. CASE Loop!StartTurn \/ Loop!NoCommand \/ Loop!DrainWhileWaiting \/ Loop!Quit \/ Loop!Deadline
  <2>1. /\ UNCHANGED <<todo, purpose, passed>> /\ (pc' # "diagnose" \/ pc' = pc)
        /\ pc' = pc \/ pc \in {"turn", "command"}
    BY <1>3, Zenon DEF Loop!StartTurn, Loop!NoCommand, Loop!DrainWhileWaiting, Loop!Quit,
                Loop!Deadline, Loop!regression
  <2>2. UploadPart'
    BY <2>1, Zenon DEF SessionInv, UploadPart
  <2>3. QED
    BY <1>1, <1>2, <2>1, <2>2, QuietStep, Zenon
<1>4. CASE Loop!CompletionRefresh \/ Loop!Poll
  <2>1. UploadPart' /\ pc' # "diagnose" /\ passed' = passed
    BY <1>4, Zenon DEF SessionInv, UploadPart, Loop!CompletionRefresh, Loop!Poll, Loop!Transact,
                Loop!regression
  <2>2. QED
    BY <1>1, <1>2, <2>1, QuietStep, Zenon
<1>5. CASE Loop!Load
  <2>1. UploadPart' /\ pc' # "diagnose" /\ passed' \in {passed, "fail"}
    BY <1>5, Zenon DEF SessionInv, UploadPart, Loop!Load, Loop!Command, Loop!Transact
  <2>2. QED
    BY <1>1, <1>2, <2>1, QuietStep, Zenon
<1>6. ASSUME NEW name \in {"status", "run", "stop", "restart"}, Loop!Control(name)
      PROVE  SessionInv'
  <2>1. UploadPart' /\ pc' # "diagnose" /\ passed' = passed
    BY <1>6, Zenon DEF UploadPart, Loop!Control, Loop!Transact
  <2>2. QED
    BY <1>1, <1>2, <2>1, QuietStep, Zenon
<1>7. QED
  BY <1>3, <1>4, <1>5, <1>6, Zenon

\* The heartbeat before a run changes nothing of the view but its flag.
LEMMA PrepareStep ==
    ASSUME SessionInv, setting' = setting, Loop!Prepare
    PROVE  SessionInv'
<1>1. /\ UNCHANGED <<bound, results, last, retained, exit, passed>> /\ pc = "prepare"
      /\ UNCHANGED <<dev, images, diag, mine, achieved>>
  BY Zenon DEF Loop!Prepare, Loop!device, Loop!evidence, Loop!regression
<1>2. DeviceStep
  BY <1>1, DeviceRests, Zenon DEF SessionInv
<1>3. /\ pc' \in {"send", "turn"} /\ UploadPart'
      /\ view' \in {view, [view EXCEPT !.prepared = TRUE]}
  BY Zenon DEF SessionInv, UploadPart, Loop!Prepare
<1>4. CASE view' = view
  BY <1>1, <1>2, <1>3, <1>4, QuietStep, Zenon
<1>5. CASE view' = [view EXCEPT !.prepared = TRUE]
  <2>1. /\ view' \in States /\ view'.id = view.id /\ view'.lifecycle = view.lifecycle
        /\ view'.cycles = view.cycles /\ view'.reason = view.reason /\ view'.pass = view.pass
    BY <1>5, Zenon DEF SessionInv, ViewKnown, States
  <2>2. ViewKnown'
    BY <1>1, <2>1, Zenon DEF SessionInv, ViewKnown
  <2>3. LastIsCurrent'
    BY <1>1, <2>1, ZenonT(30) DEF SessionInv, LastIsCurrent, Loop!Snapshot, Loop!Unbound, Loop!Idle,
                      Loop!Stopped
  <2>4. ImagesReported' /\ SnapshotTypes' /\ DiagnosesFailure' /\ VerdictIsReal'
    BY <1>1, <1>2, <1>3, Zenon DEF SessionInv, ImagesReported, SnapshotTypes, DiagnosesFailure,
                            VerdictIsReal, DeviceStep, Loop!Stopped
  <2>5. Loop!DiagnosticsMatch'
    BY <1>1, Zenon DEF SessionInv, Loop!DiagnosticsMatch, Loop!Key
  <2>6. QED
    BY <1>2, <1>3, <2>2, <2>3, <2>4, <2>5, Zenon DEF SessionInv, DeviceStep
<1>6. QED
  BY <1>3, <1>4, <1>5, Zenon

\* The verdict of a regression, and the exit code that follows from it.
LEMMA VerdictStep ==
    ASSUME SessionInv, setting' = setting, Loop!Verdict \/ Loop!Close
    PROVE  SessionInv'
<1>1. /\ UNCHANGED <<view, bound, results, last, retained, todo, purpose>>
      /\ UNCHANGED <<dev, images, diag, mine, achieved>>
  BY Zenon DEF Loop!Verdict, Loop!Close, Loop!local, Loop!device, Loop!evidence
<1>2. DeviceStep
  BY <1>1, DeviceRests, Zenon DEF SessionInv
<1>3. VerdictIsReal'
  <2>1. CASE Loop!Verdict
    <3>1. exit' = exit /\ (passed' = "pass" => passed = "pass" \/ Loop!PhysicalRegressionPassed(view))
      BY <2>1, Zenon DEF Loop!Verdict, Loop!local
    <3>2. Loop!PhysicalRegressionPassed(view) => achieved # {}
      BY Zenon DEF SessionInv, ViewKnown, Loop!PhysicalRegressionPassed
    <3>3. QED
      BY <1>1, <3>1, <3>2, Zenon DEF SessionInv, VerdictIsReal
  <2>2. CASE Loop!Close
    <3>1. passed' = passed /\ (setting.regression /\ exit' = "PASS" => passed = "pass")
      BY <2>2, Zenon DEF Loop!Close, Loop!ExitCode, Loop!regression
    <3>2. QED
      BY <1>1, <3>1, Zenon DEF SessionInv, VerdictIsReal
  <2>3. QED
    BY <2>1, <2>2, Zenon
<1>4. UploadPart' /\ DiagnosesFailure'
  BY <1>1, Zenon DEF SessionInv, UploadPart, DiagnosesFailure, Loop!Verdict, Loop!Close
<1>5. ViewKnown' /\ LastIsCurrent'
  BY <1>1, Zenon DEF SessionInv, ViewKnown, LastIsCurrent, Loop!Snapshot, Loop!Unbound, Loop!Idle,
              Loop!Stopped
<1>6. ImagesReported' /\ SnapshotTypes'
  BY <1>1, Zenon DEF SessionInv, ImagesReported, SnapshotTypes
<1>7. Loop!DiagnosticsMatch'
  BY <1>1, Zenon DEF SessionInv, Loop!DiagnosticsMatch, Loop!Key, Loop!Stopped
<1>8. QED
  BY <1>2, <1>3, <1>4, <1>5, <1>6, <1>7, Zenon DEF SessionInv, DeviceStep

\* The records of other clients.
LEMMA OthersStep ==
    ASSUME SessionInv, setting' = setting, NEW r \in Loop!Requests,
           Loop!ServeBroker(r) \/ Loop!OtherClient(r)
    PROVE  SessionInv'
<1>1. DeviceInv /\ (r.op = "commit" => setting.othersUpload)
  <2>1. PICK op \in {"run", "stop", "restart"}
                       \cup (IF setting.othersUpload THEN {"begin", "commit"} ELSE {}) :
            r = Loop!Send(op, 0)
    BY Zenon DEF Loop!Requests
  <2>2. r.op = op
    BY <2>1, Zenon DEF Loop!Send
  <2>3. QED
    BY <2>1, <2>2, Zenon DEF SessionInv
<1>2. Loop!Refuse("other", r) => DeviceStep
  BY <1>1, RefuseStep, Zenon
<1>3. Loop!Accepts("other", r) /\ Loop!Execute("other", r) => DeviceStep
  BY <1>1, ExecuteStep, Zenon
<1>4. CASE /\ DeviceStep /\ exit' = exit
           /\ UNCHANGED <<view, bound, results, last, retained, pc, todo, purpose, passed>>
  <2>1. UploadPart'
    BY <1>4, Zenon DEF SessionInv, UploadPart
  <2>2. QED
    BY <1>4, <2>1, QuietStep, Zenon
<1>5. CASE DeviceStep /\ pc = "turn" /\ Loop!AcceptWorkloadState(dev') /\ exit' = exit
  <2>1. purpose = "none"
    BY <1>5, Zenon DEF SessionInv, UploadPart
  <2>2. QED
    BY <1>5, <2>1, AcceptStep, Zenon
<1>6. QED
  BY <1>2, <1>3, <1>4, <1>5, Zenon
     DEF Loop!ServeBroker, Loop!OtherClient, Loop!evidence, Loop!regression

LEMMA SessionInitial == ShellInit => SessionInv
<1>1. SUFFICES ASSUME Loop!Init PROVE SessionInv
  BY Zenon DEF ShellInit
<1>2. /\ setting \in Settings /\ view = Loop!Idle /\ last = Loop!Idle
      /\ images = <<>> /\ diag = FALSE /\ pc = "send" /\ purpose = "startup"
      /\ passed = "none" /\ exit = "none" /\ bound = Loop!Unbound /\ results = <<>>
      /\ retained = <<>> /\ mine = {} /\ achieved = {}
  BY <1>1, Zenon DEF Loop!Init
<1>3. /\ view \in States /\ view.id = 0 /\ view.lifecycle = "EMPTY" /\ view.reason = "NONE"
      /\ dev \in States /\ dev.id = 0 /\ dev.lifecycle = "EMPTY" /\ dev.reason = "NONE"
  <2>1. /\ Loop!Idle \in States /\ Loop!Idle.id = 0 /\ Loop!Idle.lifecycle = "EMPTY"
        /\ Loop!Idle.reason = "NONE"
    BY Zenon DEF Loop!Idle, States, Lifecycles, Reasons
  <2>2. \E i, p \in BOOLEAN : dev = [Loop!Idle EXCEPT !.identified = i, !.prepared = p]
    BY <1>1, Zenon DEF Loop!Init
  <2>3. PICK i \in BOOLEAN, p \in BOOLEAN :
             dev = [Loop!Idle EXCEPT !.identified = i, !.prepared = p]
    BY <2>2, Zenon
  <2>4. [Loop!Idle EXCEPT !.identified = i] \in States
    BY <2>1, Zenon DEF States
  <2>5. QED
    BY <1>2, <2>1, <2>3, <2>4, Zenon DEF States
<1>4. DeviceInv
  <2>1. DeviceTypes
    <3>1. <<>> \in Seq({Own, Other}) /\ Len(<<>>) = 0
      OBVIOUS
    <3>2. QED
      BY <1>2, <1>3, <3>1, Zenon DEF DeviceTypes
  <2>2. ImagesKnown /\ ReasonKnown /\ PassesKnown
    BY <1>2, <1>3 DEF ImagesKnown, ReasonKnown, PassesKnown
  <2>3. QED
    BY <2>1, <2>2, Zenon DEF DeviceInv
<1>5. ViewKnown /\ LastIsCurrent /\ UploadPart /\ DiagnosesFailure /\ VerdictIsReal
  BY <1>2, <1>3, Zenon DEF ViewKnown, LastIsCurrent, UploadPart, DiagnosesFailure, VerdictIsReal,
                    Loop!Stopped
<1>6. ImagesReported /\ SnapshotTypes /\ Loop!DiagnosticsMatch
  BY <1>2 DEF ImagesReported, SnapshotTypes, Loop!DiagnosticsMatch, Loop!Unbound
<1>7. QED
  BY <1>4, <1>5, <1>6, Zenon DEF SessionInv

\* A step of the session, the probes or the editor moves one part.
LEMMA SessionPart ==
    ASSUME [ShellNext]_shellVars
    PROVE  [Loop!Next]_sessionVars
BY Zenon DEF ShellNext, shellVars

\* What a session reports and concludes stays true.
LEMMA SessionStep ==
    ASSUME SessionInv, [Loop!Next]_sessionVars
    PROVE  SessionInv'
<1>1. CASE Loop!Session
  BY <1>1, ExchangeStep, DiagnoseStep, LoopStep, VerdictStep, PrepareStep, TraceStep, Zenon
     DEF Loop!Session
<1>2. CASE Loop!Others
  <2>1. setting' = setting
    BY <1>2, Zenon DEF Loop!Others
  <2>2. CASE Loop!DrainWhileWaiting \/ Loop!Quit \/ Loop!Deadline
    BY <2>1, <2>2, LoopStep, Zenon
  <2>3. ASSUME NEW r \in Loop!Requests, Loop!ServeBroker(r) \/ Loop!OtherClient(r)
        PROVE  SessionInv'
    BY <2>1, <2>3, OthersStep, Zenon
  <2>4. ASSUME NEW way \in Loop!Ways, NEW c \in setting.cycles, NEW p \in BOOLEAN,
               Loop!Ends(way, c, p)
        PROVE  SessionInv'
    <3>1. DeviceStep
      BY <2>1, <2>4, EndsStep, Zenon DEF SessionInv
    <3>2. UNCHANGED <<view, bound, results, last, retained, exit, pc, todo, purpose, passed>>
      BY <2>4, Zenon DEF Loop!Ends, Loop!evidence, Loop!regression
    <3>3. UploadPart'
      BY <3>2, Zenon DEF SessionInv, UploadPart
    <3>4. QED
      BY <3>1, <3>2, <3>3, QuietStep, Zenon
  <2>5. QED
    BY <1>2, <2>2, <2>3, <2>4, Zenon DEF Loop!Others
<1>3. CASE Loop!Closed \/ UNCHANGED sessionVars
  <2>1. UNCHANGED <<setting, view, bound, results, last, retained, exit, pc, todo, purpose,
                    passed, dev, images, diag, mine, achieved>>
    BY <1>3, Zenon DEF Loop!Closed, Loop!vars, Loop!device, Loop!regression, Loop!evidence,
                sessionVars
  <2>2. DeviceStep /\ UploadPart'
    BY <2>1, DeviceRests, Zenon DEF SessionInv, UploadPart
  <2>3. QED
    BY <2>1, <2>2, QuietStep, Zenon
<1>4. QED
  BY <1>1, <1>2, <1>3, Zenon DEF Loop!Next

\* What a session believes and reports fits what the device went through, with
\* any number of clients, uploads, runs and lost replies: the invariant behind
\* the two theorems that follow (HostSession: the loop of session.py and the
\* runtime that it talks to).
THEOREM SessionInvariant == ShellSpec => []SessionInv
<1>1. ShellInit => SessionInv
  BY SessionInitial, Zenon
<1>2. SessionInv /\ [ShellNext]_shellVars => SessionInv'
  BY SessionPart, SessionStep, Zenon
<1>3. QED
  BY <1>1, <1>2, PTL DEF ShellSpec

\* The evidence of a session is about what happened, with any number of
\* clients, uploads, runs and lost replies: the last result is what the session
\* believes to have stopped (observe_workload), an image is named only for a
\* workload that this session uploaded (bind_workload), and a bus snapshot that
\* accept_workload_state read belongs to a failure that the session reports.
THEOREM EvidenceIsTrueTheorem == ShellSpec => []EvidenceIsTrue
<1>1. SessionInv => EvidenceIsTrue
  <2>1. SUFFICES ASSUME SessionInv PROVE EvidenceIsTrue
    OBVIOUS
  <2>2. Loop!EvidenceIsCurrent
    <3>1. SUFFICES ASSUME view.lifecycle \in Loop!Stopped
                   PROVE  /\ results # <<>>
                          /\ [results[Len(results)] EXCEPT !.image = NoImage]
                                 = Loop!Snapshot(view, Loop!Unbound)
      BY Zenon DEF Loop!EvidenceIsCurrent
    <3>2. /\ results # <<>> /\ results[Len(results)]
             = [Loop!Snapshot(view, Loop!Unbound) EXCEPT !.image = results[Len(results)].image]
      BY <2>1, <3>1, Zenon DEF SessionInv, LastIsCurrent
    <3>3. QED
      BY <3>2 DEF Loop!Snapshot, Loop!Unbound
  <2>3. Loop!ImageIsOwn
    <3>1. SUFFICES ASSUME NEW i \in DOMAIN results, results[i].image # NoImage
                   PROVE  results[i].id \in mine /\ images[results[i].id] = results[i].image
      BY Zenon DEF Loop!ImageIsOwn
    <3>2. results[i].image \in {Own, NoImage} /\ results[i].id \in mine
      <4>1. results[i] \in Results
        BY <2>1, <3>1 DEF SessionInv, ImagesReported
      <4>2. results[i].image \in {Own, NoImage}
        BY <4>1, Zenon DEF Results
      <4>3. QED
        BY <2>1, <3>1, <4>2, Zenon DEF SessionInv, ImagesReported
    <3>3. QED
      BY <2>1, <3>1, <3>2, Zenon DEF SessionInv, DeviceInv, ImagesKnown
  <2>4. QED
    BY <2>1, <2>2, <2>3, Zenon DEF SessionInv, EvidenceIsTrue
<1>2. QED
  BY <1>1, SessionInvariant, PTL

\* A physical regression exits with PASS only when a workload that it uploaded
\* itself completed with PASS, whatever other clients run, stop and restart in
\* the meantime (physical_regression_passed and the exit code in session.py).
THEOREM RegressionPassIsRealTheorem == ShellSpec => []RegressionPassIsReal
<1>1. SessionInv => RegressionPassIsReal
  BY Zenon DEF SessionInv, DeviceInv, ImagesKnown, PassesKnown, VerdictIsReal,
         RegressionPassIsReal, Loop!RegressionPassIsReal
<1>2. QED
  BY <1>1, SessionInvariant, PTL

-----------------------------------------------------------------------------
(***************************************************************************)
(* The probes.                                                             *)
(***************************************************************************)
ProbeTypes ==
    /\ boot \in Nat \ {0} /\ served \in Nat /\ completed \in Nat
    /\ processor \in [boot : 0 .. boot, counter : Nat, connected : BOOLEAN]
    /\ credited \subseteq (1 .. boot) \X Nat

\* The counter that the session saw last stands for a service at or behind
\* the last one, and no later service was credited.
CreditIsSeen ==
    IF processor.boot = boot
    THEN \E m \in 0 .. served :
             /\ processor.counter = m % Modulus
             /\ \A n \in Nat : <<boot, n>> \in credited => n <= m
    ELSE \A n \in Nat : <<boot, n>> \notin credited

\* A session that still probes a general workload has not seen it start.
ProbesSuspended == available /\ general => unseen

GeneralIsLoaded == general => loaded

ProbeInv == ProbeTypes /\ CreditIsSeen /\ ProbesSuspended /\ GeneralIsLoaded

\* The number that a counter advances by when it stands still.
LEMMA ModuloSelf == \A c \in Nat : ((c % Modulus) + Modulus - (c % Modulus)) % Modulus = 0
<1>1. Modulus \in Nat /\ Modulus > 0
  BY ShellAssumption DEF Probing!ProbeAssumption
<1>2. ASSUME NEW c \in Nat
      PROVE  (c % Modulus) + Modulus - (c % Modulus) = Modulus
  <2>1. c % Modulus \in Nat
    BY <1>1
  <2>2. \A d \in Nat : d + Modulus - d = Modulus
    BY <1>1
  <2>3. QED
    BY <2>1, <2>2, Zenon
<1>3. Modulus % Modulus = 0
  BY <1>1
<1>4. QED
  BY <1>2, <1>3, Zenon

\* What a round that is credited leaves behind.
LEMMA WitnessAccepted ==
    ASSUME NEW n \in {served, served + 1} \ {0, MaxServices + 1}, NEW heartbeat \in BOOLEAN,
           ProbeInv, ~Probing!Stale(Probing!Witness(n)), served' = n, boot' = boot,
           Probing!Accepted(Probing!Witness(n), heartbeat)
    PROVE  /\ ProbeTypes' /\ CreditIsSeen'
           /\ completed' = completed + 1 => credited' # credited
<1>1. n \in Nat /\ served <= n
  BY DEF ProbeInv, ProbeTypes
<1>2. /\ processor' = [boot |-> boot, counter |-> n % Modulus, connected |-> TRUE]
      /\ completed' = IF heartbeat THEN completed + 1 ELSE completed
      /\ credited' = IF heartbeat THEN credited \cup {<<boot, n>>} ELSE credited
  BY Zenon DEF Probing!Accepted, Probing!AcceptWitness, Probing!Witness
<1>3. \A k \in Nat : <<boot, k>> \in credited => k <= n /\ k # n
  <2>1. CASE processor.boot = boot
    <3>1. PICK m \in 0 .. served :
               /\ processor.counter = m % Modulus
               /\ \A k \in Nat : <<boot, k>> \in credited => k <= m
      BY <2>1, Zenon DEF ProbeInv, CreditIsSeen
    <3>2. m # n
      <4>1. SUFFICES ASSUME m = n PROVE FALSE
        OBVIOUS
      <4>2. Probing!Advance(Probing!Witness(n)) = 0
        <5>1. Probing!Witness(n).counter = n % Modulus /\ processor.counter = n % Modulus
          BY <3>1, <4>1, Zenon DEF Probing!Witness
        <5>2. QED
          BY <1>1, <5>1, ModuloSelf, Zenon DEF Probing!Advance
      <4>3. QED
        BY <2>1, <4>2, Zenon DEF Probing!Stale, Probing!Witness
    <3>3. QED
      BY <1>1, <3>1, <3>2 DEF ProbeInv, ProbeTypes
  <2>2. CASE processor.boot # boot
    BY <2>2, Zenon DEF ProbeInv, CreditIsSeen
  <2>3. QED
    BY <2>1, <2>2, Zenon
<1>4. ProbeTypes'
  <2>1. n % Modulus \in Nat
    BY <1>1, ShellAssumption DEF Probing!ProbeAssumption
  <2>2. QED
    BY <1>1, <1>2, <2>1 DEF ProbeInv, ProbeTypes
<1>5. CreditIsSeen'
  BY <1>1, <1>2, <1>3 DEF CreditIsSeen, ProbeInv, ProbeTypes
<1>6. completed' = completed + 1 => credited' # credited
  <2>1. <<boot, n>> \notin credited
    BY <1>1, <1>3, Zenon
  <2>2. completed # completed + 1
    BY DEF ProbeInv, ProbeTypes
  <2>3. QED
    BY <1>2, <2>1, <2>2, Zenon
<1>7. QED
  BY <1>4, <1>5, <1>6, Zenon

\* A request that is not credited leaves the counter that was seen.
LEMMA NothingCredited ==
    ASSUME ProbeInv, boot' = boot, served' \in {served, served + 1},
           processor' \in {processor, [processor EXCEPT !.connected = FALSE]},
           UNCHANGED <<completed, credited>>
    PROVE  ProbeTypes' /\ CreditIsSeen'
<1>1. /\ processor'.boot = processor.boot /\ processor'.counter = processor.counter
      /\ processor' \in [boot : 0 .. boot, counter : Nat, connected : BOOLEAN]
  BY Zenon DEF ProbeInv, ProbeTypes
<1>2. served' \in Nat /\ served <= served'
  BY DEF ProbeInv, ProbeTypes
<1>3. ProbeTypes'
  BY <1>1, <1>2, Zenon DEF ProbeInv, ProbeTypes
<1>4. CASE processor.boot = boot
  <2>1. PICK m \in 0 .. served :
             /\ processor.counter = m % Modulus
             /\ \A k \in Nat : <<boot, k>> \in credited => k <= m
    BY <1>4, Zenon DEF ProbeInv, CreditIsSeen
  <2>2. m \in 0 .. served'
    BY <1>2 DEF ProbeInv, ProbeTypes
  <2>3. QED
    BY <1>1, <1>3, <1>4, <2>1, <2>2, Zenon DEF CreditIsSeen
<1>5. CASE processor.boot # boot
  BY <1>1, <1>3, <1>5, Zenon DEF ProbeInv, CreditIsSeen
<1>6. QED
  BY <1>4, <1>5, <1>3, Zenon

\* A heartbeat or a command, whatever comes back.
LEMMA RequestStep ==
    ASSUME ProbeInv, NEW heartbeat \in BOOLEAN, Probing!Request(heartbeat)
    PROVE  /\ ProbeTypes' /\ CreditIsSeen'
           /\ completed' = completed + 1 => credited' # credited
           /\ available' \in {available, FALSE} /\ UNCHANGED <<general, unseen>>
<1>1. UNCHANGED <<boot, general, unseen>>
  BY Zenon DEF Probing!Request
<1>2. completed # completed + 1
  BY DEF ProbeInv, ProbeTypes
<1>3. ASSUME Probing!ProbeFails(heartbeat), served' \in {served, served + 1}
      PROVE  /\ ProbeTypes' /\ CreditIsSeen'
             /\ available' = available /\ completed' = completed
  <2>1. /\ processor' \in {processor, [processor EXCEPT !.connected = FALSE]}
        /\ UNCHANGED <<completed, credited, available>>
    BY <1>3, Zenon DEF Probing!ProbeFails, Probing!MarkDisconnected
  <2>2. QED
    BY <1>1, <1>3, <2>1, NothingCredited, Zenon
<1>4. CASE Probing!Suspend(heartbeat) /\ served' = served
  <2>1. /\ processor' \in {processor, [processor EXCEPT !.connected = FALSE]}
        /\ UNCHANGED <<completed, credited>> /\ available' \in {available, FALSE}
    BY <1>4, Zenon DEF Probing!Suspend, Probing!MarkDisconnected
  <2>2. QED
    BY <1>1, <1>2, <1>4, <2>1, NothingCredited, Zenon
<1>5. CASE /\ served' \in {served, served + 1} \ {0, MaxServices + 1}
           /\ ~Probing!Stale(Probing!Witness(served'))
           /\ Probing!Accepted(Probing!Witness(served'), heartbeat)
  <2>1. available' = available
    BY <1>5, Zenon DEF Probing!Accepted
  <2>2. PICK n \in {served, served + 1} \ {0, MaxServices + 1} : n = served'
    BY <1>5, Zenon
  <2>3. QED
    BY <1>1, <1>5, <2>1, <2>2, WitnessAccepted, Zenon
<1>6. served' \in Probing!Serves => served' \in {served, served + 1}
  BY Zenon DEF Probing!Serves
<1>7. served' \in Probing!Serves \ {0} /\ ~general
          => served' \in {served, served + 1} \ {0, MaxServices + 1}
  BY Zenon DEF Probing!Serves
<1>8. QED
  BY <1>1, <1>2, <1>3, <1>4, <1>5, <1>6, <1>7, Zenon DEF Probing!Request

\* The identity probe of a run or a restart, which takes any witness.
LEMMA IdentifyStep ==
    ASSUME ProbeInv, Probing!Identify
    PROVE  ProbeInv' /\ (completed' = completed + 1 => ~flagged /\ flagged')
<1>1. UNCHANGED <<boot, general, unseen>> /\ ~flagged
  BY Zenon DEF Probing!Identify
<1> completed # completed + 1
  BY DEF ProbeInv, ProbeTypes
<1> GeneralIsLoaded'
  BY Zenon DEF Probing!Identify, ProbeInv, GeneralIsLoaded
<1>2. CASE /\ ~general /\ served' \in {served, served + 1} \ {0, MaxServices + 1}
           /\ Probing!AcceptWitness(Probing!Witness(served'))
           /\ completed' = completed + 1
           /\ credited' = credited \cup {<<boot, served'>>} /\ flagged'
  <2>1. served' \in Nat /\ served <= served'
    BY <1>2 DEF ProbeInv, ProbeTypes
  <2>2. served' % Modulus \in Nat
    <3>1. \A k \in Nat : k % Modulus \in Nat
      BY ShellAssumption DEF Probing!ProbeAssumption
    <3>2. QED
      BY <2>1, <3>1, Zenon
  <2>3. processor' = [boot |-> boot, counter |-> served' % Modulus, connected |-> TRUE]
    BY <1>2, Zenon DEF Probing!AcceptWitness, Probing!Witness
  <2>4. ProbeTypes'
    BY <1>1, <1>2, <2>1, <2>2, <2>3 DEF ProbeInv, ProbeTypes
  <2>5. \A k \in Nat : <<boot, k>> \in credited => k <= served'
    BY <2>1 DEF ProbeInv, ProbeTypes, CreditIsSeen
  <2>6. CreditIsSeen'
    BY <1>1, <1>2, <2>1, <2>3, <2>5 DEF CreditIsSeen
  <2>7. QED
    BY <1>1, <1>2, <2>4, <2>6, Zenon DEF ProbeInv, ProbesSuspended
<1>3. CASE /\ available' = FALSE /\ Probing!MarkDisconnected
           /\ UNCHANGED <<served, completed, credited>>
  <2>1. ProbeTypes' /\ CreditIsSeen'
    BY <1>1, <1>3, NothingCredited, Zenon DEF Probing!MarkDisconnected
  <2>2. QED
    BY <1>3, <2>1, Zenon DEF ProbeInv, ProbesSuspended
<1>4. CASE /\ served' \in {served, served + 1}
           /\ UNCHANGED <<processor, completed, credited, available>>
  <2>1. ProbeTypes' /\ CreditIsSeen'
    BY <1>1, <1>4, NothingCredited, Zenon
  <2>2. QED
    BY <1>1, <1>4, <2>1, Zenon DEF ProbeInv, ProbesSuspended
<1>5. served' \in Probing!Serves => served' \in {served, served + 1}
  BY Zenon DEF Probing!Serves
<1>6. served' \in Probing!Serves \ {0} /\ ~general
          => served' \in {served, served + 1} \ {0, MaxServices + 1}
  BY Zenon DEF Probing!Serves
<1>7. QED
  BY <1>2, <1>3, <1>4, <1>5, <1>6, Zenon DEF Probing!Identify, Probing!IdentityProbe

\* A boot that nothing was seen of yet.
LEMMA NewBoot ==
    ASSUME ProbeInv, boot' = boot + 1, served' \in {0, 1},
           UNCHANGED <<processor, completed, credited>>
    PROVE  ProbeTypes' /\ CreditIsSeen'
BY DEF ProbeInv, ProbeTypes, CreditIsSeen

\* A workload record leaves what the session saw of the services, and a general
\* workload that it starts is seen or remembered as unseen.
LEMMA RecordStep ==
    ASSUME ProbeInv, NEW op, NEW seen \in BOOLEAN, Probing!WorkloadRecord(op, seen)
    PROVE  ProbeInv' /\ completed' = completed
<1>1. UNCHANGED <<processor, completed, credited>> /\ Probing!Carries(op)
  BY Zenon DEF Probing!WorkloadRecord
<1>2. ProbeTypes' /\ CreditIsSeen'
  <2>1. CASE UNCHANGED <<boot, served>>
    BY <1>1, <2>1, Zenon DEF ProbeInv, ProbeTypes, CreditIsSeen
  <2>2. CASE boot' = boot + 1 /\ served' \in {0, 1}
    BY <1>1, <2>2, NewBoot, Zenon
  <2>3. QED
    BY <1>1, <2>1, <2>2, Zenon DEF Probing!Carries
<1>3. ProbesSuspended'
  <2>1. CASE seen
    <3>1. general' => loaded'
      BY <1>1, Zenon DEF Probing!Carries, ProbeInv, GeneralIsLoaded
    <3>2. available' = ~loaded'
      BY <2>1, Zenon DEF Probing!WorkloadRecord
    <3>3. QED
      BY <3>1, <3>2, Zenon DEF ProbesSuspended
  <2>2. CASE ~seen
    <3>1. available' = available /\ unseen' = (unseen \/ op = "run")
      BY <2>2, Zenon DEF Probing!WorkloadRecord
    <3>2. general' = general \/ ~general' \/ op = "run"
      BY <1>1, Zenon DEF Probing!Carries
    <3>3. QED
      BY <3>1, <3>2, Zenon DEF ProbesSuspended, ProbeInv
  <2>3. QED
    BY <2>1, <2>2, Zenon
<1>4. GeneralIsLoaded'
  BY <1>1, Zenon DEF Probing!Carries, ProbeInv, GeneralIsLoaded
<1>5. QED
  BY <1>1, <1>2, <1>3, <1>4, Zenon DEF ProbeInv

\* A step of the session, the probes or the editor moves one part.
LEMMA ProbePart ==
    ASSUME [ShellNext]_shellVars
    PROVE  [Probing!Next]_probeVars
BY Zenon DEF ShellNext, shellVars

LEMMA ProbeInitial == ShellInit => ProbeInv
<1>1. ASSUME Probing!Init PROVE ProbesSuspended /\ GeneralIsLoaded
  BY <1>1, Zenon DEF Probing!Init, ProbesSuspended, GeneralIsLoaded
<1>2. ASSUME Probing!Init PROVE ProbeTypes /\ CreditIsSeen
  BY <1>2 DEF Probing!Init, ProbeTypes, CreditIsSeen
<1>3. QED
  BY <1>1, <1>2, Zenon DEF ShellInit, ProbeInv

\* What the session knows of the native services stays true.
LEMMA ProbeStep ==
    ASSUME ProbeInv, [Probing!Next]_probeVars
    PROVE  ProbeInv' /\ Probing!RoundIsNew
<1>1. completed # completed + 1
  BY DEF ProbeInv, ProbeTypes
<1>2. CASE /\ UNCHANGED <<boot, served, loaded, general, unseen, processor, completed, credited>>
           /\ available' \in {available, FALSE}
  <2>1. ProbeTypes' /\ CreditIsSeen'
    BY <1>2, Zenon DEF ProbeInv, ProbeTypes, CreditIsSeen
  <2>2. GeneralIsLoaded'
    BY <1>2, Zenon DEF ProbeInv, GeneralIsLoaded
  <2>3. general' = general /\ unseen' = unseen
    BY <1>2, Zenon
  <2>4. available' = available \/ ~available'
    BY <1>2, Zenon
  <2>5. ProbesSuspended'
    BY <2>3, <2>4, Zenon DEF ProbeInv, ProbesSuspended
  <2>6. QED
    BY <1>1, <1>2, <2>1, <2>2, <2>5, Zenon DEF ProbeInv, Probing!RoundIsNew
<1>3. ASSUME NEW heartbeat \in BOOLEAN, Probing!Request(heartbeat)
      PROVE  ProbeInv' /\ Probing!RoundIsNew
  <2>1. ProbesSuspended'
    BY <1>3, RequestStep, Zenon DEF ProbeInv, ProbesSuspended
  <2>2. GeneralIsLoaded'
    BY <1>3, Zenon DEF Probing!Request, ProbeInv, GeneralIsLoaded
  <2>3. QED
    BY <1>3, <2>1, <2>2, RequestStep, Zenon DEF ProbeInv, Probing!RoundIsNew
<1>4. ASSUME NEW op, NEW seen \in BOOLEAN, Probing!WorkloadRecord(op, seen)
      PROVE  ProbeInv' /\ Probing!RoundIsNew
  BY <1>1, <1>4, RecordStep, Zenon DEF Probing!RoundIsNew
<1>5. CASE Probing!Identify
  BY <1>5, IdentifyStep, Zenon DEF Probing!RoundIsNew
<1>6. CASE Probing!WorkloadCompleted
  BY <1>6, <1>2, Zenon DEF Probing!WorkloadCompleted, Probing!processor
<1>7. CASE Probing!StartTurn \/ Probing!Sleep \/ Probing!Close \/ Probing!Closed
           \/ UNCHANGED probeVars
  BY <1>7, <1>2, Zenon DEF Probing!StartTurn, Probing!Sleep, Probing!Close, Probing!Closed,
                    Probing!vars, Probing!processor, probeVars
<1>8. QED
  BY <1>3, <1>4, <1>5, <1>6, <1>7, Zenon
     DEF Probing!Next, Probing!Turn, Probing!PeriodicProbe, Probing!UserRequest

\* A round of native probes that counts is credited to a service of its own,
\* across boots, lost replies and the wrap of the counter, except for the
\* identity probe that first finds the prepared runtime; and no periodic probe
\* reaches a general workload, run by any client, unless no reply since its
\* start reached the session (persistent_monitor, accept_workload_state and
\* ensure_prepared_runtime_initialized in session.py), for any counter width
\* and any length of the session.
THEOREM ProbesAreSoundTheorem == ShellSpec => ProbesAreSound
<1>1. ShellInit => ProbeInv
  BY ProbeInitial, Zenon
<1>2. ProbeInv /\ [ShellNext]_shellVars => ProbeInv'
  BY ProbePart, ProbeStep, Zenon
<1>3. ProbeInv /\ [ShellNext]_shellVars
          => [Probing!RoundIsNew /\ Probing!ProbesOwnRuntime]_probeVars
  <2>1. SUFFICES ASSUME ProbeInv, [Probing!Next]_probeVars
                 PROVE  Probing!RoundIsNew /\ Probing!ProbesOwnRuntime
    BY ProbePart, Zenon
  <2>2. Probing!RoundIsNew
    BY <2>1, ProbeStep, Zenon
  <2>3. Probing!ProbesOwnRuntime
    BY <2>1, Zenon DEF Probing!ProbesOwnRuntime, Probing!PeriodicProbe, Probing!ProbeIsDue,
                ProbeInv, ProbesSuspended
  <2>4. QED
    BY <2>2, <2>3, Zenon
<1>4. QED
  BY <1>1, <1>2, <1>3, PTL DEF ShellSpec, ProbesAreSound

-----------------------------------------------------------------------------
\* The editor of a session is the one of ShellInput, whatever the rest of the
\* session does: the theorems about InputSpec hold of a session as well.
LEMMA SessionHasItsEditor == ShellSpec => InputSpec
<1>1. ShellInit => InputInit
  BY Zenon DEF ShellInit
<1>2. [ShellNext]_shellVars => [InputNext]_inputVars
  BY Zenon DEF ShellNext, shellVars
<1>3. QED
  BY <1>1, <1>2, PTL DEF ShellSpec, InputSpec
=============================================================================
