------------------------- MODULE DeviceSharing_proofs -------------------------
(***************************************************************************)
(* What the Host programs that share a device rely on, for any sets of     *)
(* processes, deployers, children, threads and browsers: an owner stays    *)
(* registered; the Web application leaves no owner behind; PASS of a       *)
(* deployment names what runs; and browsers do not break an upload.        *)
(***************************************************************************)
EXTENDS DeviceSharing, TLAPS

-----------------------------------------------------------------------------
(***************************************************************************)
(* The owners (DeviceOwner).                                               *)
(***************************************************************************)
(* The phases between DeviceOwnership.acquire and release.                 *)
Holding == {"starting", "stranded", "opening", "active", "stopping", "joined", "unlinked"}

(* The phases in which the entry of a registered thread must not be lost.  *)
Serving == {"starting", "stranded", "opening", "active"}

LockMatchesPhase ==
    \A p \in Process : main[p] \in Holding <=> lock = p

YoungThreadIsStarting ==
    \A p \in Process : thread[p] \in {"opening", "listening", "failed"}
                          => main[p] \in {"starting", "stranded"}

ServingIsRegistered ==
    \A p \in Process :
        /\ main[p] \in {"opening", "active"} => thread[p] = "registered"
        /\ thread[p] = "registered" /\ main[p] \in Serving => registry = p

OwnerInv == TypeOK /\ LockMatchesPhase /\ YoungThreadIsStarting /\ ServingIsRegistered

LEMMA OwnerInit == Init => OwnerInv
BY OwnerAssumption, Zenon
   DEF Init, OwnerInv, TypeOK, LockMatchesPhase, YoungThreadIsStarting, ServingIsRegistered,
       Holding, Serving, MainPhases, ThreadPhases

LEMMA OwnerStep == OwnerInv /\ [Next]_vars => OwnerInv'
<1> SUFFICES ASSUME OwnerInv, [Next]_vars PROVE OwnerInv'
  OBVIOUS
<1> USE OwnerAssumption DEF OwnerInv, TypeOK, LockMatchesPhase, YoungThreadIsStarting,
        ServingIsRegistered, Holding, Serving, MainPhases, ThreadPhases
<1>1. CASE UNCHANGED vars
  BY <1>1, Zenon DEF vars
<1>2. ASSUME NEW p \in Process, ProcessStep(p) PROVE OwnerInv'
  <2>1. CASE Discover(p)
    BY <2>1, Zenon DEF Discover
  <2>2. CASE Acquire(p)
    <3>1. CASE lock = Nobody
      BY <2>2, <3>1 DEF Acquire
    <3>2. CASE lock # Nobody
      BY <2>2, <3>2 DEF Acquire
    <3> QED BY <3>1, <3>2, Zenon
  <2>3. CASE Listen(p)
    BY <2>3, Zenon DEF Listen
  <2>4. CASE Register(p)
    BY <2>4 DEF Register
  <2>5. CASE ThreadFails(p)
    BY <2>5, Zenon DEF ThreadFails
  <2>6. CASE StartReady(p)
    BY <2>6 DEF StartReady
  <2>7. CASE StartFails(p)
    BY <2>7 DEF StartFails
  <2>8. CASE StartTimesOut(p)
    BY <2>8 DEF StartTimesOut
  <2>9. CASE OpenDevice(p)
    BY <2>9 DEF OpenDevice
  <2>10. CASE Quit(p)
    BY <2>10, Zenon DEF Quit
  <2>11. CASE Join(p)
    BY <2>11 DEF Join
  <2>12. CASE Unlink(p)
    BY <2>12, Zenon DEF Unlink
  <2>13. CASE Release(p)
    BY <2>13, Zenon DEF Release
  <2>14. CASE CloseDevice(p)
    BY <2>14, Zenon DEF CloseDevice
  <2>15. CASE LateThreadEnds(p)
    BY <2>15, Zenon DEF LateThreadEnds
  <2>16. CASE Crash(p)
    BY <2>16, Zenon DEF Crash
  <2> QED
    BY Zenon, <1>2, <2>1, <2>2, <2>3, <2>4, <2>5, <2>6, <2>7, <2>8, <2>9, <2>10, <2>11, <2>12,
       <2>13, <2>14, <2>15, <2>16 DEF ProcessStep, StopStep
<1> QED BY <1>1, <1>2, Zenon DEF Next

-----------------------------------------------------------------------------
(***************************************************************************)
(* The Web application (WebOwner).                                         *)
(***************************************************************************)
WebTypes ==
    /\ webChild \in [Children -> {"unborn", "starting", "broker", "closing", "exited"}]
    /\ foreign \in BOOLEAN /\ apart \in BOOLEAN /\ race \in BOOLEAN
    /\ owned \in Children \cup {NoChild}
    /\ mode \in {"not-started", "existing", "web-owned", "starting"}
    /\ active \in BOOLEAN
    /\ phase \in {"serving", "stopping", "terminating", "leaving", "gone"}
    /\ target \in Children \cup {NoChild}
    /\ phase = "terminating" => target \in Children
    /\ handler \in [Handlers -> {"idle", "lock"}]
    /\ recovery \in [Recoveries -> {"none", "settle", "ensure"}]
    /\ ensure \in [Web!Threads -> {"out", "discover", "spawn", "wait"}]

(* A child that has the device or may still take it.                       *)
MayOwn(c) == webChild[c] \in {"starting", "broker"}
NoneStarting == \A c \in Children : webChild[c] # "starting"

(* recovery_active admits one recovery, which alone is in                  *)
(* ensure_runtime_owner, and not before the first call has returned.       *)
OneRecovery ==
    /\ \A r \in Recoveries : recovery[r] # "none" => active
    /\ \A r, q \in Recoveries : recovery[r] # "none" /\ recovery[q] # "none" => r = q
    /\ \A r \in Recoveries : ensure[r] # "out" => recovery[r] = "ensure"
FirstCallAlone ==
    ensure["main"] # "out"
        => /\ mode # "web-owned"
           /\ \A r \in Recoveries : recovery[r] = "none"
           /\ \A h \in Handlers : handler[h] = "idle"

(* Without a race: owned_runtime is the only child that may own the        *)
(* device, until stop_owned_runtime has waited for it;                     *)
OnlyOwnedMayOwn ==
    \A c \in Children : MayOwn(c) =>
        /\ owned = c /\ phase \in {"serving", "stopping", "terminating"}
        /\ phase = "terminating" => target = c

(* a recovery that settles began in the mode "web-owned";                  *)
RecoversOwned == \A r \in Recoveries : recovery[r] = "settle" => mode = "web-owned"

(* and a child starts only while somebody waits for it, or after a wait    *)
(* that ended with "starting"; nobody looks for a broker then.             *)
StartIsAwaited ==
    /\ \A t \in Web!Threads :
        /\ ensure[t] = "discover" => NoneStarting
        /\ ensure[t] = "spawn" => \A c \in Children : ~MayOwn(c)
    /\ mode = "web-owned" /\ (\A t \in Web!Threads : ensure[t] # "wait") => NoneStarting

WithoutRace == OnlyOwnedMayOwn /\ RecoversOwned /\ StartIsAwaited

WebInv == WebTypes /\ OneRecovery /\ FirstCallAlone /\ (~race => WithoutRace)

LEMMA WebConstants == NoChild \notin Children /\ "main" \notin Recoveries
BY SharingAssumption, Zenon DEF SharingAssumption, Web!WebAssumption

LEMMA WebTypesInit == Web!Init => WebTypes
<1> SUFFICES ASSUME Web!Init PROVE WebTypes
  OBVIOUS
<1>1. ensure \in [Web!Threads -> {"out", "discover", "spawn", "wait"}]
  BY Zenon DEF Web!Init
<1> QED BY <1>1, Zenon DEF Web!Init, WebTypes

LEMMA WebTypesStep == WebTypes /\ Web!Next => WebTypes'
<1> SUFFICES ASSUME WebTypes, Web!Next PROVE WebTypes'
  OBVIOUS
<1> USE DEF WebTypes, Web!Becomes, Web!others, Web!Return, Web!app, Web!threads
<1>1. ASSUME NEW c \in Children, Web!Publish(c) \/ Web!Leave(c) \/ Web!Exit(c)
      PROVE  WebTypes'
  BY <1>1, ZenonT(40) DEF Web!Publish, Web!Leave, Web!Exit
<1>2. CASE Web!ForeignOwner \/ Web!Stopped
  BY <1>2, Zenon DEF Web!ForeignOwner, Web!Stopped, Web!vars
<1>3. CASE Web!Interrupt
  BY <1>3, Zenon DEF Web!Interrupt
<1>4. CASE Web!StopOwned
  BY <1>4 DEF Web!StopOwned, Web!Alive
<1>5. CASE Web!Waited \/ Web!Gone
  BY <1>5 DEF Web!Waited, Web!Gone
<1>6. ASSUME NEW t \in Web!Threads, Web!Thread(t) PROVE WebTypes'
  <2>1. CASE Web!Discover(t)
    BY <2>1, Zenon DEF Web!Discover
  <2>2. CASE Web!Spawn(t)
    BY <2>2, Zenon DEF Web!Spawn
  <2>3. CASE Web!Wait(t)
    BY <2>3, Zenon DEF Web!Wait
  <2> QED BY <1>6, <2>1, <2>2, <2>3, Zenon DEF Web!Thread
<1>7. ASSUME NEW h \in Handlers,
             \/ Web!ProcessorSnapshot(h) \/ Web!MissedSnapshot(h)
             \/ Web!ControlReboot(h) \/ Web!Locked(h)
      PROVE  WebTypes'
  <2>1. CASE Web!Snapshot(h) \/ Web!ControlReboot(h)
    BY <2>1, ZenonT(40) DEF Web!Snapshot, Web!ControlReboot, Web!WantsRecovery
  <2>2. CASE Web!Locked(h)
    BY <2>2, Zenon DEF Web!Locked
  <2> QED BY <1>7, <2>1, <2>2, Zenon DEF Web!ProcessorSnapshot, Web!MissedSnapshot
<1>8. ASSUME NEW r \in Recoveries, Web!Recover(r) \/ Web!EndRecovery(r) PROVE WebTypes'
  <2>1. r \in Web!Threads
    BY Zenon DEF Web!Threads
  <2> QED BY <1>8, <2>1, Zenon DEF Web!Recover, Web!EndRecovery, Web!Forgotten, Web!Alive
<1> QED BY <1>1, <1>2, <1>3, <1>4, <1>5, <1>6, <1>7, <1>8, Zenon DEF Web!Next

LEMMA WebInit == Web!Init => WebInv
BY WebTypesInit, WebConstants, Zenon
   DEF Web!Init, Web!Threads, WebInv, WithoutRace, OnlyOwnedMayOwn, OneRecovery, FirstCallAlone,
       RecoversOwned, StartIsAwaited, MayOwn, NoneStarting

(* The thread that moves is the only one in ensure_runtime_owner.          *)
LEMMA OneEnsures ==
    ASSUME WebInv, NEW t \in Web!Threads, ensure[t] # "out"
    PROVE  /\ \A s \in Web!Threads : s # t => ensure[s] = "out"
           /\ t = "main" => \A r \in Recoveries : recovery[r] = "none"
           /\ \A r \in Recoveries : recovery[r] # "settle"
BY WebConstants, Zenon DEF WebInv, WebTypes, OneRecovery, FirstCallAlone, Web!Threads

LEMMA WebStep == WebInv /\ Web!Next => WebInv'
<1> SUFFICES ASSUME WebInv, Web!Next
             PROVE  OneRecovery' /\ FirstCallAlone' /\ (~race => WithoutRace)'
  BY WebTypesStep, Zenon DEF WebInv
<1> DEFINE Goal == OneRecovery /\ FirstCallAlone /\ (~race => WithoutRace)
<1> USE WebConstants
    DEF WebInv, WebTypes, WithoutRace, OnlyOwnedMayOwn, OneRecovery, FirstCallAlone,
        RecoversOwned, StartIsAwaited, MayOwn, NoneStarting, Web!Threads, Web!app, Web!threads,
        Web!BrokerActive, Web!Alive, Web!Becomes, Web!others, Web!Return
<1>1. ASSUME NEW c \in Children, Web!Publish(c) \/ Web!Leave(c) \/ Web!Exit(c)
      PROVE  Goal'
  <2>1. CASE Web!Publish(c)
    BY <2>1 DEF Web!Publish
  <2>2. CASE Web!Leave(c)
    BY <2>2 DEF Web!Leave
  <2>3. CASE Web!Exit(c)
    BY <2>3 DEF Web!Exit
  <2> QED BY <1>1, <2>1, <2>2, <2>3, Zenon
<1>2. CASE Web!ForeignOwner \/ Web!Stopped
  BY <1>2 DEF Web!ForeignOwner, Web!Stopped, Web!vars
<1>3. CASE Web!Interrupt
  BY <1>3 DEF Web!Interrupt, Web!Serving
<1>4. CASE Web!StopOwned
  BY <1>4 DEF Web!StopOwned
<1>5. CASE Web!Waited
  BY <1>5 DEF Web!Waited
<1>6. CASE Web!Gone
  BY <1>6 DEF Web!Gone
<1>7. ASSUME NEW t \in Web!Threads, Web!Thread(t) PROVE Goal'
  <2>a. ensure[t] # "out"
    BY <1>7, Zenon DEF Web!Thread, Web!Discover, Web!Spawn, Web!Wait
  <2>b. /\ \A s \in Web!Threads : s # t => ensure[s] = "out"
        /\ t = "main" => \A r \in Recoveries : recovery[r] = "none"
        /\ \A r \in Recoveries : recovery[r] # "settle"
    BY <2>a, OneEnsures, Zenon
  <2>c. UNCHANGED <<recovery, active, handler>>
    BY <1>7, Zenon DEF Web!Thread, Web!Discover, Web!Spawn, Web!Wait
  <2>d. \E v \in {"out", "discover", "spawn", "wait"} : ensure' = [ensure EXCEPT ![t] = v]
    BY <1>7, Zenon DEF Web!Thread, Web!Discover, Web!Spawn, Web!Wait
  <2>1. OneRecovery'
    BY <2>a, <2>c, <2>d, Zenon
  <2>2. t # "main" => ensure["main"] = "out" /\ ensure'["main"] = "out"
    BY <2>b, <2>d, Zenon
  <2>3. mode' = "web-owned" => mode = "web-owned" \/ ensure'[t] = "out"
    BY <1>7, Zenon DEF Web!Thread, Web!Discover, Web!Spawn, Web!Wait
  <2>4. FirstCallAlone'
    BY <2>a, <2>c, <2>2, <2>3, Zenon
  <2>5. RecoversOwned'
    BY <2>b, <2>c, Zenon
  <2>6. CASE Web!Discover(t)
    <3>1. /\ \/ mode' = "existing" /\ ensure' = [ensure EXCEPT ![t] = "out"] /\ race' = race
             \/ /\ mode' = mode /\ ensure' = [ensure EXCEPT ![t] = "spawn"]
                /\ ~race' => ~race /\ \A c \in Children : webChild[c] # "broker"
          /\ ensure[t] = "discover" /\ UNCHANGED <<webChild, owned, phase, target>>
      BY <2>6, Zenon DEF Web!Discover
    <3>2. ~race' => OnlyOwnedMayOwn' /\ StartIsAwaited'
      BY <2>b, <3>1
    <3> QED BY <2>1, <2>4, <2>5, <3>2, Zenon
  <2>7. CASE Web!Spawn(t)
    <3>a. ASSUME UNCHANGED <<webChild, owned, race>>, ~race' PROVE OnlyOwnedMayOwn'
      <4>1. UNCHANGED <<phase, target>>
        BY <2>7, Zenon DEF Web!Spawn
      <4> QED BY <3>a, <4>1
    <3>b. ASSUME NEW c \in Children,
                 webChild' = [webChild EXCEPT ![c] = "starting"], owned' = c,
                 race' = (race \/ phase \in {"terminating", "leaving"}), ~race'
          PROVE  OnlyOwnedMayOwn'
      <4>1. phase' \in {"serving", "stopping"} /\ ~race
        BY <2>7, <3>b, Zenon DEF Web!Spawn, Web!Running
      <4> QED BY <2>7, <3>b, <4>1 DEF Web!Spawn
    <3>1. ~race' => OnlyOwnedMayOwn'
      BY <2>7, <3>a, <3>b, Zenon DEF Web!Spawn
    <3>2. ~race' => StartIsAwaited'
      BY <2>7, <2>b DEF Web!Spawn
    <3> QED BY <2>1, <2>4, <2>5, <3>1, <3>2, Zenon
  <2>8. CASE Web!Wait(t)
    <3>1. ~race' => OnlyOwnedMayOwn'
      BY <2>8 DEF Web!Wait
    <3>2. ~race' => StartIsAwaited'
      BY <2>8, <2>b DEF Web!Wait
    <3> QED BY <2>1, <2>4, <2>5, <3>1, <3>2, Zenon
  <2> QED BY <1>7, <2>6, <2>7, <2>8, Zenon DEF Web!Thread
<1>8. ASSUME NEW h \in Handlers,
             \/ Web!ProcessorSnapshot(h) \/ Web!MissedSnapshot(h)
             \/ Web!ControlReboot(h) \/ Web!Locked(h)
      PROVE  Goal'
  <2>1. CASE Web!Snapshot(h) \/ Web!ControlReboot(h)
    BY <2>1 DEF Web!Snapshot, Web!ControlReboot, Web!WantsRecovery
  <2>2. CASE Web!Locked(h)
    <3>1. CASE UNCHANGED <<active, error, recovery, race>>
      BY <2>2, <3>1 DEF Web!Locked
    <3>2. CASE ~active /\ ~UNCHANGED <<active, error, recovery, race>>
      <4>1. PICK r \in Recoveries :
                /\ recovery' = [recovery EXCEPT ![r] = "settle"] /\ active' = TRUE
                /\ ~race' => ~race /\ mode = "web-owned"
        BY <2>2, <3>2, Zenon DEF Web!Locked, Web!RecoveryRunning
      <4>2. UNCHANGED <<webChild, owned, mode, ensure, phase, target>>
        BY <2>2, Zenon DEF Web!Locked
      <4>3. OneRecovery'
        BY <3>2, <4>1, <4>2
      <4>4. FirstCallAlone'
        BY <2>2, <4>2, Zenon DEF Web!Locked
      <4> QED BY <4>1, <4>2, <4>3, <4>4
    <3> QED BY <2>2, <3>1, <3>2, Zenon DEF Web!Locked, Web!RecoveryRunning
  <2> QED BY <1>8, <2>1, <2>2, Zenon DEF Web!ProcessorSnapshot, Web!MissedSnapshot
<1>9. ASSUME NEW r \in Recoveries, Web!Recover(r) \/ Web!EndRecovery(r) PROVE Goal'
  <2>1. CASE Web!Recover(r)
    BY <2>1 DEF Web!Recover, Web!Forgotten
  <2>2. CASE Web!EndRecovery(r)
    BY <2>2 DEF Web!EndRecovery
  <2> QED BY <1>9, <2>1, <2>2, Zenon
<1> QED BY <1>1, <1>2, <1>3, <1>4, <1>5, <1>6, <1>7, <1>8, <1>9, Zenon DEF Web!Next

LEMMA WebInvQuiet == WebInv /\ UNCHANGED webVars => WebInv'
BY DEF webVars, WebInv, WithoutRace, WebTypes, OnlyOwnedMayOwn, OneRecovery, FirstCallAlone,
       RecoversOwned, StartIsAwaited, MayOwn, NoneStarting, Web!Threads

-----------------------------------------------------------------------------
(***************************************************************************)
(* Deployments (Deploy).                                                   *)
(***************************************************************************)
(* While an upload is received, memory holds the image of that transfer;   *)
(* a deployer that is about to run was committed, and its image is still   *)
(* there, or cannot be run, or was overtaken.                              *)
AboutToRun(d) ==
    /\ life = "RECEIVING" => transfer # d
    /\ image = d \/ life \in {"RECEIVING", "FAULTED"} \/ d \in overtaken

DeployInv ==
    /\ pc \in [Deployers -> {"new", "wait", "status", "stop", "begin", "commit", "run", "done"}]
    /\ outcome \in [Deployers -> {"none", "no owner", "transport", "upload failed", "PASS"}]
    /\ life = "RECEIVING" => image = transfer
    /\ \A d \in Deployers : pc[d] = "run" => AboutToRun(d)

LEMMA DeployInit == Deployment!Init => DeployInv
BY Zenon DEF Deployment!Init, DeployInv, AboutToRun

(* The device acts on a request of d or of another client.                 *)
LEMMA DeviceStep ==
    ASSUME DeployInv, NEW d \in Deployers \cup {Nobody}, NEW op,
           \/ Deployment!Accepts(d, op) /\ Deployment!Execute(d, op)
           \/ Deployment!Refuse(d, op),
           op = "begin" => (d \in Deployers => pc[d] = "begin"),
           op = "commit" => (d \in Deployers => pc[d] = "commit")
    PROVE  /\ life' = "RECEIVING" => image' = transfer'
           /\ \A e \in Deployers : pc[e] = "run" => AboutToRun(e)'
BY SharingAssumption
   DEF SharingAssumption, Deployment!DeployAssumption, DeployInv, AboutToRun,
       Deployment!Accepts, Deployment!Execute, Deployment!Refuse, Deployment!Active

LEMMA DeployStep ==
    DeployInv /\ Deployment!Next => DeployInv' /\ Deployment!PassesWhenRunning
<1> SUFFICES ASSUME DeployInv, Deployment!Next
             PROVE  DeployInv' /\ Deployment!PassesWhenRunning
  OBVIOUS
<1> USE DEF DeployInv, AboutToRun, Deployment!PassesWhenRunning, Deployment!End
<1>1. ASSUME NEW d \in Deployers,
             \/ Deployment!Step(d) \/ Deployment!ChildStarts(d) \/ Deployment!ChildPublishes(d)
      PROVE  DeployInv' /\ Deployment!PassesWhenRunning
  <2>1. CASE Deployment!Find(d)
    BY <2>1 DEF Deployment!Find, Deployment!device
  <2>2. CASE Deployment!Poll(d) \/ Deployment!WaitExpires(d)
    BY <2>2 DEF Deployment!Poll, Deployment!WaitExpires, Deployment!device
  <2>3. CASE Deployment!Exchange(d)
    <3> DEFINE op == pc[d]
    <3>1. op \in {"status", "stop", "begin", "commit", "run"}
      BY <2>3, Zenon DEF Deployment!Exchange
    <3>2. CASE Deployment!Accepts(d, op) /\ Deployment!Execute(d, op) /\ Deployment!Continue(d, op)
      <4>1. PICK v \in {"stop", "begin", "commit", "run", "done"} :
                /\ pc' = [pc EXCEPT ![d] = v]
                /\ v = "run" => op = "commit"
        BY <3>2, Zenon DEF Deployment!Continue
      <4>2. /\ life' = "RECEIVING" => image' = transfer'
            /\ \A e \in Deployers : pc[e] = "run" => AboutToRun(e)'
        BY <3>2, DeviceStep, Zenon
      <4>3. op = "commit" => life' # "RECEIVING" /\ image' = d
        BY <3>2 DEF Deployment!Accepts, Deployment!Execute
      <4>4. \/ outcome' = outcome
            \/ op = "run" /\ outcome' = [outcome EXCEPT ![d] = "PASS"]
        BY <3>2, Zenon DEF Deployment!Continue
      <4>5. op = "run" => /\ life' = "RUNNING" /\ running' = image
                          /\ life \notin {"RECEIVING", "FAULTED"}
        BY <3>2 DEF Deployment!Accepts, Deployment!Execute
      <4>6. Deployment!PassesWhenRunning
        BY <4>4, <4>5, Zenon
      <4>7. \A e \in Deployers : pc'[e] = "run" => AboutToRun(e)'
        BY <4>1, <4>2, <4>3, Zenon
      <4>8. /\ pc' \in [Deployers ->
                          {"new", "wait", "status", "stop", "begin", "commit", "run", "done"}]
            /\ outcome' \in [Deployers ->
                               {"none", "no owner", "transport", "upload failed", "PASS"}]
        BY <4>1, <4>4
      <4> QED BY <4>2, <4>6, <4>7, <4>8, Zenon
    <3>3. CASE /\ Deployment!Fail(d, op)
               /\ \/ Deployment!Accepts(d, op) /\ Deployment!Execute(d, op)
                  \/ Deployment!Refuse(d, op)
                  \/ UNCHANGED <<life, transfer, image, running, overtaken>>
      <4>1. Deployment!Failure(op) \in {"transport", "upload failed"}
        BY Zenon DEF Deployment!Failure
      <4>2. /\ pc' = [pc EXCEPT ![d] = "done"]
            /\ outcome' = [outcome EXCEPT ![d] = Deployment!Failure(op)]
        BY <3>3, Zenon DEF Deployment!Fail
      <4>3. /\ life' = "RECEIVING" => image' = transfer'
            /\ \A e \in Deployers : pc[e] = "run" => AboutToRun(e)'
        BY <3>3, DeviceStep, Zenon
      <4>4. /\ pc' \in [Deployers ->
                          {"new", "wait", "status", "stop", "begin", "commit", "run", "done"}]
            /\ outcome' \in [Deployers ->
                               {"none", "no owner", "transport", "upload failed", "PASS"}]
        BY <4>1, <4>2
      <4>5. Deployment!PassesWhenRunning
        BY <4>1, <4>2, Zenon
      <4> QED BY <4>2, <4>3, <4>4, <4>5, Zenon
    <3> QED BY <2>3, <3>2, <3>3, Zenon DEF Deployment!Exchange, Deployment!device
  <2>4. CASE Deployment!ChildStarts(d) \/ Deployment!ChildPublishes(d)
    BY <2>4, Zenon DEF Deployment!ChildStarts, Deployment!ChildPublishes, Deployment!device
  <2> QED BY <1>1, <2>1, <2>2, <2>3, <2>4, Zenon DEF Deployment!Step
<1>2. ASSUME NEW op \in {"begin", "commit", "run", "restart", "stop"}, Deployment!OtherClient(op)
      PROVE  DeployInv' /\ Deployment!PassesWhenRunning
  <2>1. Nobody \notin Deployers
    BY SharingAssumption, Zenon DEF SharingAssumption, Deployment!DeployAssumption
  <2>2. /\ life' = "RECEIVING" => image' = transfer'
        /\ \A e \in Deployers : pc[e] = "run" => AboutToRun(e)'
    BY <1>2, <2>1, DeviceStep, Zenon DEF Deployment!OtherClient
  <2> QED BY <1>2, <2>2, Zenon DEF Deployment!OtherClient
<1>3. CASE Deployment!Ends
  BY <1>3 DEF Deployment!Ends
<1>4. CASE Deployment!Finished
  BY <1>4, Zenon DEF Deployment!Finished, Deployment!vars, Deployment!device
<1> QED BY <1>1, <1>2, <1>3, <1>4, Zenon DEF Deployment!Next

-----------------------------------------------------------------------------
(***************************************************************************)
(* The requests of browsers (WebGateway).                                  *)
(***************************************************************************)
GatewayTypes ==
    /\ threadPc \in [RequestThreads -> {"idle", "wait", "hello", "stop", "send", "answer"}]
    /\ kind \in [RequestThreads -> Gateway!Kinds]
    /\ number \in [RequestThreads -> Nat]
    /\ position \in [RequestThreads -> 1 .. Records]
    /\ attempt \in [RequestThreads -> 1 .. 2]
    /\ ok \in [RequestThreads -> BOOLEAN]
    /\ requests \in Nat /\ lostReplies \in Nat /\ outside \in Nat
    /\ managerState \in {"ready", "receiving", "running", "completed", "failed"}
    /\ upload \in Nat /\ received \in Nat /\ staged \in Nat
    /\ disturbed \in BOOLEAN /\ misread \in BOOLEAN

(* A thread drives the device only under request_lock.                     *)
DriverHoldsLock ==
    \A t \in RequestThreads : threadPc[t] \notin {"idle", "wait"} => requestLock = t

(* While nothing has disturbed an upload since its hello, the device       *)
(* expects the record that it sends next; for the first record the hello   *)
(* must have shown what the processor does.                                *)
UploadInStep ==
    /\ \A t \in RequestThreads :
        threadPc[t] \in {"idle", "wait", "hello", "stop"} \/ kind[t] # "upload" => position[t] = 1
    /\ \A t \in RequestThreads : ~disturbed /\ kind[t] = "upload" =>
        /\ threadPc[t] = "stop" /\ ~misread => managerState \in Gateway!Busy
        /\ threadPc[t] = "send" /\ position[t] = 1 /\ ~misread => managerState \notin Gateway!Busy
        /\ threadPc[t] = "send" /\ position[t] > 1
               => /\ managerState = "receiving"
                  /\ upload = number[t] /\ received = position[t] - 1

GatewayInv == GatewayTypes /\ DriverHoldsLock /\ UploadInStep

LEMMA RecordsAssumption == Records \in Nat /\ Records >= 2 /\ Nobody \notin RequestThreads
BY SharingAssumption, Zenon DEF SharingAssumption, Gateway!GatewayAssumption

LEMMA GatewayInit == Gateway!Init => GatewayInv
<1> SUFFICES ASSUME Gateway!Init PROVE GatewayInv
  OBVIOUS
<1>1. 1 \in 1 .. Records /\ 1 \in 1 .. 2 /\ 0 \in Nat
  BY RecordsAssumption
<1>2. GatewayTypes
  BY <1>1, Zenon DEF Gateway!Init, Gateway!Kinds, GatewayTypes
<1> QED BY <1>2, Zenon DEF Gateway!Init, GatewayInv, DriverHoldsLock, UploadInStep

(* What an exchange or a failed hello leaves of a thread and its request.  *)
Answered(t, replied) ==
    /\ ok' \in [RequestThreads -> BOOLEAN] /\ (kind[t] = "upload" => (ok'[t] <=> replied))
    /\ kind[t] = "upload" /\ replied => threadPc[t] = "send" /\ position[t] = Records
    /\ threadPc' = [threadPc EXCEPT ![t] = "answer"] /\ position' = position
TriesAgain(t) ==
    /\ kind[t] = "command"
    /\ threadPc' = [threadPc EXCEPT ![t] = "hello"] /\ UNCHANGED <<ok, position>>
StopsFirst(t, replied) ==
    /\ replied /\ kind[t] = "upload" /\ threadPc[t] = "stop"
    /\ threadPc' = [threadPc EXCEPT ![t] = "send"] /\ UNCHANGED <<ok, position>>
SendsNext(t, replied) ==
    /\ replied /\ kind[t] = "upload" /\ threadPc[t] = "send" /\ position[t] < Records
    /\ position' = [position EXCEPT ![t] = @ + 1] /\ UNCHANGED <<ok, threadPc>>

LEMMA AdvanceEffect ==
    ASSUME NEW t \in RequestThreads, NEW replied \in BOOLEAN, GatewayTypes,
           threadPc[t] \in {"hello", "stop", "send"}, Gateway!Advance(t, replied)
    PROVE  /\ attempt' \in [RequestThreads -> 1 .. 2]
           /\ \/ Answered(t, replied) \/ TriesAgain(t)
              \/ StopsFirst(t, replied) \/ SendsNext(t, replied)
<1> USE DEF GatewayTypes, Gateway!Answer, Answered, TriesAgain, StopsFirst, SendsNext
<1>1. CASE kind[t] = "upload" /\ Gateway!WorkloadUpload(t, replied)
  BY <1>1, Zenon DEF Gateway!WorkloadUpload
<1>2. CASE kind[t] = "command" /\ Gateway!ProcessorCommand(t, replied)
  BY <1>2 DEF Gateway!ProcessorCommand
<1>3. CASE kind[t] \notin {"upload", "command"} /\ Gateway!WorkloadControl(t, replied)
  BY <1>3, Zenon DEF Gateway!WorkloadControl
<1> QED BY <1>1, <1>2, <1>3, Zenon DEF Gateway!Advance

LEMMA AdvanceTypes ==
    ASSUME NEW t \in RequestThreads, NEW replied \in BOOLEAN, GatewayTypes, DriverHoldsLock,
           threadPc[t] \in {"hello", "stop", "send"}, Gateway!Advance(t, replied),
           UNCHANGED requestLock
    PROVE  /\ threadPc' \in [RequestThreads ->
                               {"idle", "wait", "hello", "stop", "send", "answer"}]
           /\ position' \in [RequestThreads -> 1 .. Records]
           /\ attempt' \in [RequestThreads -> 1 .. 2]
           /\ ok' \in [RequestThreads -> BOOLEAN]
           /\ DriverHoldsLock'
<1> USE RecordsAssumption, AdvanceEffect DEF GatewayTypes, DriverHoldsLock
<1>1. CASE Answered(t, replied)
  BY <1>1, Zenon DEF Answered
<1>2. CASE TriesAgain(t)
  BY <1>2, Zenon DEF TriesAgain
<1>3. CASE StopsFirst(t, replied)
  BY <1>3, Zenon DEF StopsFirst
<1>4. CASE SendsNext(t, replied)
  <2>1. position[t] + 1 \in 1 .. Records
    BY <1>4 DEF SendsNext
  <2> QED BY <1>4, <2>1, Zenon DEF SendsNext
<1> QED BY <1>1, <1>2, <1>3, <1>4, Zenon

LEMMA OpCases ==
    ASSUME NEW t \in RequestThreads, GatewayTypes, threadPc[t] \in {"stop", "send"}
    PROVE  /\ Gateway!Op(t) \in {"begin", "data", "commit", "stop", "run", "restart", "command"}
           /\ kind[t] = "upload" => Gateway!Op(t) \in {"begin", "data", "commit", "stop"}
           /\ threadPc[t] = "stop" => Gateway!Op(t) = "stop"
           /\ threadPc[t] = "send" /\ kind[t] = "upload" =>
                /\ position[t] = 1 => Gateway!Op(t) = "begin"
                /\ position[t] = Records => Gateway!Op(t) = "commit"
                /\ position[t] > 1 /\ position[t] < Records => Gateway!Op(t) = "data"
BY RecordsAssumption DEF GatewayTypes, Gateway!Kinds, Gateway!Op, Gateway!UploadOp

LEMMA ExecuteTypes ==
    ASSUME NEW op, NEW n \in Nat, GatewayTypes, Gateway!Execute(op, n)
    PROVE  /\ managerState' \in {"ready", "receiving", "running", "completed", "failed"}
           /\ upload' \in Nat /\ received' \in Nat /\ staged' \in Nat
BY DEF GatewayTypes, Gateway!Execute

(* A record that the device refuses was disturbed, or it is the first and  *)
(* the hello misled the upload.                                            *)
LEMMA RefusedIsDisturbed ==
    ASSUME NEW t \in RequestThreads, GatewayInv, threadPc[t] \in {"stop", "send"},
           kind[t] = "upload", ~disturbed, position[t] = 1 => ~misread
    PROVE  Gateway!Accepts(Gateway!Op(t), number[t], position[t])
<1> USE DEF GatewayInv, UploadInStep
<1>1. CASE threadPc[t] = "stop"
  BY <1>1, OpCases, Zenon DEF Gateway!Accepts
<1>2. CASE threadPc[t] = "send"
  <2>1. CASE position[t] = 1
    BY <1>2, <2>1, OpCases, Zenon DEF Gateway!Accepts
  <2>2. CASE position[t] # 1
    <3>1. position[t] > 1 /\ position[t] \in 1 .. Records
      BY <2>2, RecordsAssumption DEF GatewayTypes
    <3>2. /\ managerState = "receiving" /\ upload = number[t]
          /\ received = position[t] - 1
      BY <1>2, <3>1, Zenon
    <3>3. CASE position[t] = Records
      BY <1>2, <3>2, <3>3, OpCases, Zenon DEF Gateway!Accepts
    <3>4. CASE position[t] < Records
      BY <1>2, <3>1, <3>2, <3>4, OpCases, Zenon DEF Gateway!Accepts
    <3> QED BY <3>1, <3>3, <3>4, RecordsAssumption
  <2> QED BY <2>1, <2>2, Zenon
<1> QED BY <1>1, <1>2, Zenon

LEMMA GatewayStep ==
    GatewayInv /\ Gateway!Next
        => GatewayInv' /\ Gateway!StagesItsImage /\ Gateway!FailsOnlyDisturbed
<1> DEFINE Goal == GatewayInv' /\ Gateway!StagesItsImage /\ Gateway!FailsOnlyDisturbed
<1> SUFFICES ASSUME GatewayInv, Gateway!Next PROVE Goal
  OBVIOUS
<1> USE RecordsAssumption
    DEF GatewayInv, GatewayTypes, DriverHoldsLock, UploadInStep,
        Gateway!StagesItsImage, Gateway!FailsOnlyDisturbed, Gateway!session, Gateway!device,
        Gateway!history
<1>1. ASSUME NEW b \in Browsers, Gateway!Acquire(b) \/ Gateway!Release(b) PROVE Goal
  BY <1>1, Zenon DEF Gateway!Acquire, Gateway!Release
<1>2. ASSUME NEW t \in RequestThreads, NEW b \in Browsers, NEW k \in Gateway!Kinds,
             Gateway!Post(t, b, k)
      PROVE  Goal
  BY <1>2 DEF Gateway!Post
<1>3. ASSUME NEW t \in RequestThreads, Gateway!Lock(t) PROVE Goal
  BY <1>3, Zenon DEF Gateway!Lock, Gateway!LockIsFree
<1>4. ASSUME NEW t \in RequestThreads, Gateway!Hello(t) PROVE Goal
  <2>1. CASE /\ Gateway!Advance(t, FALSE) /\ lostReplies' = lostReplies + 1
             /\ UNCHANGED <<disturbed, misread>>
    <3>1. /\ threadPc[t] = "hello"
          /\ UNCHANGED <<requestLock, kind, number, requests, outside, managerState, upload,
                         received, staged, disturbed, misread>>
      BY <1>4, <2>1, Zenon DEF Gateway!Hello
    <3>2. GatewayTypes' /\ DriverHoldsLock'
      <4>1. /\ threadPc' \in [RequestThreads ->
                                {"idle", "wait", "hello", "stop", "send", "answer"}]
            /\ position' \in [RequestThreads -> 1 .. Records]
            /\ attempt' \in [RequestThreads -> 1 .. 2]
            /\ ok' \in [RequestThreads -> BOOLEAN]
            /\ DriverHoldsLock'
        BY <2>1, <3>1, AdvanceTypes, Zenon
      <4>2. /\ lostReplies' \in Nat
            /\ managerState' \in {"ready", "receiving", "running", "completed", "failed"}
            /\ upload' \in Nat /\ received' \in Nat /\ staged' \in Nat
        BY <2>1, <3>1
      <4> QED BY <3>1, <4>1, <4>2, Zenon
    <3>3. Answered(t, FALSE) \/ TriesAgain(t)
      BY <2>1, <3>1, AdvanceEffect, Zenon DEF StopsFirst, SendsNext
    <3>4. UploadInStep'
      BY <2>1, <3>1, <3>3 DEF Answered, TriesAgain
    <3>5. Gateway!StagesItsImage /\ Gateway!FailsOnlyDisturbed
      BY <2>1, <3>1, <3>3, Zenon DEF Answered, TriesAgain
    <3> QED BY <3>2, <3>4, <3>5, Zenon
  <2>2. CASE /\ threadPc' = [threadPc EXCEPT ![t] =
                    IF kind[t] = "upload" /\ view \in Gateway!Busy THEN "stop" ELSE "send"]
             /\ disturbed' = FALSE
             /\ misread' = ((view \in Gateway!Busy) # (managerState \in Gateway!Busy))
             /\ UNCHANGED <<position, attempt, ok, lostReplies>>
    <3>1. /\ threadPc[t] = "hello" /\ position[t] = 1
          /\ UNCHANGED <<requestLock, kind, number, requests, outside, managerState, upload,
                         received, staged>>
      BY <1>4, Zenon DEF Gateway!Hello
    <3>2. \A u \in RequestThreads : u # t => threadPc[u] \in {"idle", "wait"} /\ position[u] = 1
      BY <3>1, Zenon
    <3>3. GatewayTypes' /\ DriverHoldsLock'
      BY <2>2, <3>1
    <3>4. UploadInStep'
      <4>1. ~misread' => (view \in Gateway!Busy <=> managerState \in Gateway!Busy)
        BY <2>2, Zenon
      <4>2. \A u \in RequestThreads :
               /\ u # t => threadPc'[u] \in {"idle", "wait"}
               /\ kind[u] = "upload" /\ threadPc'[u] = "stop"
                      => u = t /\ view \in Gateway!Busy
               /\ kind[u] = "upload" /\ threadPc'[u] = "send"
                      => u = t /\ view \notin Gateway!Busy
        BY <2>2, <3>1, <3>2, Zenon
      <4>3. \A u \in RequestThreads : position'[u] = 1 /\ kind'[u] = kind[u]
        BY <2>2, <3>1, <3>2, Zenon
      <4> QED BY <3>1, <4>1, <4>2, <4>3
    <3>5. Gateway!StagesItsImage /\ Gateway!FailsOnlyDisturbed
      BY <2>2, <3>1, <3>2
    <3> QED BY <3>3, <3>4, <3>5, Zenon
  <2> QED BY <1>4, <2>1, <2>2, Zenon DEF Gateway!Hello
<1>5. ASSUME NEW t \in RequestThreads, Gateway!Exchange(t) PROVE Goal
  <2> DEFINE op == Gateway!Op(t)
             n == number[t]
  <2>1. /\ threadPc[t] \in {"stop", "send"} /\ n \in Nat
        /\ UNCHANGED <<requestLock, kind, number, requests, outside, misread>>
    BY <1>5, Zenon DEF Gateway!Exchange
  <2>2. \A u \in RequestThreads : u # t => threadPc[u] \in {"idle", "wait"} /\ position[u] = 1
    BY <2>1, Zenon
  <2>3. CASE /\ Gateway!Accepts(op, n, position[t]) /\ Gateway!Execute(op, n)
             /\ UNCHANGED <<lostReplies, disturbed>>
             /\ Gateway!Advance(t, TRUE)
    <3>1. GatewayTypes' /\ DriverHoldsLock'
      BY <2>1, <2>3, AdvanceTypes, ExecuteTypes, Zenon
    <3>2. CASE Answered(t, TRUE)
      <4>1. UploadInStep' /\ Gateway!FailsOnlyDisturbed
        BY <2>1, <2>2, <2>3, <3>2, Zenon DEF Answered
      <4>2. Gateway!StagesItsImage
        BY <2>1, <2>2, <2>3, <3>2, OpCases DEF Answered, Gateway!Execute, Gateway!Accepts
      <4> QED BY <3>1, <4>1, <4>2, Zenon
    <3>3. CASE TriesAgain(t)
      BY <2>1, <2>2, <2>3, <3>1, <3>3, Zenon DEF TriesAgain
    <3>4. CASE StopsFirst(t, TRUE)
      <4>1. managerState' = "ready" /\ position[t] = 1
        BY <2>1, <2>3, <3>4, OpCases, Zenon DEF StopsFirst, Gateway!Execute
      <4>2. /\ threadPc'[t] = "send" /\ position' = position /\ ok' = ok
            /\ \A u \in RequestThreads : u # t => threadPc'[u] \in {"idle", "wait"}
        BY <2>1, <2>2, <3>4, Zenon DEF StopsFirst
      <4>3. managerState' \notin Gateway!Busy
        BY <4>1 DEF Gateway!Busy
      <4>4. UploadInStep'
        BY <2>1, <2>2, <4>1, <4>2, <4>3
      <4>5. Gateway!StagesItsImage /\ Gateway!FailsOnlyDisturbed
        BY <4>2, Zenon
      <4> QED BY <3>1, <4>4, <4>5, Zenon
    <3>5. CASE SendsNext(t, TRUE)
      <4>1. managerState' = "receiving" /\ upload' = n /\ received' = position[t]
        <5>1. CASE position[t] = 1
          BY <2>1, <2>3, <3>5, <5>1, OpCases, Zenon DEF SendsNext, Gateway!Execute
        <5>2. CASE position[t] > 1
          BY <2>1, <2>3, <3>5, <5>2, OpCases DEF SendsNext, Gateway!Execute, Gateway!Accepts
        <5> QED BY <5>1, <5>2
      <4>2. position'[t] = position[t] + 1 /\ \A u \in RequestThreads : u # t => position'[u] = position[u]
        BY <3>5, Zenon DEF SendsNext
      <4> QED BY <2>1, <2>2, <2>3, <3>1, <3>5, <4>1, <4>2 DEF SendsNext
    <3> QED BY <2>1, <2>3, <3>2, <3>3, <3>4, <3>5, AdvanceEffect, Zenon
  <2>4. ASSUME Gateway!Advance(t, FALSE)
        PROVE  /\ Answered(t, FALSE) \/ TriesAgain(t)
               /\ \A u \in RequestThreads : u # t => threadPc'[u] \in {"idle", "wait"} /\ position'[u] = 1
               /\ threadPc'[t] = "answer" \/ (threadPc'[t] = "hello" /\ kind[t] = "command")
               /\ position'[t] = position[t]
               /\ kind[t] = "upload" /\ threadPc'[t] = "answer" => ~ok'[t]
    <3>1. Answered(t, FALSE) \/ TriesAgain(t)
      BY <2>1, <2>4, AdvanceEffect, Zenon DEF StopsFirst, SendsNext
    <3> QED BY <2>1, <2>2, <3>1, Zenon DEF Answered, TriesAgain
  <2>5. CASE /\ Gateway!Refuse(op, n, position[t])
             /\ UNCHANGED <<lostReplies, disturbed>>
             /\ Gateway!Advance(t, FALSE)
    <3>1. GatewayTypes' /\ DriverHoldsLock'
      BY <2>1, <2>5, AdvanceTypes, Zenon DEF Gateway!Refuse
    <3>2. UploadInStep'
      BY <2>1, <2>4, <2>5, Zenon DEF Gateway!Refuse
    <3>3. Gateway!StagesItsImage
      BY <2>1, <2>4, <2>5, Zenon
    <3>4. kind[t] = "upload" => disturbed' \/ (misread /\ position[t] = 1)
      BY <2>1, <2>5, RefusedIsDisturbed, OpCases, Zenon DEF Gateway!Refuse
    <3>5. Gateway!FailsOnlyDisturbed
      BY <2>1, <2>4, <3>4, Zenon
    <3> QED BY <3>1, <3>2, <3>3, <3>5, Zenon
  <2>6. CASE /\ lostReplies' = lostReplies + 1 /\ disturbed' = TRUE
             /\ \/ UNCHANGED <<managerState, upload, received, staged>>
                \/ Gateway!Accepts(op, n, position[t]) /\ Gateway!Execute(op, n)
             /\ Gateway!Advance(t, FALSE)
    <3>1. GatewayTypes' /\ DriverHoldsLock'
      <4>1. /\ threadPc' \in [RequestThreads ->
                                {"idle", "wait", "hello", "stop", "send", "answer"}]
            /\ position' \in [RequestThreads -> 1 .. Records]
            /\ attempt' \in [RequestThreads -> 1 .. 2]
            /\ ok' \in [RequestThreads -> BOOLEAN]
            /\ DriverHoldsLock'
        BY <2>1, <2>6, AdvanceTypes, Zenon
      <4>2. /\ lostReplies' \in Nat
            /\ managerState' \in {"ready", "receiving", "running", "completed", "failed"}
            /\ upload' \in Nat /\ received' \in Nat /\ staged' \in Nat
        BY <2>1, <2>6, ExecuteTypes
      <4>3. disturbed' \in BOOLEAN /\ misread' \in BOOLEAN
        BY <2>1, <2>6, Zenon
      <4> QED BY <2>1, <4>1, <4>2, <4>3, Zenon
    <3>2. UploadInStep'
      BY <2>1, <2>4, <2>6
    <3>3. Gateway!StagesItsImage /\ Gateway!FailsOnlyDisturbed
      BY <2>1, <2>4, <2>6
    <3> QED BY <3>1, <3>2, <3>3, Zenon
  <2> QED BY <1>5, <2>3, <2>5, <2>6, Zenon DEF Gateway!Exchange
<1>6. ASSUME NEW t \in RequestThreads, Gateway!Reply(t) PROVE Goal
  BY <1>6 DEF Gateway!Reply, Gateway!Kinds
<1>7. ASSUME NEW op \in {"begin", "commit", "run", "restart", "stop", "status"},
             Gateway!Outside(op)
      PROVE  Goal
  <2>1. /\ managerState' \in {"ready", "receiving", "running", "completed", "failed"}
        /\ upload' \in Nat /\ received' \in Nat /\ staged' \in Nat
    BY <1>7, ExecuteTypes DEF Gateway!Outside, Gateway!Refuse
  <2> QED BY <1>7, <2>1 DEF Gateway!Outside
<1>8. CASE Gateway!Ends
  BY <1>8 DEF Gateway!Ends
<1>9. CASE Gateway!Refresh \/ Gateway!Publish \/ Gateway!Quiet
  BY <1>9, Zenon DEF Gateway!Refresh, Gateway!Publish, Gateway!Quiet, Gateway!vars
<1> QED BY <1>1, <1>2, <1>3, <1>4, <1>5, <1>6, <1>7, <1>8, <1>9, Zenon DEF Gateway!Next, Gateway!Thread

-----------------------------------------------------------------------------
(***************************************************************************)
(* The composition: a part moves as it does alone, and the others stay.    *)
(***************************************************************************)
IInv == OwnerInv /\ WebInv /\ DeployInv /\ GatewayInv

LEMMA SharingInitially == SharingInit => IInv
BY OwnerInit, WebInit, DeployInit, GatewayInit, Zenon DEF SharingInit, IInv

LEMMA PartsAtRest ==
    /\ OwnerInv /\ UNCHANGED vars => OwnerInv'
    /\ WebInv /\ UNCHANGED webVars => WebInv'
    /\ DeployInv /\ UNCHANGED deployVars => DeployInv'
    /\ GatewayInv /\ UNCHANGED gatewayVars => GatewayInv'
<1>1. OwnerInv /\ UNCHANGED vars => OwnerInv'
  BY OwnerStep, Zenon
<1>2. DeployInv /\ UNCHANGED deployVars => DeployInv'
  BY Zenon DEF deployVars, DeployInv, AboutToRun
<1>3. GatewayInv /\ UNCHANGED gatewayVars => GatewayInv'
  BY DEF gatewayVars, GatewayInv, GatewayTypes, DriverHoldsLock, UploadInStep
<1> QED BY <1>1, <1>2, <1>3, WebInvQuiet, Zenon

LEMMA SharingStep == IInv /\ [SharingNext]_sharingVars => IInv'
<1> SUFFICES ASSUME IInv, [SharingNext]_sharingVars PROVE IInv'
  OBVIOUS
<1>1. CASE UNCHANGED sharingVars
  BY <1>1, PartsAtRest, Zenon DEF IInv, sharingVars
<1>2. CASE part = "owner" /\ Next /\ UNCHANGED <<part, deployVars, webVars, gatewayVars>>
  BY <1>2, PartsAtRest, OwnerStep, Zenon DEF IInv
<1>3. CASE part = "deployment" /\ Deployment!Next /\ UNCHANGED <<part, vars, webVars, gatewayVars>>
  BY <1>3, PartsAtRest, DeployStep, Zenon DEF IInv
<1>4. CASE part = "web" /\ Web!Next /\ UNCHANGED <<part, vars, deployVars, gatewayVars>>
  BY <1>4, PartsAtRest, WebStep, Zenon DEF IInv
<1>5. CASE part = "gateway" /\ Gateway!Next /\ UNCHANGED <<part, vars, deployVars, webVars>>
  BY <1>5, PartsAtRest, GatewayStep, Zenon DEF IInv
<1> QED BY <1>1, <1>2, <1>3, <1>4, <1>5, Zenon DEF SharingNext

(* The invariants of the four parts hold in every behaviour.               *)
THEOREM Invariance == SharingSpec => []IInv
BY SharingInitially, SharingStep, PTL DEF SharingSpec

(* For any number of processes, the registry names a running owner and its *)
(* thread answers, whatever the others start, stop, lose or crash.         *)
THEOREM OwnerStaysRegistered == SharingSpec => []OwnerIsRegistered
<1>1. IInv => OwnerIsRegistered
  BY Zenon DEF IInv, OwnerInv, ServingIsRegistered, Serving, OwnerIsRegistered, Listening
<1> QED BY <1>1, Invariance, PTL

(* For any number of processes, a broker thread that may still write the   *)
(* registry belongs to the process that holds the device's lock.           *)
THEOREM OnlyTheHolderPublishes == SharingSpec => []PublisherHoldsLock
<1>1. IInv => PublisherHoldsLock
  BY Zenon DEF IInv, OwnerInv, LockMatchesPhase, YoungThreadIsStarting, Holding, PublisherHoldsLock
<1> QED BY <1>1, Invariance, PTL

(* For any number of children, handlers, recoveries and reboots, with      *)
(* another owner about and threads that still run during the stop, the Web *)
(* application leaves no owner behind unless one of the races that         *)
(* NoOrphans names happened: owned_runtime never forgets a child that may  *)
(* still take the device.                                                  *)
THEOREM WebLeavesNoOrphan == SharingSpec => []NoOrphans
<1>1. IInv => NoOrphans
  BY Zenon DEF IInv, WebInv, WithoutRace, OnlyOwnedMayOwn, MayOwn, NoOrphans, Web!NoOrphans
<1> QED BY <1>1, Invariance, PTL

(* For any number of deployments at once, of losses and of uploads, runs   *)
(* and stops of other clients, PASS means that the processor was started   *)
(* on the package of the deployment that reports it, or on an upload that  *)
(* somebody committed after its COMMIT and before its RUN.                 *)
THEOREM PassIsDeployed == SharingSpec => PassMeansDeployed
<1>1. IInv /\ [SharingNext]_sharingVars => [Deployment!PassesWhenRunning]_deployVars
  BY DeployStep, Zenon DEF IInv, SharingNext, sharingVars
<1> QED BY <1>1, Invariance, PTL DEF SharingSpec, PassMeansDeployed

(* For any number of browsers, threads, requests and records of an upload: *)
(* an upload that is answered with ok staged its own image, and one that   *)
(* fails was disturbed since its hello by a loss or by a client outside,   *)
(* or failed at its first record because the hello was stale.              *)
THEOREM UploadsAreStaged == SharingSpec => UploadIsStaged
<1>1. IInv /\ [SharingNext]_sharingVars
        => [Gateway!StagesItsImage /\ Gateway!FailsOnlyDisturbed]_gatewayVars
  BY GatewayStep, Zenon DEF IInv, SharingNext, sharingVars
<1> QED BY <1>1, Invariance, PTL DEF SharingSpec, UploadIsStaged
=============================================================================
