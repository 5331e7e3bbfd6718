---------------------------- MODULE DeviceSharing ----------------------------
(***************************************************************************)
(* The Host programs that share one device: the processes that compete for *)
(* its ownership (DeviceOwner), the deployment command, which connects to  *)
(* an owner or starts one (Deploy), the Web application, which keeps an    *)
(* owner running (WebOwner), and the requests of its browsers              *)
(* (WebGateway).                                                           *)
(*                                                                         *)
(* The parts share no variable: each models what it meets of the others as *)
(* an environment that may do anything they do.  What holds of a part      *)
(* holds of the composition, so a behaviour moves one part, chosen at the  *)
(* start, and the others stay in their initial states.                     *)
(***************************************************************************)
EXTENDS DeviceOwner

CONSTANTS
    Deployers, MaxLost, MaxOthers,                      \* Deploy
    Children, Handlers, Recoveries, NoChild,            \* WebOwner
    MaxReboots,
    Browsers, RequestThreads, Records, MaxRequests,     \* WebGateway
    MaxTokens, MaxLostReplies, MaxOutside

VARIABLES
    part,           \* the part that moves
    pc, outcome, child, life, transfer, image, running, overtaken, lost, others,
    webChild, foreign, owned, mode, error, active, handler, recovery, ensure, mayReboot,
    reboots, apart, phase, target, race,
    token, held, issued, requestLock, threadPc, kind, number, position, attempt, ok,
    requests, lostReplies, outside, managerState, upload, received, known,
    view, staged, disturbed, misread

deployVars == <<pc, outcome, child, life, transfer, image, running, overtaken, lost, others>>
webVars == <<webChild, foreign, owned, mode, error, active, handler, recovery, ensure,
             mayReboot, reboots, apart, phase, target, race>>
gatewayVars == <<token, held, issued, requestLock, threadPc, kind, number, position,
                 attempt, ok, requests, lostReplies, outside, managerState, upload, received,
                 known, view, staged, disturbed, misread>>
sharingVars == <<part, vars, deployVars, webVars, gatewayVars>>

Deployment == INSTANCE Deploy
Web == INSTANCE WebOwner WITH child <- webChild
Gateway == INSTANCE WebGateway WITH
    lock <- requestLock, pc <- threadPc, lost <- lostReplies, life <- managerState,
    transfer <- upload, Threads <- RequestThreads, MaxLost <- MaxLostReplies

ASSUME SharingAssumption ==
    /\ Deployment!DeployAssumption
    /\ Web!WebAssumption
    /\ Gateway!GatewayAssumption

SharingInit ==
    /\ part \in {"owner", "deployment", "web", "gateway"}
    /\ Init /\ Deployment!Init /\ Web!Init /\ Gateway!Init
    /\ part # "web" => ~foreign /\ ~apart

SharingNext ==
    \/ part = "owner" /\ Next /\ UNCHANGED <<part, deployVars, webVars, gatewayVars>>
    \/ part = "deployment" /\ Deployment!Next /\ UNCHANGED <<part, vars, webVars, gatewayVars>>
    \/ part = "web" /\ Web!Next /\ UNCHANGED <<part, vars, deployVars, gatewayVars>>
    \/ part = "gateway" /\ Gateway!Next /\ UNCHANGED <<part, vars, deployVars, webVars>>

\* Each part is scheduled as its own specification says.
SharingSpec ==
    /\ SharingInit /\ [][SharingNext]_sharingVars
    /\ \A p \in Process :
        /\ WF_vars(part = "owner" /\ StopStep(p))
        /\ WF_vars(part = "owner" /\ Acquire(p))
        /\ WF_vars(part = "owner" /\ (Listen(p) \/ Register(p)))
        /\ WF_vars(part = "owner" /\ (StartReady(p) \/ StartFails(p) \/ StartTimesOut(p)))
        /\ WF_vars(part = "owner" /\ OpenDevice(p))
    /\ \A t \in Web!Threads : WF_webVars(part = "web" /\ Web!Thread(t))
    /\ \A h \in Handlers :
        /\ WF_webVars(part = "web" /\ Web!ProcessorSnapshot(h))
        /\ WF_webVars(part = "web" /\ Web!Locked(h))
    /\ \A r \in Recoveries :
        /\ WF_webVars(part = "web" /\ Web!Recover(r))
        /\ WF_webVars(part = "web" /\ Web!EndRecovery(r))

-----------------------------------------------------------------------------
(***************************************************************************)
(* The properties of the parts, next to those of DeviceOwner.              *)
(***************************************************************************)

\* start_workload.py prints PASS only when the processor was started on the
\* package of this command, or on one that was committed between its COMMIT and
\* its RUN.
PassMeansDeployed == [][Deployment!PassesWhenRunning]_deployVars

\* When the Web application is gone, no background owner that it started keeps
\* the device or is about to take it, but for the races that WebOwner names.
NoOrphans == Web!NoOrphans

\* When the Web application's owner is gone, somebody owns the device again,
\* or the application stopped, or a recovery ended with an error.
LostOwnerIsReplaced == Web!LostOwnerIsReplaced

\* An upload that the Web application answers with ok staged its own image.
\* It fails only after a loss or an act of a client outside, or at its first
\* record when the snapshot of the broker was stale: request_lock keeps browsers
\* from breaking each other's uploads.
UploadIsStaged == [][Gateway!StagesItsImage /\ Gateway!FailsOnlyDisturbed]_gatewayVars
=============================================================================
