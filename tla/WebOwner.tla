------------------------------ MODULE WebOwner ------------------------------
(***************************************************************************)
(* How the Web applications keep a runtime owner alive (WebApi in          *)
(* rp86_web_api.py): ensure_runtime_owner, called at the start (a thread   *)
(* of its own in rp86_remote.py) and by a recovery thread;                 *)
(* start_runtime_recovery, called by the handlers of a threading server    *)
(* when the owner they started is gone or a reboot was acknowledged; and   *)
(* stop_owned_runtime at the end, while the other threads, all daemons,    *)
(* still run.                                                              *)
(*                                                                         *)
(* A child is a background `rp86.py --interactive --attach`; DeviceOwner   *)
(* models how it becomes the owner, so that here it publishes a broker     *)
(* only while nobody else does.  Another process may also own the device,  *)
(* and discover_brokers skips a broker that is slow to answer.  Wall time  *)
(* is left out: every wait ends with its condition or without.             *)
(***************************************************************************)
EXTENDS Naturals

CONSTANTS
    Children,       \* the background processes that can be started
    Handlers,       \* threads that serve requests
    Recoveries,     \* recovery threads
    NoChild,        \* owned_runtime is None
    MaxReboots      \* bound on the reboots a browser asks for

WebAssumption ==
    /\ NoChild \notin Children
    /\ MaxReboots \in Nat
    /\ "main" \notin Recoveries

VARIABLES
    child,          \* "unborn", "starting", "broker", "closing", "exited"
    foreign,        \* another process owns the device
    owned,          \* owned_runtime
    mode,           \* owner_mode
    error,          \* owner_error is not None
    active,         \* recovery_active
    handler,        \* "idle", or inside start_runtime_recovery: "lock"
    recovery,       \* where a recovery thread is
    ensure,         \* where a thread is in ensure_runtime_owner
    mayReboot,      \* its allow_reboot_recovery
    reboots,
    apart,          \* the start has a thread of its own (rp86_remote.py)
    phase,          \* of the main thread: "serving", "stopping", "terminating",
                    \* "leaving", "gone"
    target,         \* the process that stop_owned_runtime terminates
    race            \* history: a step after which a child can be lost (NoOrphans)

app == <<apart, phase, target>>
vars == <<child, foreign, owned, mode, error, active, handler, recovery, ensure,
          mayReboot, reboots, app, race>>
Threads == {"main"} \cup Recoveries

\* Definitions named X_Y are X with the fault Y planted in it; no module uses them.

BrokerActive == foreign \/ \E c \in Children : child[c] = "broker"
Alive(c) == c \in Children /\ child[c] \notin {"unborn", "exited"}
Running == phase # "gone"
\* rp86_web.py has no server before the start has ended.
Serving == phase = "serving" /\ (apart \/ ensure["main"] = "out")

Init ==
    /\ child = [c \in Children |-> "unborn"]
    /\ foreign \in BOOLEAN
    /\ owned = NoChild /\ mode = "not-started" /\ error = FALSE /\ active = FALSE
    /\ handler = [h \in Handlers |-> "idle"]
    /\ recovery = [r \in Recoveries |-> "none"]
    /\ ensure = [t \in Threads |-> IF t = "main" THEN "discover" ELSE "out"]
    /\ mayReboot = [t \in Threads |-> TRUE]
    /\ reboots = 0
    /\ apart \in BOOLEAN /\ phase = "serving" /\ target = NoChild /\ race = FALSE

-----------------------------------------------------------------------------
(***************************************************************************)
(* The children and the other process.                                     *)
(***************************************************************************)
Becomes(c, s) == child' = [child EXCEPT ![c] = s]
others == <<owned, mode, error, active, handler, recovery, ensure, mayReboot, reboots,
            app, race>>

Publish(c) ==
    /\ child[c] = "starting" /\ ~BrokerActive
    /\ \A d \in Children : child[d] # "closing"
    /\ Becomes(c, "broker") /\ UNCHANGED <<foreign, others>>
Leave(c) == child[c] = "broker" /\ Becomes(c, "closing") /\ UNCHANGED <<foreign, others>>
Exit(c) ==
    /\ child[c] \in {"starting", "closing"}
    /\ Becomes(c, "exited") /\ UNCHANGED <<foreign, others>>
ForeignOwner ==
    /\ foreign \/ ~BrokerActive
    /\ foreign' = ~foreign /\ UNCHANGED <<child, others>>

-----------------------------------------------------------------------------
(***************************************************************************)
(* ensure_runtime_owner.                                                   *)
(***************************************************************************)
Return(t, ok) ==
    /\ ensure' = [ensure EXCEPT ![t] = "out"]
    /\ error' = ~ok

\* No broker is found: there is none, or it took too long to answer.
Discover(t) ==
    /\ Running /\ ensure[t] = "discover"
    /\ \/ /\ BrokerActive
          /\ mode' = "existing" /\ Return(t, TRUE) /\ race' = race
       \/ /\ ensure' = [ensure EXCEPT ![t] = "spawn"] /\ UNCHANGED <<mode, error>>
          /\ race' = (race \/ BrokerActive)
    /\ UNCHANGED <<child, foreign, owned, active, handler, recovery, mayReboot, reboots, app>>

\* Which of the processes not started yet a child is makes no difference.
NextChild == CHOOSE c \in Children : child[c] = "unborn"

Spawn(t) ==
    /\ Running /\ ensure[t] = "spawn"
    /\ \/ \E c \in Children :
             /\ child[c] = "unborn" /\ c = NextChild
             /\ Becomes(c, "starting") /\ owned' = c
             /\ ensure' = [ensure EXCEPT ![t] = "wait"]
             /\ error' = error
             /\ race' = (race \/ phase \in {"terminating", "leaving"})
       \/ Return(t, FALSE) /\ UNCHANGED <<child, owned, race>>
    /\ UNCHANGED <<foreign, mode, active, handler, recovery, mayReboot, reboots, app>>

\* One turn of the loop that waits for a broker: the child exited, and a reboot
\* may help; there is a broker; or the wait is over.  The stop may have set
\* owned_runtime to None, which ends the thread with an exception.
Wait(t) ==
    /\ Running /\ ensure[t] = "wait"
    /\ \/ /\ owned # NoChild /\ ~Alive(owned) /\ mayReboot[t]
          /\ owned' = NoChild
          /\ ensure' = [ensure EXCEPT ![t] = "discover"]
          /\ mayReboot' = [mayReboot EXCEPT ![t] = FALSE]
          /\ UNCHANGED <<mode, error, race>>
       \/ /\ owned # NoChild /\ ~Alive(owned)
          /\ Return(t, FALSE) /\ UNCHANGED <<owned, mode, mayReboot, race>>
       \/ /\ owned = NoChild
          /\ ensure' = [ensure EXCEPT ![t] = "out"]
          /\ UNCHANGED <<owned, mode, error, mayReboot, race>>
       \/ /\ Alive(owned) /\ BrokerActive
          /\ mode' = "web-owned" /\ Return(t, TRUE) /\ UNCHANGED <<owned, mayReboot>>
          /\ race' = (race \/ child[owned] = "starting")
       \/ /\ Alive(owned)
          /\ mode' = "starting" /\ Return(t, FALSE) /\ UNCHANGED <<owned, mayReboot, race>>
    /\ UNCHANGED <<child, foreign, active, handler, recovery, reboots, app>>

-----------------------------------------------------------------------------
(***************************************************************************)
(* start_runtime_recovery, up to the lock and under it; and who calls it:  *)
(* processor_snapshot when the owner is gone, a control request after a    *)
(* reboot, when the session that owns the device may not have ended yet.   *)
(***************************************************************************)
WantsRecovery(h) ==
    handler' = IF mode = "web-owned" /\ ~active
               THEN [handler EXCEPT ![h] = "lock"] ELSE handler

Snapshot(h) ==
    /\ Serving /\ handler[h] = "idle"
    /\ mode = "web-owned" /\ ~Alive(owned)
    /\ WantsRecovery(h)
    /\ UNCHANGED <<child, foreign, owned, mode, error, active, recovery, ensure, mayReboot,
                   reboots, app, race>>
\* There is no broker to answer; or there is, and it was too slow.
ProcessorSnapshot(h) == ~BrokerActive /\ Snapshot(h)
MissedSnapshot(h) == BrokerActive /\ Snapshot(h)

ControlReboot(h) ==
    /\ Serving /\ handler[h] = "idle" /\ reboots < MaxReboots
    /\ reboots' = reboots + 1
    /\ WantsRecovery(h)
    /\ UNCHANGED <<child, foreign, owned, mode, error, active, recovery, ensure, mayReboot,
                   app, race>>

RecoveryRunning == active

\* A handler that comes late can start a recovery after another has ended, when
\* owner_mode is no longer "web-owned".
Locked(h) ==
    /\ Running /\ handler[h] = "lock"
    /\ handler' = [handler EXCEPT ![h] = "idle"]
    /\ IF RecoveryRunning
       THEN UNCHANGED <<active, error, recovery, race>>
       ELSE \E r \in Recoveries :
               /\ recovery[r] = "none"
               /\ active' = TRUE /\ error' = TRUE
               /\ recovery' = [recovery EXCEPT ![r] = "settle"]
               /\ race' = (race \/ mode # "web-owned")
    /\ UNCHANGED <<child, foreign, owned, mode, ensure, mayReboot, reboots, app>>

\* recover(): settle, wait for the process, at most five seconds, and forget it
\* when it is gone.
Forgotten_AfterWait == NoChild
Forgotten == IF Alive(owned) THEN owned ELSE NoChild

Recover(r) ==
    /\ Running /\ recovery[r] = "settle"
    /\ owned' = Forgotten
    /\ recovery' = [recovery EXCEPT ![r] = "ensure"]
    /\ ensure' = [ensure EXCEPT ![r] = "discover"]
    /\ mayReboot' = [mayReboot EXCEPT ![r] = TRUE]
    /\ UNCHANGED <<child, foreign, mode, error, active, handler, reboots, app, race>>

EndRecovery_StaysSet(r) ==
    /\ Running /\ recovery[r] = "ensure" /\ ensure[r] = "out"
    /\ recovery' = [recovery EXCEPT ![r] = "none"]
    /\ UNCHANGED <<child, foreign, owned, mode, error, active, handler, ensure, mayReboot,
                   reboots, app, race>>
EndRecovery(r) ==
    /\ Running /\ recovery[r] = "ensure" /\ ensure[r] = "out"
    /\ recovery' = [recovery EXCEPT ![r] = "none"] /\ active' = FALSE
    /\ UNCHANGED <<child, foreign, owned, mode, error, handler, ensure, mayReboot, reboots,
                   app, race>>

-----------------------------------------------------------------------------
(***************************************************************************)
(* The end: KeyboardInterrupt, stop_owned_runtime, and the process is gone *)
(* with its daemon threads.                                                *)
(***************************************************************************)
threads == <<foreign, mode, error, active, handler, recovery, ensure, mayReboot, reboots>>

\* rp86_web.py starts its owner before the try whose finally clause stops it.
Interrupt ==
    /\ phase = "serving"
    /\ phase' = IF Serving THEN "stopping" ELSE "gone"
    /\ race' = (race \/ ~Serving)
    /\ UNCHANGED <<child, owned, apart, target, threads>>

StopOwned ==
    /\ phase = "stopping"
    /\ phase' = IF Alive(owned) THEN "terminating" ELSE "leaving"
    /\ target' = owned
    /\ UNCHANGED <<child, owned, apart, race, threads>>

\* terminate, or kill after two seconds.
Waited ==
    /\ phase = "terminating" /\ phase' = "leaving"
    /\ Becomes(target, "exited") /\ owned' = NoChild
    /\ UNCHANGED <<apart, target, race, threads>>

Gone ==
    /\ phase = "leaving" /\ phase' = "gone"
    /\ UNCHANGED <<child, owned, apart, target, race, threads>>

Stopped == ~Running /\ UNCHANGED vars

-----------------------------------------------------------------------------
Thread(t) == Discover(t) \/ Spawn(t) \/ Wait(t)

Next ==
    \/ \E c \in Children : Publish(c) \/ Leave(c) \/ Exit(c)
    \/ ForeignOwner \/ Interrupt \/ StopOwned \/ Waited \/ Gone \/ Stopped
    \/ \E t \in Threads : Thread(t)
    \/ \E h \in Handlers :
          ProcessorSnapshot(h) \/ MissedSnapshot(h) \/ ControlReboot(h) \/ Locked(h)
    \/ \E r \in Recoveries : Recover(r) \/ EndRecovery(r)

\* Threads run; a browser keeps asking for the state of the processor.
Fairness ==
    /\ \A t \in Threads : WF_vars(Thread(t))
    /\ \A h \in Handlers : WF_vars(ProcessorSnapshot(h)) /\ WF_vars(Locked(h))
    /\ \A r \in Recoveries : WF_vars(Recover(r)) /\ WF_vars(EndRecovery(r))

Spec == Init /\ [][Next]_vars /\ Fairness

-----------------------------------------------------------------------------
(***************************************************************************)
(* Properties.                                                             *)
(***************************************************************************)

\* When the Web application is gone, no background owner that it started keeps
\* the device or is about to take it: owned_runtime never loses a process that
\* may still publish a broker.  The exceptions are the races of the code: a
\* broker too slow for a discovery; a broker of another process, taken for that
\* of a child which is still starting; a handler that starts a recovery late; a
\* recovery that starts a child after stop_owned_runtime has read
\* owned_runtime; and an interrupt of rp86_web.py during its start.
NoOrphans == phase = "gone" /\ ~race => \A c \in Children : child[c] \notin {"starting", "broker"}

\* The owner that the Web application started is gone: somebody owns the
\* device again, the application stopped, or a recovery ended and left the
\* reason in owner_error.
LostOwnerIsReplaced ==
    (phase = "serving" /\ mode = "web-owned" /\ ~BrokerActive /\ ~Alive(owned))
        ~> (BrokerActive \/ phase # "serving" \/ (error /\ ~active))
=============================================================================
