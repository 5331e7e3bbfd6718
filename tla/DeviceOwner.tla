----------------------------- MODULE DeviceOwner -----------------------------
(***************************************************************************)
(* Which Host process owns the device: DeviceOwnership (an operating       *)
(* system lock), DeviceBroker.start and stop with the broker's own thread, *)
(* the registry file that later processes discover the owner by, and the   *)
(* part of persistent_monitor that opens and closes CDC and HID around     *)
(* them.  Any process may crash or be killed at any moment: the operating  *)
(* system then closes its handles and its sockets and drops its lock, and  *)
(* the registry file stays behind.                                         *)
(*                                                                         *)
(* Definitions named X_Y are X with the fault Y planted in it; no module   *)
(* uses them.                                                              *)
(***************************************************************************)
EXTENDS Naturals

CONSTANTS
    Process,    \* the Host processes
    Nobody      \* not one of them

ASSUME OwnerAssumption == Nobody \notin Process

VARIABLES
    main,       \* where the main thread of a process is
    thread,     \* its broker thread, which serves clients while it listens
    lock,       \* the process whose DeviceOwnership holds the file lock
    registry,   \* the process the registry file names
    handles     \* the processes that have CDC or HID open

vars == <<main, thread, lock, registry, handles>>

MainPhases == {"idle", "free", "starting", "stranded", "opening", "active",
               "stopping", "joined", "unlinked", "closing"}
ThreadPhases == {"none", "opening", "listening", "registered", "failed"}

Init ==
    /\ main = [p \in Process |-> "idle"]
    /\ thread = [p \in Process |-> "none"]
    /\ lock = Nobody
    /\ registry = Nobody
    /\ handles = {}

Listening(p) == thread[p] \in {"listening", "registered"}

(***************************************************************************)
(* persistent_monitor looks for a broker of the device.  A process whose   *)
(* hello is answered has one and raises (main stays "idle"); an entry that *)
(* nobody answers, or answers too late, is passed over.                    *)
(***************************************************************************)
Discover(p) ==
    /\ main[p] = "idle"
    /\ thread[p] = "none"
    /\ main' = [main EXCEPT ![p] = "free"]
    /\ UNCHANGED <<thread, lock, registry, handles>>

(* The other outcome of acquire, a lock that is held, sends p back.        *)
Acquire(p) ==
    /\ main[p] = "free"
    /\ IF lock = Nobody
       THEN /\ lock' = p
            /\ main' = [main EXCEPT ![p] = "starting"]
            /\ thread' = [thread EXCEPT ![p] = "opening"]
       ELSE /\ main' = [main EXCEPT ![p] = "idle"]
            /\ UNCHANGED <<lock, thread>>
    /\ UNCHANGED <<registry, handles>>

(* The thread: sockets first, then the registry file, then "ready".        *)
Listen(p) ==
    /\ thread[p] = "opening"
    /\ thread' = [thread EXCEPT ![p] = "listening"]
    /\ UNCHANGED <<main, lock, registry, handles>>

Register(p) ==
    /\ thread[p] = "listening"
    /\ registry' = p
    /\ thread' = [thread EXCEPT ![p] = "registered"]
    /\ UNCHANGED <<main, lock, handles>>

ThreadFails(p) ==
    /\ thread[p] \in {"opening", "listening"}
    /\ thread' = [thread EXCEPT ![p] = "failed"]
    /\ UNCHANGED <<main, lock, registry, handles>>

(* start() returns, raises after an error, or raises after its timeout.    *)
StartReady(p) ==
    /\ main[p] = "starting"
    /\ thread[p] = "registered"
    /\ main' = [main EXCEPT ![p] = "opening"]
    /\ UNCHANGED <<thread, lock, registry, handles>>

StartFails(p) ==
    /\ main[p] = "starting"
    /\ thread[p] = "failed"
    /\ main' = [main EXCEPT ![p] = "idle"]
    /\ thread' = [thread EXCEPT ![p] = "none"]
    /\ lock' = Nobody
    /\ UNCHANGED <<registry, handles>>

StartTimesOut(p) ==
    /\ main[p] = "starting"
    /\ thread[p] \in {"opening", "listening"}
    /\ main' = [main EXCEPT ![p] = "stranded"]
    /\ UNCHANGED <<thread, lock, registry, handles>>

(* CDC and HID are opened once the broker is up; a failure stops it again. *)
OpenDevice(p) ==
    /\ main[p] = "opening"
    /\ \/ main' = [main EXCEPT ![p] = "active"] /\ handles' = handles \cup {p}
       \/ main' = [main EXCEPT ![p] = "stopping"] /\ UNCHANGED handles
    /\ UNCHANGED <<thread, lock, registry>>

Quit(p) ==
    /\ main[p] = "active"
    /\ main' = [main EXCEPT ![p] = "stopping"]
    /\ UNCHANGED <<thread, lock, registry, handles>>

(* stop(): the join may time out and leave the thread serving clients.     *)
Join_Releases(p) ==
    /\ main[p] = "stopping"
    /\ main' = [main EXCEPT ![p] = "joined"]
    /\ thread' = [thread EXCEPT ![p] = "none"]
    /\ lock' = Nobody
    /\ UNCHANGED <<registry, handles>>

Join(p) ==
    /\ main[p] = "stopping"
    /\ main' = [main EXCEPT ![p] = "joined"]
    /\ \/ thread' = [thread EXCEPT ![p] = "none"]
       \/ UNCHANGED thread
    /\ UNCHANGED <<lock, registry, handles>>

Unlink(p) ==
    /\ main[p] = "joined"
    /\ registry' = Nobody
    /\ main' = [main EXCEPT ![p] = "unlinked"]
    /\ UNCHANGED <<thread, lock, handles>>

Release_Forgotten(p) ==
    /\ main[p] = "unlinked"
    /\ main' = [main EXCEPT ![p] = "closing"]
    /\ UNCHANGED <<thread, lock, registry, handles>>

Release(p) ==
    /\ main[p] = "unlinked"
    /\ lock' = IF lock = p THEN Nobody ELSE lock
    /\ main' = [main EXCEPT ![p] = "closing"]
    /\ UNCHANGED <<thread, registry, handles>>

(* The session's finally block closes HID and CDC after the broker.        *)
CloseDevice(p) ==
    /\ main[p] = "closing"
    /\ handles' = handles \ {p}
    /\ main' = [main EXCEPT ![p] = "idle"]
    /\ UNCHANGED <<thread, lock, registry>>

LateThreadEnds(p) ==
    /\ main[p] \in {"idle", "joined", "unlinked", "closing"}
    /\ thread[p] # "none"
    /\ thread' = [thread EXCEPT ![p] = "none"]
    /\ UNCHANGED <<main, lock, registry, handles>>

Crash(p) ==
    /\ main[p] # "idle"
    /\ main' = [main EXCEPT ![p] = "idle"]
    /\ thread' = [thread EXCEPT ![p] = "none"]
    /\ lock' = IF lock = p THEN Nobody ELSE lock
    /\ handles' = handles \ {p}
    /\ UNCHANGED registry

StopStep(p) == Join(p) \/ Unlink(p) \/ Release(p) \/ CloseDevice(p)

ProcessStep(p) ==
    \/ Discover(p) \/ Acquire(p)
    \/ Listen(p) \/ Register(p) \/ ThreadFails(p)
    \/ StartReady(p) \/ StartFails(p) \/ StartTimesOut(p)
    \/ OpenDevice(p) \/ Quit(p) \/ StopStep(p)
    \/ LateThreadEnds(p) \/ Crash(p)

Next == \E p \in Process : ProcessStep(p)

(***************************************************************************)
(* Both threads of a process keep running; nothing makes one quit, crash   *)
(* or become an owner.                                                     *)
(***************************************************************************)
Fairness ==
    \A p \in Process :
        /\ WF_vars(StopStep(p))
        /\ WF_vars(Acquire(p))
        /\ WF_vars(Listen(p) \/ Register(p))
        /\ WF_vars(StartReady(p) \/ StartFails(p) \/ StartTimesOut(p))
        /\ WF_vars(OpenDevice(p))

Spec == Init /\ [][Next]_vars /\ Fairness

-----------------------------------------------------------------------------
(* Types of the ownership state; one lock and one registry entry.          *)
TypeOK ==
    /\ main \in [Process -> MainPhases]
    /\ thread \in [Process -> ThreadPhases]
    /\ lock \in Process \cup {Nobody}
    /\ registry \in Process \cup {Nobody}
    /\ handles \subseteq Process

(* While an owner runs, the registry names it and its thread answers, so a *)
(* later process finds it: no process that is leaving, failing or starting *)
(* late removes or replaces its entry (stop() unlinks before it releases). *)
OwnerIsRegistered ==
    \A p \in Process : main[p] \in {"opening", "active"} => registry = p /\ Listening(p)

(* "broker startup timed out; ownership retained" (broker.py:456): as long *)
(* as a thread may still write the registry its process holds the lock.    *)
PublisherHoldsLock ==
    \A p \in Process : thread[p] \in {"opening", "listening"} => lock = p

(* A session that ends, or fails to open the device, gives the lock up.    *)
LockIsGivenUp ==
    \A p \in Process : main[p] = "stopping" ~> lock # p
=============================================================================
