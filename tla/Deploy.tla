------------------------------- MODULE Deploy -------------------------------
(***************************************************************************)
(* The command --start-workload (start_workload.py): find or start an      *)
(* owner of the device, ask for the status, stop what runs, upload, run,   *)
(* and report PASS when the processor runs.                                *)
(*                                                                         *)
(* Every deployer is one invocation of the command, with a package of its  *)
(* own.  The owner that it spawns is a session process: it takes the lock  *)
(* of the device or exits, and publishes its broker some time later (the   *)
(* module DeviceOwner has the details).  An upload is two records, BEGIN   *)
(* with the data and COMMIT.  A record or its reply may be lost.  Several  *)
(* deployers may be under way at once, and other clients of the broker,    *)
(* all called Nobody, may upload, run, restart and stop at any time.       *)
(***************************************************************************)
EXTENDS Naturals

CONSTANTS
    Deployers,
    Nobody,
    MaxLost, MaxOthers  \* bounds

DeployAssumption ==
    /\ Nobody \notin Deployers
    /\ MaxLost \in Nat /\ MaxOthers \in Nat

VARIABLES
    pc, outcome,        \* of each deployer
    child,              \* of each deployer: the owner process it spawned
    life, transfer,     \* the workload manager, and who uploads
    image,              \* whose image memory holds
    running,            \* whose image the processor started last
    overtaken,          \* history: the deployers after whose COMMIT somebody else
                        \* committed an upload before their RUN
    lost, others

device == <<life, transfer, image, running>>
vars == <<pc, outcome, child, device, overtaken, lost, others>>

\* Definitions named X_Y are X with the fault Y planted in it; no module uses them.

Init ==
    /\ pc = [d \in Deployers |-> "new"] /\ outcome = [d \in Deployers |-> "none"]
    /\ child = [d \in Deployers |-> "none"]
    /\ life = "EMPTY" /\ transfer = Nobody /\ image = Nobody /\ running = Nobody
    /\ overtaken = {} /\ lost = 0 /\ others = 0

Published == \E d \in Deployers : child[d] = "published"
Held == \E d \in Deployers : child[d] \in {"holding", "published"}

End(d, result) ==
    /\ pc' = [pc EXCEPT ![d] = "done"]
    /\ outcome' = [outcome EXCEPT ![d] = result]

-----------------------------------------------------------------------------
(***************************************************************************)
(* _ensure_runtime_owner, and the owners.                                  *)
(***************************************************************************)
Find(d) ==
    /\ pc[d] = "new"
    /\ \/ /\ Published
          /\ pc' = [pc EXCEPT ![d] = "status"] /\ UNCHANGED child
       \/ /\ ~Published
          /\ pc' = [pc EXCEPT ![d] = "wait"]
          /\ child' = [child EXCEPT ![d] = "starting"]
    /\ UNCHANGED <<outcome, device, overtaken, lost, others>>

\* The loop looks first at the child, then for a broker.
Poll(d) ==
    /\ pc[d] = "wait"
    /\ \/ child[d] = "exited" /\ End(d, "no owner")
       \/ /\ child[d] # "exited" /\ Published
          /\ pc' = [pc EXCEPT ![d] = "status"] /\ UNCHANGED outcome
    /\ UNCHANGED <<child, device, overtaken, lost, others>>

WaitExpires(d) ==
    /\ pc[d] = "wait" /\ child[d] # "exited" /\ ~Published
    /\ End(d, "no owner")
    /\ UNCHANGED <<child, device, overtaken, lost, others>>

ChildStarts(d) ==
    /\ child[d] = "starting"
    /\ child' = [child EXCEPT ![d] = IF Held THEN "exited" ELSE "holding"]
    /\ UNCHANGED <<pc, outcome, device, overtaken, lost, others>>

ChildPublishes(d) ==
    /\ child[d] = "holding"
    /\ child' = [child EXCEPT ![d] = "published"]
    /\ UNCHANGED <<pc, outcome, device, overtaken, lost, others>>

-----------------------------------------------------------------------------
(***************************************************************************)
(* The device.  A start may fail, which faults the workload.               *)
(***************************************************************************)
Active == life \in {"RUNNING", "COMPLETED"}

Accepts(d, op) ==
    \/ op = "status"
    \/ op = "stop" /\ Active
    \/ op = "begin" /\ ~Active
    \/ op = "commit" /\ life = "RECEIVING" /\ transfer = d
    \/ op = "run" /\ life \in {"STAGED", "STOPPED"}
    \/ op = "restart" /\ (Active \/ life \in {"STAGED", "STOPPED"})

Execute(d, op) ==
    /\ life' = CASE op = "status" -> life
                 [] op = "stop" -> "STOPPED"
                 [] op = "begin" -> "RECEIVING"
                 [] op = "commit" -> "STAGED"
                 [] OTHER -> "RUNNING"
    /\ transfer' = IF op = "begin" THEN d ELSE transfer
    /\ image' = IF op = "begin" THEN d ELSE image
    /\ running' = IF op \in {"run", "restart"} THEN image ELSE running
    /\ overtaken' = IF op = "commit"
                    THEN overtaken \cup {e \in Deployers \ {d} : pc[e] = "run"} ELSE overtaken

Refuse(d, op) ==
    /\ \/ ~Accepts(d, op)
          /\ life' = IF op = "commit" /\ life = "RECEIVING" THEN "FAULTED" ELSE life
       \/ Accepts(d, op) /\ op = "run" /\ life' = "FAULTED"
    /\ UNCHANGED <<transfer, image, running, overtaken>>

\* The processor halts or faults by itself.
Ends ==
    /\ life = "RUNNING" /\ life' \in {"COMPLETED", "FAULTED"}
    /\ UNCHANGED <<pc, outcome, child, transfer, image, running, overtaken, lost, others>>

OtherClient(op) ==
    /\ Published /\ others < MaxOthers /\ others' = others + 1
    /\ (Accepts(Nobody, op) /\ Execute(Nobody, op)) \/ Refuse(Nobody, op)
    /\ UNCHANGED <<pc, outcome, child, lost>>

-----------------------------------------------------------------------------
(***************************************************************************)
(* The exchanges: the answer decides what is sent next.                    *)
(***************************************************************************)
Failure(op) == IF op \in {"begin", "commit"} THEN "upload failed" ELSE "transport"

\* What follows the reply ok to op; the run must show RUNNING and ACTIVE.
Continue(d, op) ==
    \/ /\ op = "status"
       /\ pc' = [pc EXCEPT ![d] = IF Active THEN "stop" ELSE "begin"] /\ UNCHANGED outcome
    \/ op = "stop" /\ pc' = [pc EXCEPT ![d] = "begin"] /\ UNCHANGED outcome
    \/ op = "begin" /\ pc' = [pc EXCEPT ![d] = "commit"] /\ UNCHANGED outcome
    \/ op = "commit" /\ pc' = [pc EXCEPT ![d] = "run"] /\ UNCHANGED outcome
    \/ op = "run" /\ End(d, "PASS")

Fail_Continues(d, op) ==
    IF op \in {"begin", "commit"} THEN Continue(d, op) ELSE End(d, Failure(op))
Fail(d, op) == End(d, Failure(op))

Exchange(d) ==
    /\ pc[d] \in {"status", "stop", "begin", "commit", "run"}
    /\ LET op == pc[d]
       IN  \/ Accepts(d, op) /\ Execute(d, op) /\ Continue(d, op) /\ lost' = lost
           \/ Refuse(d, op) /\ Fail(d, op) /\ lost' = lost
           \/ /\ lost < MaxLost /\ lost' = lost + 1
              /\ (Accepts(d, op) /\ Execute(d, op)) \/ UNCHANGED <<device, overtaken>>
              /\ Fail(d, op)
    /\ UNCHANGED <<child, others>>

-----------------------------------------------------------------------------
Finished == (\A d \in Deployers : pc[d] = "done") /\ UNCHANGED vars

Step(d) == Find(d) \/ Poll(d) \/ WaitExpires(d) \/ Exchange(d)

Next ==
    \/ \E d \in Deployers : Step(d) \/ ChildStarts(d) \/ ChildPublishes(d)
    \/ \E op \in {"begin", "commit", "run", "restart", "stop"} : OtherClient(op)
    \/ Ends \/ Finished

Spec == Init /\ [][Next]_vars

-----------------------------------------------------------------------------
(***************************************************************************)
(* Properties.                                                             *)
(***************************************************************************)

\* PASS means that the processor was started on the package of this command
\* (workload_deployment_vs_regression.md: "Deployment success proves that the
\* image was accepted and the processor entered the running state").  Of
\* several uploads that overlap, the transfer id lets only one be committed.
\* The exception: the run request names no workload (start_workload.py:259),
\* so it starts an upload that somebody else committed just before it.
PassesWhenRunning ==
    \A d \in Deployers :
        (outcome[d] # "PASS" /\ outcome'[d] = "PASS")
            => life' = "RUNNING" /\ (running' = d \/ d \in overtaken)
=============================================================================
