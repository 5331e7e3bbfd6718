-------------------------------- MODULE Rpc --------------------------------
(***************************************************************************)
(* What the Host's request layer promises its callers.  A caller issues    *)
(* one numbered call at a time.  The device may carry out a call that was  *)
(* issued, once, at any later time, even after the caller gave it up.  A   *)
(* call ends either with success, and then the device carried out that     *)
(* very call, or with a failure, which says nothing about the device.      *)
(***************************************************************************)
EXTENDS Naturals

VARIABLES
    issued,     \* how many calls were issued; a call is named by its number
    open,       \* the call in progress, 0 when there is none
    executed,   \* the calls the device has carried out
    succeeded   \* the calls that ended with success

rpcVars == <<issued, open, executed, succeeded>>

Init ==
    /\ issued = 0
    /\ open = 0
    /\ executed = {}
    /\ succeeded = {}

Call ==
    /\ open = 0
    /\ issued' = issued + 1
    /\ open' = issued + 1
    /\ UNCHANGED <<executed, succeeded>>

Execute ==
    /\ \E call \in (1 .. issued) \ executed : executed' = executed \cup {call}
    /\ UNCHANGED <<issued, open, succeeded>>

Succeed ==
    /\ open \in executed
    /\ succeeded' = succeeded \cup {open}
    /\ open' = 0
    /\ UNCHANGED <<issued, executed>>

Fail ==
    /\ open # 0
    /\ open' = 0
    /\ UNCHANGED <<issued, executed, succeeded>>

Next == Call \/ Execute \/ Succeed \/ Fail

Safety == Init /\ [][Next]_rpcVars

Spec == Safety /\ WF_rpcVars(Fail)
=============================================================================
