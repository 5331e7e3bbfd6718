---------------------------- MODULE LongCommands ----------------------------
(***************************************************************************)
(* The commands that take many records, between which the records of other *)
(* clients of the broker, and the processor itself, run: putting, reading  *)
(* and listing files (FlashCommands), loading a package (WorkloadPackage)  *)
(* and sampling the counters of a running workload (Telemetry).  The       *)
(* properties are those of the parts.                                      *)
(*                                                                         *)
(* The parts share no variable: each models the records of the others that *)
(* reach its service.  What holds of a part holds of the composition, so a *)
(* behaviour moves one part, chosen at the start, and the others stay in   *)
(* an initial state.                                                       *)
(***************************************************************************)
EXTENDS FlashCommands, WorkloadPackage, Telemetry

VARIABLE part       \* the part that moves

commandVars == <<part, vars, listingVars, packageVars, telemetryVars>>

CommandsInit ==
    /\ part \in {"files", "listing", "loading", "telemetry"}
    /\ Init /\ ListingInit /\ PackageInit /\ TelemetryInit
    /\ part # "loading" => same_id

CommandsNext ==
    \/ part = "files" /\ Next
       /\ UNCHANGED <<part, listingVars, packageVars, telemetryVars>>
    \/ part = "listing" /\ ListingNext
       /\ UNCHANGED <<part, vars, packageVars, telemetryVars>>
    \/ part = "loading" /\ PackageNext
       /\ UNCHANGED <<part, vars, listingVars, telemetryVars>>
    \/ part = "telemetry" /\ TelemetryNext
       /\ UNCHANGED <<part, vars, listingVars, packageVars>>

CommandsSpec == CommandsInit /\ [][CommandsNext]_commandVars
=============================================================================
