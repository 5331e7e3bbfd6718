----------------------------- MODULE HostShell -----------------------------
(***************************************************************************)
(* One Host session as its user meets it: the loop with its evidence and   *)
(* its exit code (HostSession), as the owner of the device, as a client of *)
(* another owner and as a physical regression; the native probes of the    *)
(* loop (SessionProbe); and the line editor in front of it (ShellInput,    *)
(* with the properties of a line).                                         *)
(*                                                                         *)
(* The three models are views of one loop and share no variable: what a    *)
(* probe or a key does to the life cycle of a workload is a command in     *)
(* HostSession.  So a behaviour moves one part, chosen at the start, and   *)
(* the others stay in their initial states.                                *)
(***************************************************************************)
EXTENDS ShellInput

CONSTANTS
    Own, Other, NoImage, Settings,                          \* HostSession
    Modulus, Rounds, MaxServices, MaxBoots, MaxAsked        \* SessionProbe

VARIABLES
    part,               \* the part that moves
    setting, dev, transfer, images, diag, ended, lines, uploads, runs, others, lost,
    pc, view, todo, purpose, pending, commands, started, passed, expired, transportError,
    used, exit, bound, results, last, observed, retained, mine, achieved,
    boot, served, loaded, general, unseen, processor, flagged, available, completed, missed,
    probeError, asked, loop, probeExit, credited

sessionVars == <<setting, dev, transfer, images, diag, ended, lines, uploads, runs, others,
                 lost, pc, view, todo, purpose, pending, commands, started, passed, expired,
                 transportError, used, exit, bound, results, last, observed, retained, mine,
                 achieved>>
probeVars == <<boot, served, loaded, general, unseen, processor, flagged, available,
               completed, missed, probeError, asked, loop, probeExit, credited>>
shellVars == <<part, sessionVars, probeVars, inputVars>>

-----------------------------------------------------------------------------
Loop == INSTANCE HostSession
Probing == INSTANCE SessionProbe WITH
    observed <- processor, lost <- missed, transportError <- probeError,
    pc <- loop, exit <- probeExit

ASSUME ShellAssumption == Loop!SessionAssumption /\ Probing!ProbeAssumption

ShellInit ==
    /\ part \in {"session", "probe", "input"}
    /\ Loop!Init /\ Probing!Init /\ InputInit
    \* a part that does not move has one initial state
    /\ part = "session" \/ (dev = Loop!Idle /\ setting = CHOOSE s \in Settings : TRUE)
    /\ part = "probe" \/ (~loaded /\ ~flagged)
    /\ part = "input" \/ (~nt /\ input = CHOOSE i \in Inputs : TRUE)

ShellNext ==
    \/ part = "session" /\ Loop!Next /\ UNCHANGED <<part, probeVars, inputVars>>
    \/ part = "probe" /\ Probing!Next /\ UNCHANGED <<part, sessionVars, inputVars>>
    \/ part = "input" /\ InputNext /\ UNCHANGED <<part, sessionVars, probeVars>>

\* The fairness of HostSession: the loop runs on.
ShellSpec ==
    /\ ShellInit /\ [][ShellNext]_shellVars
    /\ WF_sessionVars(part = "session" /\ Loop!Session)

-----------------------------------------------------------------------------
(***************************************************************************)
(* The properties of the parts.                                            *)
(***************************************************************************)

\* The evidence of a session is about what happened: it reports what the
\* session believes to have stopped, it names an image only for a workload
\* this session uploaded, and a bus snapshot that the session read by itself
\* belongs to a failure that it reports.
EvidenceIsTrue == Loop!EvidenceIsCurrent /\ Loop!ImageIsOwn /\ Loop!DiagnosticsMatch

\* A regression exits with PASS only when its own workload completed with PASS,
\* while others run and stop workloads but upload none.
RegressionPassIsReal == Loop!RegressionPassIsReal

\* The owner finds out how a run ended without being asked, if the status is
\* answered.
CompletionIsSeen == Loop!CompletionIsSeen

\* A round of native probes is credited to a service of its own, all but the
\* identity probe of a session, and no periodic probe is injected into a general
\* workload that the session can know of.
ProbesAreSound == [][Probing!RoundIsNew /\ Probing!ProbesOwnRuntime]_probeVars
=============================================================================
