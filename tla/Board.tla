------------------------------- MODULE Board -------------------------------
(***************************************************************************)
(* What the board does below the services: the disk that FatFs sees on the *)
(* flash (FlashDisk), the clock it gives the processor (ExecutionClock)    *)
(* and the lines it writes to CDC (CdcStream), with the reader of those    *)
(* lines on the Host.                                                      *)
(*                                                                         *)
(* The parts share no variable.  What holds of a part holds of the         *)
(* composition, so a behaviour moves one part, chosen at the start, and    *)
(* the others stay in their initial states.                                *)
(***************************************************************************)
EXTENDS FlashDisk, ExecutionClock

CONSTANT QueueCapacity              \* CdcStream: of the evidence queue, in pieces

VARIABLES
    part,                           \* the part that moves
    busy, run, lines, queue, usb, commands, waiting, asked, received, block,
    pending, noticed, spoiled, taken

streamVars == <<busy, run, lines, queue, usb, commands, waiting, asked, received, block,
                pending, noticed, spoiled, taken>>
boardVars == <<part, diskVars, clockVars, streamVars>>

-----------------------------------------------------------------------------
\* Two runs of the workload and a line of output; and one run with two status
\* requests, of which one may come too late.  The queue holds less than the
\* lines of a run, and less than the answer to a request.
Evidence == INSTANCE CdcStream WITH
    Capacity <- QueueCapacity, Body <- 1, MaxRuns <- 2, MaxLines <- 1, MaxAsked <- 0
Status == INSTANCE CdcStream WITH
    Capacity <- QueueCapacity, Body <- 1, MaxRuns <- 1, MaxLines <- 0, MaxAsked <- 2

ASSUME BoardAssumption == Evidence!StreamAssumption /\ Status!StreamAssumption

BoardInit ==
    /\ part \in {"disk", "clock", "evidence", "status"}
    /\ DiskInit /\ ClockInit /\ Evidence!Init

BoardNext ==
    \/ part = "disk" /\ DiskNext /\ UNCHANGED <<part, clockVars, streamVars>>
    \/ part = "clock" /\ ClockNext /\ UNCHANGED <<part, diskVars, streamVars>>
    \/ part = "evidence" /\ Evidence!Next /\ UNCHANGED <<part, diskVars, clockVars>>
    \/ part = "status" /\ Status!Next /\ UNCHANGED <<part, diskVars, clockVars>>

\* The fairness of CdcStream, for either part.
Streaming == part \in {"evidence", "status"}
BoardSpec ==
    /\ BoardInit /\ [][BoardNext]_boardVars
    /\ WF_streamVars(Streaming /\ Evidence!DrainRuntimeEvidence)
    /\ SF_streamVars(Streaming /\ Evidence!DrainCdc)
    /\ WF_streamVars(Streaming /\ Evidence!StatusTimesOut)

-----------------------------------------------------------------------------
(***************************************************************************)
(* Properties of the stream, next to those of the disk and of the clock.   *)
(***************************************************************************)

\* The end of a run makes the owner ask for the status, unless the queue dropped
\* the line, another line cut it, or a status request read the stream first.
EndIsNoticed == Evidence!EndIsNoticed

\* What a status request returns is one whole answer of the firmware, unless the
\* queue dropped a line of it or another line went past the rest of it.
StatusIsWhole == Status!StatusIsWhole
=============================================================================
