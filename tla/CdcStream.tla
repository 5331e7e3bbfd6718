------------------------------ MODULE CdcStream ------------------------------
(***************************************************************************)
(* The CDC stream: evidence lines of the firmware on their way to the      *)
(* owner's session, which logs and displays them, and to a status request  *)
(* that another process put through the owner's broker.                    *)
(*                                                                         *)
(* evidence_printf puts a line in the evidence queue while a workload      *)
(* keeps the processor busy, and writes it straight to USB otherwise, past *)
(* what is still in the queue.  The main loop moves the queue to USB as    *)
(* far as the USB FIFO has room and the ring is contiguous, so a line may  *)
(* go out in two pieces with other lines in between.                       *)
(*                                                                         *)
(* A line is a run of pieces, cut where its start cannot be recognized     *)
(* from the first; the last ends with the newline, and a line between the  *)
(* status markers is longer than they are.  A direct write waits for room  *)
(* and is taken to succeed: the owner reads well within the firmware's     *)
(* five seconds.                                                           *)
(*                                                                         *)
(* Definitions named X_Y are X with the fault Y planted in it; no module   *)
(* uses them.                                                              *)
(***************************************************************************)
EXTENDS Naturals, Sequences, SequencesExt, FiniteSetsExt

CONSTANTS
    Capacity,           \* RP86_EVIDENCE_QUEUE_CAPACITY, in pieces
    Body,               \* the number of lines between the status markers
    MaxRuns, MaxLines, MaxAsked     \* bounds

StreamAssumption ==
    /\ Capacity \in Nat /\ Body \in Nat
    /\ MaxRuns \in Nat /\ MaxLines \in Nat /\ MaxAsked \in Nat

VARIABLES
    busy,               \* executor active and the processor not idle
    run, lines,         \* the number of this run, and of the other lines written
    queue, usb,         \* g_runtime_evidence; the bytes on their way, as pieces
    commands,           \* STATUS commands on their way to the firmware
    waiting,            \* the owner is in send_status_request
    asked,              \* the number of that request
    received,           \* its buffer
    block,              \* what it returned
    pending,            \* CdcDisplayStream._pending: its first two pieces
    noticed,            \* runs whose end made the owner ask for the status
    spoiled,            \* history: lines dropped, cut, joined or separated
    taken               \* history: runs whose lines a status request may have read

device == <<busy, run, lines, queue, usb, spoiled>>
request == <<waiting, asked, received, block>>
session == <<pending, noticed, taken>>
vars == <<device, commands, request, session>>

EndKinds == {"done", "fault", "timeout"}
StatusKinds == {"begin", "body", "end"}
Line(kind, n, i) == [kind |-> kind, n |-> n, i |-> i]
Length(line) == IF line.kind = "body" THEN 3 ELSE 2
Pieces(line) == [j \in 1..Length(line) |-> [line |-> line, part |-> j]]
Written(ls) == FlattenSeq([k \in 1..Len(ls) |-> Pieces(ls[k])])
Ended(piece) == piece.part = Length(piece.line)

Init ==
    /\ busy = FALSE /\ run = 0 /\ lines = 0 /\ queue = <<>> /\ usb = <<>>
    /\ commands = <<>> /\ waiting = FALSE /\ asked = 0 /\ received = <<>> /\ block = <<>>
    /\ pending = <<>> /\ noticed = {} /\ spoiled = {} /\ taken = {}

-----------------------------------------------------------------------------
(***************************************************************************)
(* The firmware.                                                           *)
(***************************************************************************)

\* rp86_evidence_queue_try_push: the whole line, or nothing of it.
TryPush(q, line) == IF Length(line) > Capacity - Len(q) THEN q ELSE q \o Pieces(line)

\* What a direct write of lines does to others: it cuts the line that is partly
\* out and joins the first of its own to it, and it separates the lines of a
\* status answer that are still in the queue.
Harmed(ls) ==
    LET halfway == Head(queue).part # 1
    IN  {l \in {Head(queue).line, ls[1]} : halfway /\ l.kind \in EndKinds}
            \cup {l \in {p.line : p \in ToSet(queue)} : l.kind \in StatusKinds}

\* evidence_printf of several lines, with the executor busy or not.
Emit(ls, queued) ==
    IF queued
    THEN /\ queue' = FoldLeft(TryPush, queue, ls)
         /\ spoiled' = spoiled \cup (ToSet(ls) \ {p.line : p \in ToSet(queue')})
         /\ UNCHANGED usb
    ELSE /\ usb' = usb \o Written(ls)
         /\ spoiled' = spoiled \cup (IF queue = <<>> THEN {} ELSE Harmed(ls))
         /\ UNCHANGED queue

Start ==
    /\ ~busy /\ run < MaxRuns
    /\ busy' = TRUE /\ run' = run + 1
    /\ Emit(<<Line("start", run + 1, 0)>>, TRUE)
    /\ UNCHANGED <<lines, commands, request, session>>

\* A line of the workload, or of a service that answered a record.
Output ==
    /\ lines < MaxLines
    /\ lines' = lines + 1
    /\ Emit(<<Line("out", lines + 1, 0)>>, busy)
    /\ UNCHANGED <<busy, run, commands, request, session>>

\* processor_idle is set before COMPLETED is printed, and the executor stops
\* before TIMEOUT; a FAULT is printed while it is still active.
Ends(kind) ==
    /\ busy /\ busy' = FALSE
    /\ Emit(<<Line(kind, run, 0)>>, kind = "fault")
    /\ UNCHANGED <<run, lines, commands, request, session>>

\* As much as the FIFO has room for and peek returns, the part up to the end of
\* the ring: one piece or, in several of these steps, more of them.
DrainRuntimeEvidence ==
    /\ queue # <<>>
    /\ usb' = Append(usb, Head(queue))
    /\ queue' = Tail(queue)
    /\ UNCHANGED <<busy, run, lines, spoiled, commands, request, session>>

Answer(n) ==
    <<Line("begin", n, 0)>> \o [i \in 1..Body |-> Line("body", n, i)] \o <<Line("end", n, 0)>>

\* service_cdc_control: the lines of an answer, with no drain in between.
ServiceCdcControl ==
    /\ commands # <<>> /\ commands' = Tail(commands)
    /\ Emit(Answer(Head(commands)), busy)
    /\ UNCHANGED <<busy, run, lines, request, session>>

-----------------------------------------------------------------------------
(***************************************************************************)
(* The owner's session.                                                    *)
(***************************************************************************)

\* CdcDisplayStream.feed: a line is known by how it starts.
Known(text) == Len(text) > 1 /\ IsPrefix(SubSeq(text, 1, 2), Pieces(text[1].line))
Text_DropsPartial(piece) == <<piece>>
Text(piece) == Append(pending, piece)

\* drain_cdc: read, log, display, and ask for the status after an end; a read of
\* several pieces is several of these steps.
DrainCdc ==
    /\ ~waiting /\ usb # <<>>
    /\ usb' = Tail(usb)
    /\ LET text == Text(Head(usb))
           line == text[1].line
       IN  IF Ended(Head(usb))
           THEN /\ pending' = <<>>
                /\ noticed' = IF Known(text) /\ line.kind \in EndKinds
                              THEN noticed \cup {line.n} ELSE noticed
           ELSE /\ pending' = SubSeq(text, 1, Min({2, Len(text)}))
                /\ UNCHANGED noticed
    /\ UNCHANGED <<busy, run, lines, queue, spoiled, commands, request, taken>>

SendStatusRequest ==
    /\ ~waiting /\ asked < MaxAsked
    /\ waiting' = TRUE /\ asked' = asked + 1 /\ received' = <<>> /\ block' = <<>>
    /\ commands' = Append(commands, asked + 1)
    /\ UNCHANGED <<device, session>>

\* Where a marker stands in the buffer, all of it.
Found(s, kind) ==
    {j \in 1..Len(s) - 1 : s[j].line.kind = kind /\ SubSeq(s, j, j + 1) = Pieces(s[j].line)}

\* The last BEGIN before the first END.
Framed_FromStart(s, last) == 1
Framed(s, last) == Max({b \in Found(s, "begin") : b < last})

\* A read that ends the answer may take more than the answer.  What this reads
\* is neither logged nor displayed.
ReadStatus ==
    /\ waiting /\ usb # <<>>
    /\ LET s == Append(received, Head(usb))
           last == Min(Found(s, "end"))
       IN  \/ /\ Found(s, "end") = {}
              /\ usb' = Tail(usb)
              /\ received' = s /\ UNCHANGED <<waiting, block>>
           \/ /\ Found(s, "end") # {}
              /\ \E k \in 1..Len(usb) : usb' = SubSeq(usb, k + 1, Len(usb))
              /\ waiting' = FALSE /\ received' = <<>>
              /\ block' = IF \A b \in Found(s, "begin") : b > last THEN <<>>
                          ELSE SubSeq(s, Framed(s, last), last + 1)
    /\ taken' = taken \cup {n \in 1..MaxRuns \ noticed : n <= run \/ pending # <<>>}
    /\ UNCHANGED <<busy, run, lines, queue, spoiled, commands, asked, pending, noticed>>

StatusTimesOut ==
    /\ waiting /\ waiting' = FALSE /\ received' = <<>> /\ block' = <<>>
    /\ UNCHANGED <<device, commands, asked, session>>

-----------------------------------------------------------------------------
Quiet ==
    /\ run = MaxRuns /\ asked = MaxAsked /\ lines = MaxLines /\ ~busy /\ ~waiting
    /\ queue = <<>> /\ usb = <<>> /\ commands = <<>>
    /\ UNCHANGED vars

Next ==
    \/ Start \/ Output \/ DrainRuntimeEvidence \/ ServiceCdcControl
    \/ \E kind \in EndKinds : Ends(kind)
    \/ DrainCdc \/ SendStatusRequest \/ ReadStatus \/ StatusTimesOut \/ Quiet

\* The main loop of the firmware and the loop of the session run on, and a
\* status request has a deadline.
Spec ==
    /\ Init /\ [][Next]_vars
    /\ WF_vars(DrainRuntimeEvidence) /\ SF_vars(DrainCdc) /\ WF_vars(StatusTimesOut)

-----------------------------------------------------------------------------
(***************************************************************************)
(* Properties.                                                             *)
(***************************************************************************)

\* The end of a run makes the owner ask for the status, so that its state
\* follows the device ("Reflect completion now and refresh cycles in the loop",
\* session.py).  The exceptions: the queue was full and dropped the line; the
\* line was cut by a direct one, or was a direct one that followed half a line;
\* or a status request read the stream before the line was seen.
Over(n) == n < run \/ (n = run /\ ~busy)
Astray(n) == n \in taken \/ \E l \in spoiled : l.kind \in EndKinds /\ l.n = n
EndIsNoticed == \A n \in 1..MaxRuns : Over(n) ~> n \in noticed \/ Astray(n)

\* What a status request returns is one whole answer of the firmware, however
\* the stream was cut into reads, and whatever was left of earlier answers
\* ("The Host requires one complete `RP86 STATUS BEGIN` / `RP86 STATUS END`
\* block", host_runtime_shell.md).  The exceptions: the queue was full and
\* dropped a line of that answer, as it must once a workload is busy and the
\* answer is longer than the queue; or the workload ended while part of the
\* answer was in the queue, and the next line was written straight past it.
StatusIsWhole ==
    LET n == Last(block).line.n
    IN  /\ block # <<>>
        /\ \A l \in spoiled : ~(l.kind \in StatusKinds /\ l.n = n)
        => block = Written(Answer(n))
==============================================================================
