------------------------------- MODULE Mailbox -------------------------------
(***************************************************************************)
(* The owner-transfer mailbox in processor memory: the Host's "mailbox"    *)
(* command (session.py, mailbox.py, service_client.py), the write window   *)
(* of the RP2350's memory service, and the polling workload                *)
(* shared_mailbox.asm.                                                     *)
(*                                                                         *)
(* The data area is a few chunks, each written by one memory request.  A   *)
(* chunk holds the number of the mailbox request it belongs to and whether *)
(* the processor has converted it.  Memory requests are calls of module    *)
(* Rpc: one may be lost, lose its reply after it was carried out, or stay  *)
(* in the record slot and be carried out late, before any later request.   *)
(*                                                                         *)
(* Definitions named X_Y are X with the fault Y planted in it; no module   *)
(* uses them.                                                              *)
(***************************************************************************)
EXTENDS Integers

CONSTANTS
    Chunks,         \* chunks of the data area
    MaxGeneration,  \* generations are 1 .. MaxGeneration; 2^32 - 1 in the code
    MaxCalls,       \* bound: mailbox commands that start to write
    MaxRuns         \* bound: starts of the workload

ASSUME MailboxAssumption ==
    /\ Chunks \in Nat \ {0}
    /\ MaxGeneration \in Nat \ {0}
    /\ MaxCalls \in Nat
    /\ MaxRuns \in Nat

VARIABLES
    running,        \* the workload state is RUNNING
    runs,           \* how often it was started
    owner,          \* the words of the R86M header: owner, ...
    status,
    tag,            \* ... generation, ...
    request,        \* ... request length ...
    response,       \* ... and response length
    subject,        \* history: the number of the request it describes
    data,           \* the data area
    processor,      \* where the workload is in its loop
    index,          \* its SI: the next chunk to convert
    host,           \* where the "mailbox" command is
    call,           \* its number
    length,         \* how many chunks it sends
    generation,     \* its generation
    position,       \* the next of its records to send
    late,           \* the write left in the record slot, or NoRecord
    result,         \* the chunks of the response read so far
    got,            \* how many those are
    calls,          \* how many commands began to write
    executed,       \* history: requests the processor answered
    succeeded       \* history: requests the command reported PASS for

headerVars == <<owner, status, tag, request, response, subject>>
memoryVars == <<headerVars, data>>
processorVars == <<processor, index, executed>>
requestVars == <<length, generation, position, result, got, calls>>
commandVars == <<host, call, requestVars, succeeded>>
vars == <<running, runs, memoryVars, processorVars, commandVars, late>>

Asked(c) == [call |-> c, form |-> "asked"]
Converted(chunk) == [call |-> chunk.call, form |-> "converted"]
NoText == [i \in 1 .. Chunks |-> Asked(0)]

(* A memory write: a chunk, the whole header or the owner word.            *)
Record(part, number, g, c) ==
    [part |-> part, number |-> number, generation |-> g, call |-> c]

NoRecord == Record("none", 0, 0, 0)

Init ==
    /\ running = FALSE /\ runs = 0
    /\ owner = "host" /\ status = "empty" /\ tag = 0
    /\ request = 0 /\ response = 0 /\ subject = 0
    /\ data = NoText
    /\ processor = "poll" /\ index = 1
    /\ host = "idle" /\ call = 0 /\ length = 0 /\ generation = 0 /\ position = 1
    /\ late = NoRecord
    /\ result = NoText /\ got = 0
    /\ calls = 0 /\ executed = {} /\ succeeded = {}

(***************************************************************************)
(* Starting the workload clears the mailbox; the processor begins to poll. *)
(* The session and its broker serve one command at a time, so a start      *)
(* never falls inside a mailbox command.  The workload may end at any time.*)
(***************************************************************************)
Start ==
    /\ ~running
    /\ host = "idle"
    /\ late = NoRecord
    /\ runs < MaxRuns
    /\ running' = TRUE
    /\ runs' = runs + 1
    /\ owner' = "host" /\ status' = "empty" /\ tag' = 0
    /\ request' = 0 /\ response' = 0 /\ subject' = 0
    /\ data' = NoText
    /\ processor' = "poll"
    /\ index' = 1
    /\ UNCHANGED <<executed, commandVars, late>>

End ==
    /\ running
    /\ running' = FALSE
    /\ UNCHANGED <<runs, memoryVars, processorVars, commandVars, late>>

(***************************************************************************)
(* The workload's polling loop, one word of the header at a time.          *)
(***************************************************************************)
Poll ==
    /\ processor = "poll"
    /\ owner = "processor"
    /\ IF status = "request"
       THEN status' = "processing" /\ processor' = "convert" /\ UNCHANGED response
       ELSE response' = 0 /\ processor' = "error" /\ UNCHANGED status
    /\ index' = 1
    /\ UNCHANGED <<owner, tag, request, subject, data, executed>>

Convert ==
    /\ processor = "convert"
    /\ index <= request
    /\ data' = [data EXCEPT ![index] = Converted(@)]
    /\ index' = index + 1
    /\ UNCHANGED <<headerVars, processor, executed>>

PublishStatus ==
    /\ processor \in {"convert", "error"}
    /\ processor = "convert" => index > request
    /\ response' = IF processor = "error" THEN 0 ELSE request
    /\ status' = IF processor = "error" THEN "error" ELSE "result"
    /\ processor' = "publish"
    /\ UNCHANGED <<owner, tag, request, subject, data, index, executed>>

PublishOwner ==
    /\ processor = "publish"
    /\ owner' = "host"
    /\ processor' = "poll"
    /\ executed' = IF status = "result" THEN executed \cup {subject} ELSE executed
    /\ UNCHANGED <<status, tag, request, response, subject, data, index>>

Process ==
    /\ running
    /\ Poll \/ Convert \/ PublishStatus \/ PublishOwner
    /\ UNCHANGED <<running, runs, commandVars, late>>

(***************************************************************************)
(* The memory service.  While the workload runs only a Host-owned mailbox  *)
(* may be written.                                                         *)
(***************************************************************************)

WriteAllowed == running => owner = "host"

WriteChunk(i, c) ==
    /\ data' = [data EXCEPT ![i] = Asked(c)]
    /\ UNCHANGED headerVars

WriteHeader(n, g, c) ==
    /\ owner' = "host" /\ status' = "request" /\ tag' = g
    /\ request' = n /\ response' = 0 /\ subject' = c
    /\ UNCHANGED data

WriteOwner ==
    /\ owner' = "processor"
    /\ UNCHANGED <<status, tag, request, response, subject, data>>

HandleWrite(record) ==
    IF WriteAllowed
    THEN \/ record.part = "data" /\ WriteChunk(record.number, record.call)
         \/ record.part = "header" /\ WriteHeader(record.number, record.generation, record.call)
         \/ record.part = "owner" /\ WriteOwner
    ELSE UNCHANGED memoryVars

ExecuteLate ==
    /\ late # NoRecord
    /\ HandleWrite(late)
    /\ late' = NoRecord
    /\ UNCHANGED <<running, runs, processorVars, commandVars>>

(***************************************************************************)
(* The "mailbox" command.                                                  *)
(***************************************************************************)

NextGeneration(g) == IF g = MaxGeneration THEN 1 ELSE g + 1

(* mailbox_commit_records: the data, the header still owned by the Host,   *)
(* and the owner word as the last of length + 2 records.                   *)
CommitRecord(k) ==
    CASE k <= length -> Record("data", k, 0, call)
      [] k = length + 1 -> Record("header", length, generation, call)
      [] OTHER -> Record("owner", 0, 0, 0)

(* The header is read first; a mailbox the processor owns is busy.  While  *)
(* a write is in the slot the read is dropped, and the command ends.       *)
Begin(n) ==
    /\ host = "idle"
    /\ late = NoRecord
    /\ calls < MaxCalls
    /\ owner = "host"
    /\ calls' = calls + 1
    /\ call' = calls + 1
    /\ length' = n
    /\ generation' = NextGeneration(tag)
    /\ position' = 1
    /\ host' = "commit"
    /\ result' = NoText
    /\ got' = 0
    /\ UNCHANGED <<running, runs, memoryVars, processorVars, late, succeeded>>

Finish ==
    /\ host' = "idle"
    /\ call' = 0
    /\ UNCHANGED requestVars

(* memory_request: the record is carried out and answered, or refused, or  *)
(* answered in vain; in the last two cases the command ends.               *)
SendRecord ==
    /\ host = "commit"
    /\ HandleWrite(CommitRecord(position))
    /\ \/ /\ WriteAllowed
          /\ position' = position + 1
          /\ host' = IF position = length + 2 THEN "wait" ELSE "commit"
          /\ UNCHANGED <<call, length, generation, calls, result, got>>
       \/ Finish
    /\ UNCHANGED <<running, runs, processorVars, late, succeeded>>

(* It is lost, or left in the slot, and the command ends.                  *)
LoseRecord ==
    /\ host = "commit"
    /\ Finish
    /\ late' \in {NoRecord, CommitRecord(position)}
    /\ UNCHANGED <<running, runs, memoryVars, processorVars, succeeded>>

(* The poll for the response, and its deadline or a failed read.           *)
Answered_AnyOwner == tag = generation /\ status = "result"

Answered == owner = "host" /\ tag = generation

ReadHeader ==
    /\ host = "wait"
    /\ Answered
    /\ IF status = "result"
       THEN host' = "result" /\ UNCHANGED <<call, requestVars>>
       ELSE Finish
    /\ UNCHANGED <<running, runs, memoryVars, processorVars, late, succeeded>>

GiveUp ==
    /\ host \in {"wait", "result"}
    /\ Finish
    /\ UNCHANGED <<running, runs, memoryVars, processorVars, late, succeeded>>

(* read_memory of response_length bytes, a request for each chunk.         *)
ReadResult ==
    /\ host = "result"
    /\ result' = [result EXCEPT ![got + 1] = data[got + 1]]
    /\ got' = got + 1
    /\ IF got + 1 = response
       THEN /\ succeeded' = succeeded \cup {call}
            /\ host' = "idle" /\ call' = 0
       ELSE UNCHANGED <<host, call, succeeded>>
    /\ UNCHANGED <<running, runs, memoryVars, processorVars, late,
                   length, generation, position, calls>>

(* "mem write" or "mem load" into the data area while no command runs.     *)
MemWrite(i) ==
    /\ host = "idle"
    /\ late = NoRecord
    /\ \/ HandleWrite(Record("data", i, 0, 0)) /\ UNCHANGED late
       \/ late' = Record("data", i, 0, 0) /\ UNCHANGED memoryVars
    /\ UNCHANGED <<running, runs, processorVars, commandVars>>

Next ==
    \/ Start \/ End
    \/ Process
    \/ ExecuteLate
    \/ \E n \in 1 .. Chunks : Begin(n)
    \/ SendRecord \/ LoseRecord
    \/ ReadHeader \/ ReadResult \/ GiveUp
    \/ \E i \in 1 .. Chunks : MemWrite(i)

(* The deadline of the command passes and a request ends within its own    *)
(* timeout; a running processor executes its loop.                         *)
Spec ==
    /\ Init /\ [][Next]_vars
    /\ WF_vars(SendRecord \/ LoseRecord) /\ WF_vars(GiveUp) /\ WF_vars(Process)

-----------------------------------------------------------------------------
ChunkType == [call : Nat, form : {"asked", "converted"}]

RecordType ==
    [part : {"none", "data", "header", "owner"}, number : 0 .. Chunks,
     generation : 0 .. MaxGeneration, call : Nat]

(* Types: lengths fit the mailbox, and the generation its field, in which  *)
(* it comes round (session.py:1210).                                       *)
TypeOK ==
    /\ running \in BOOLEAN
    /\ owner \in {"host", "processor"}
    /\ status \in {"empty", "request", "processing", "result", "error"}
    /\ tag \in 0 .. MaxGeneration
    /\ request \in 0 .. Chunks /\ response \in 0 .. Chunks
    /\ subject \in Nat
    /\ data \in [1 .. Chunks -> ChunkType]
    /\ processor \in {"poll", "convert", "error", "publish"}
    /\ index \in 1 .. Chunks + 1
    /\ host \in {"idle", "commit", "wait", "result"}
    /\ call \in Nat /\ calls \in Nat
    /\ length \in 0 .. Chunks
    /\ generation \in 0 .. MaxGeneration
    /\ position \in 1 .. Chunks + 3
    /\ late \in RecordType
    /\ late.part = "data" => late.number \in 1 .. Chunks
    /\ result \in [1 .. Chunks -> ChunkType]
    /\ got \in 0 .. Chunks

(* "The final two-byte owner write is the only publication point observed  *)
(* by the processor" (mailbox.py:58): what a polling processor is handed   *)
(* is one whole request, no chunk of an earlier or a half written one.     *)
RequestIsWhole ==
    running /\ owner = "processor" /\ processor = "poll" =>
        /\ status = "request"
        /\ \A i \in 1 .. request : data[i] = Asked(subject)

(* "The Host and processor therefore never modify the payload              *)
(* concurrently" (docs/architecture/memory.md:176): while the processor    *)
(* works on a request only the processor's own steps change the data.      *)
NoConcurrentWrites ==
    [][data' # data /\ running /\ processor # "poll" => index' = index + 1]_vars

(* PASS is reported only with the converted text of this very request,     *)
(* all of it.                                                              *)
PassIsTheAnswer ==
    [][succeeded' # succeeded =>
          /\ got' = length
          /\ \A i \in 1 .. length : result'[i] = Converted(Asked(call))]_vars

(***************************************************************************)
(* A mailbox command is in turn a call of module Rpc, carried out by the   *)
(* processor.                                                              *)
(***************************************************************************)
Calls == INSTANCE Rpc WITH issued <- calls, open <- call

(* The mailbox implements Rpc on top of memory requests that fail: the     *)
(* processor answers a request at most once, PASS means it answered this   *)
(* one, and every command ends.                                            *)
ImplementsCalls == Calls!Spec
=============================================================================
