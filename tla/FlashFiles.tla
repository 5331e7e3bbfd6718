----------------------------- MODULE FlashFiles -----------------------------
(***************************************************************************)
(* One file of the flash: volume, replaced by "put" and read by "cat" from *)
(* several shells, while the RP2350 may lose power at any point            *)
(* (filesystem.py, service_client.py, the put and cat commands of          *)
(* session.py, flash_service.c).                                           *)
(*                                                                         *)
(* A file is the sequence of its chunks, one chunk per record; a chunk is  *)
(* named by the put that sent it, so the text of put p is p repeated.  The *)
(* CRC of a text stands for the text.  Transfer ids are 32 random bits and *)
(* are taken to differ: the number of the put.                             *)
(*                                                                         *)
(* A call of FatFs succeeds, fails and changes nothing, or is cut short    *)
(* while it writes the volume, by a loss of power or by a block that       *)
(* cannot be written; the volume then refuses everything up to the next    *)
(* restart (flash_disk.c:71), and nothing is claimed of it any more.       *)
(*                                                                         *)
(* Definitions named X_Y are X with the fault Y planted in it; no module   *)
(* uses them.                                                              *)
(***************************************************************************)
EXTENDS Integers, Sequences

CONSTANTS
    Shells,     \* the session that owns the device and those over its broker
    MaxSize,    \* chunks of a file
    MaxPuts,    \* bound: put commands
    MaxReads    \* bound: cat commands

NoFile == <<0>>
Broken == <<-1>>    \* a file that no put has sent
Nobody == "nobody"

ASSUME FilesAssumption ==
    /\ MaxSize \in Nat
    /\ MaxPuts \in Nat
    /\ MaxReads \in Nat
    /\ Nobody \notin Shells

VARIABLES
    target,     \* the file, NoFile when there is none
    temp,       \* the upload file, NoFile when there is none
    open,       \* upload_open
    transfer,   \* transfer_id
    received,   \* the data of received_size and running_crc32
    phase,      \* how far handle_write_commit is; "idle" outside of it
    committer,  \* the shell that waits for its reply, or Nobody
    late,       \* the put whose next record was left in the record slot, 0 for none
    latePos,    \* and which record that is
    doing,      \* what each shell does: "idle", "put", "cat"
    put,        \* the number of its put
    position,   \* the next record of its put: 0 is BEGIN, size + 1 is COMMIT
    content,    \* what its cat has read
    total,      \* the size its first chunk announced, -1 before that
    size,       \* how many chunks each put sends
    puts,       \* how many puts there were
    reads,      \* how many cats there were
    passed,     \* history: the puts reported as PASS
    stored,     \* history: the put that was last renamed into place, 0 for none
    gap,        \* history: since then, a commit ended after its unlink
    torn        \* history: a call of FatFs was cut short

fileVars == <<target, temp>>
uploadVars == <<open, transfer, received>>
shellVars == <<doing, put, position, content, total, size, puts, reads>>
historyVars == <<passed, stored, gap, torn>>
vars == <<fileVars, uploadVars, phase, committer, late, latePos, shellVars, historyVars>>

Content(p) == [i \in 1 .. size[p] |-> p]

Init ==
    /\ target = NoFile /\ temp = NoFile
    /\ open = FALSE /\ transfer = 0 /\ received = <<>>
    /\ phase = "idle" /\ committer = Nobody
    /\ late = 0 /\ latePos = 0
    /\ doing = [s \in Shells |-> "idle"]
    /\ put = [s \in Shells |-> 0]
    /\ position = [s \in Shells |-> 0]
    /\ content = [s \in Shells |-> <<>>]
    /\ total = [s \in Shells |-> -1]
    /\ size = [p \in 1 .. MaxPuts |-> 0]
    /\ puts = 0 /\ reads = 0
    /\ passed = {} /\ stored = 0 /\ gap = FALSE /\ torn = FALSE

(***************************************************************************)
(* The flash service.  "ok" is the status of the reply.                    *)
(***************************************************************************)
HandleBegin_KeepsText(p, ok) ==
    /\ transfer' = IF ok THEN p ELSE 0
    /\ open' = ok
    /\ received' = <<>>
    /\ temp' = IF ok THEN (IF temp = NoFile THEN <<>> ELSE temp) ELSE NoFile
    /\ UNCHANGED <<target, phase>>

(* abort_upload, then the upload file is created anew; FA_CREATE_ALWAYS    *)
(* truncates one that could not be unlinked.                               *)
HandleBegin(p, ok) ==
    /\ transfer' = IF ok THEN p ELSE 0
    /\ open' = ok
    /\ received' = <<>>
    /\ IF ok THEN temp' = <<>> ELSE temp' \in {NoFile, temp}
    /\ UNCHANGED <<target, phase>>

(* Only the next chunk of the open transfer; a write that fails aborts.    *)
DataExpected(p, i) == open /\ transfer = p /\ Len(received) = i - 1 /\ i <= size[p]

HandleData(p, i, ok) ==
    /\ IF DataExpected(p, i)
       THEN IF ok
            THEN /\ received' = Append(received, p)
                 /\ temp' = Append(temp, p)
                 /\ UNCHANGED <<open, transfer>>
            ELSE /\ open' = FALSE /\ transfer' = 0 /\ received' = <<>>
                 /\ temp' \in {NoFile, temp}
       ELSE ~ok /\ UNCHANGED <<temp, uploadVars>>
    /\ UNCHANGED <<target, phase>>

(* Size and CRC are those BEGIN announced; the upload is synchronised and  *)
(* closed.  The handler goes on in Unlink and Rename.                      *)
CommitExpected(p) == open /\ transfer = p /\ received = Content(p)

HandleCommit(p, ok) ==
    /\ IF CommitExpected(p)
       THEN /\ open' = FALSE
            /\ IF ok
               THEN phase' = "flushed" /\ UNCHANGED temp
               ELSE temp' \in {NoFile, temp} /\ UNCHANGED phase
       ELSE ~ok /\ UNCHANGED <<temp, open, phase>>
    /\ UNCHANGED <<target, transfer, received>>

(* The record at a position of a put: BEGIN, a chunk, or COMMIT.           *)
Handle(p, i, ok) ==
    CASE i = 0 -> HandleBegin(p, ok)
      [] i \in 1 .. size[p] -> HandleData(p, i, ok)
      [] OTHER -> HandleCommit(p, ok)

EndPut(s) ==
    /\ doing' = [doing EXCEPT ![s] = "idle"]
    /\ UNCHANGED <<put, position, content, total, size, puts, reads>>

(* The old file is unlinked, ...                                           *)
Unlink ==
    /\ phase = "flushed"
    /\ target' = NoFile
    /\ phase' = "unlinked"
    /\ UNCHANGED <<temp, uploadVars, committer, late, latePos, shellVars, historyVars>>

(* ... and the upload takes its name; the reply reaches the shell or not.  *)
Rename ==
    /\ phase = "unlinked"
    /\ target' = temp
    /\ temp' = NoFile
    /\ transfer' = 0
    /\ phase' = "idle"
    /\ committer' = Nobody
    /\ IF committer = Nobody
       THEN UNCHANGED <<shellVars, passed>>
       ELSE EndPut(committer) /\ passed' = passed \cup {put[committer]}
    /\ stored' = transfer /\ gap' = FALSE
    /\ UNCHANGED <<open, received, late, latePos, torn>>

(* A call of FatFs fails on the way: the upload is unlinked.               *)
CommitFails ==
    /\ phase \in {"flushed", "unlinked"}
    /\ temp' \in {NoFile, temp}
    /\ phase' = "idle"
    /\ committer' = Nobody
    /\ IF committer = Nobody THEN UNCHANGED shellVars ELSE EndPut(committer)
    /\ gap' = (gap \/ phase = "unlinked")
    /\ UNCHANGED <<target, uploadVars, late, latePos, passed, stored, torn>>

(* On restart the service unlinks the upload and ignores whether that      *)
(* worked.  Every shell has lost its device.                               *)
Restart ==
    /\ open' = FALSE /\ transfer' = 0 /\ received' = <<>>
    /\ phase' = "idle" /\ committer' = Nobody /\ late' = 0 /\ latePos' = 0
    /\ temp' \in {NoFile, temp}
    /\ doing' = [s \in Shells |-> "idle"]
    /\ UNCHANGED <<put, position, content, total, size, puts, reads, passed, stored>>

(* Power is lost between two calls of FatFs, ...                           *)
Crash ==
    /\ Restart
    /\ gap' = (gap \/ phase = "unlinked")
    /\ UNCHANGED <<target, torn>>

(* ... or one that writes is cut short.  A block is erased before it is    *)
(* programmed, and it holds two clusters, perhaps of two files, or entries *)
(* of the directory or of the FAT: the file may be lost or damaged         *)
(* whatever the call was about.  Reading writes nothing.                   *)
Writing == phase # "idle" \/ late # 0 \/ temp # NoFile \/ \E s \in Shells : doing[s] = "put"

CrashInWrite ==
    /\ Writing
    /\ Restart
    /\ target' \in {target, NoFile, Broken}
    /\ torn' = TRUE
    /\ UNCHANGED gap

(***************************************************************************)
(* The put command: BEGIN, the chunks and COMMIT, each when the one before *)
(* was answered with success.                                              *)
(***************************************************************************)
StartPut(s, n) ==
    /\ doing[s] = "idle"
    /\ puts < MaxPuts
    /\ puts' = puts + 1
    /\ size' = [size EXCEPT ![puts + 1] = n]
    /\ doing' = [doing EXCEPT ![s] = "put"]
    /\ put' = [put EXCEPT ![s] = puts + 1]
    /\ position' = [position EXCEPT ![s] = 0]
    /\ UNCHANGED <<fileVars, uploadVars, phase, committer, late, latePos,
                   content, total, reads, historyVars>>

SendRecord(s, ok) ==
    /\ doing[s] = "put" /\ committer # s
    /\ phase = "idle" /\ late = 0
    /\ Handle(put[s], position[s], ok)
    /\ IF ok
       THEN /\ position' = [position EXCEPT ![s] = @ + 1]
            /\ committer' = IF position[s] = size[put[s]] + 1 THEN s ELSE Nobody
            /\ UNCHANGED <<doing, put, content, total, size, puts, reads>>
       ELSE EndPut(s) /\ UNCHANGED committer
    /\ UNCHANGED <<late, latePos, historyVars>>

(* A request times out: it was lost, its reply was lost, it waits in the   *)
(* slot, or its commit is still under way.                                 *)
LoseRecord(s) ==
    /\ doing[s] = "put"
    /\ EndPut(s)
    /\ committer' = IF committer = s THEN Nobody ELSE committer
    /\ IF late = 0 /\ committer # s
       THEN \/ UNCHANGED <<late, latePos>>
            \/ late' = put[s] /\ latePos' = position[s]
       ELSE UNCHANGED <<late, latePos>>
    /\ UNCHANGED <<fileVars, uploadVars, phase, historyVars>>

ExecuteLate(ok) ==
    /\ late # 0 /\ phase = "idle"
    /\ Handle(late, latePos, ok)
    /\ late' = 0 /\ latePos' = 0
    /\ UNCHANGED <<committer, shellVars, historyVars>>

(***************************************************************************)
(* The cat command: read_file asks for one chunk after the other and       *)
(* gives up when the announced size changes.                               *)
(***************************************************************************)
StartRead(s) ==
    /\ doing[s] = "idle"
    /\ reads < MaxReads
    /\ reads' = reads + 1
    /\ doing' = [doing EXCEPT ![s] = "cat"]
    /\ content' = [content EXCEPT ![s] = <<>>]
    /\ total' = [total EXCEPT ![s] = -1]
    /\ UNCHANGED <<fileVars, uploadVars, phase, committer, late, latePos,
                   put, position, size, puts, historyVars>>

SizeAgrees(s) == total[s] \in {-1, Len(target)}

Chunk(s) ==
    LET offset == Len(content[s])
    IN  IF offset < Len(target) THEN <<target[offset + 1]>> ELSE <<>>

ReadChunk(s) ==
    /\ doing[s] = "cat"
    /\ phase = "idle" /\ late = 0
    /\ IF target # NoFile /\ SizeAgrees(s)
       THEN /\ content' = [content EXCEPT ![s] = @ \o Chunk(s)]
            /\ total' = [total EXCEPT ![s] = Len(target)]
            /\ doing' = [doing EXCEPT ![s] =
                  IF Len(content[s]) + 1 >= Len(target) THEN "done" ELSE "cat"]
       ELSE doing' = [doing EXCEPT ![s] = "idle"] /\ UNCHANGED <<content, total>>
    /\ UNCHANGED <<fileVars, uploadVars, phase, committer, late, latePos,
                   put, position, size, puts, reads, historyVars>>

(* The command prints what it read, or failed on the way.                  *)
EndRead(s) ==
    /\ doing[s] \in {"cat", "done"}
    /\ doing' = [doing EXCEPT ![s] = "idle"]
    /\ UNCHANGED <<fileVars, uploadVars, phase, committer, late, latePos,
                   put, position, content, total, size, puts, reads, historyVars>>

Next ==
    \/ Unlink \/ Rename \/ CommitFails \/ Crash \/ CrashInWrite
    \/ \E ok \in BOOLEAN : ExecuteLate(ok)
    \/ \E s \in Shells :
         \/ \E n \in 0 .. MaxSize : StartPut(s, n)
         \/ \E ok \in BOOLEAN : SendRecord(s, ok)
         \/ LoseRecord(s)
         \/ StartRead(s) \/ ReadChunk(s) \/ EndRead(s)

Spec == Init /\ [][Next]_vars

-----------------------------------------------------------------------------
(* As long as no call of FatFs was cut short, the file under its own name  *)
(* is the whole text of the put that was renamed into place last, never a  *)
(* part of one or a mixture, whatever failed, came late or overlapped.  It *)
(* is absent only before the first put, between unlink and rename, and     *)
(* when a failure or a power loss fell there.                              *)
TargetIsWhole ==
    ~torn => target = IF stored = 0 \/ phase = "unlinked" \/ gap THEN NoFile ELSE Content(stored)

(* "put: PASS" means that the file now holds what this put sent, although  *)
(* another shell may have begun its own upload in between.                 *)
PassMeansStored == [][torn \/ \A p \in passed' \ passed : target' = Content(p)]_vars

(* A cat that ends without an error never joins files of different sizes   *)
(* ("file size changed while reading", service_client.py:170).  Two files  *)
(* of the same size it cannot tell apart.                                  *)
ReadsNeverMixSizes ==
    ~torn => \A s \in Shells : doing[s] = "done" =>
        \A i \in DOMAIN content[s] : size[content[s][i]] = Len(content[s])

(* The Host can "atomically upload/replace files" (host_runtime.md:216):   *)
(* once a file is stored there is a whole text under its name whenever no  *)
(* commit is under way, even if no call of FatFs is ever cut short.        *)
(* handle_write_commit unlinks the target before it renames.               *)
PutIsAtomic ==
    ~torn /\ stored # 0 /\ phase = "idle" => \E p \in 1 .. puts : target = Content(p)
=============================================================================
