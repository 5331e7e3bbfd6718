-------------------------- MODULE WorkloadPackage --------------------------
(***************************************************************************)
(* A workload package on its way into the memory of the processor: the     *)
(* manifest and the upload of workload.py, the manifest check and the      *)
(* transfer of workload_manager.c.                                         *)
(*                                                                         *)
(* Addresses are scaled down: Word stands for 2^32, Space for the address  *)
(* space of the processor (2^20), Paragraph for 16, ChunkSize for          *)
(* DATA_BYTES (44).  The Host computes with unbounded integers, the        *)
(* firmware with words.  The CRC of an image is the image itself: a CRC    *)
(* that collides is outside the model.                                     *)
(***************************************************************************)
EXTENDS Integers, Sequences

CONSTANTS
    Word, Space, Paragraph, ChunkSize,
    Backing,                    \* bytes of the memory behind the address space
    MailboxBase, MailboxSize,
    Byte,                       \* what a byte of an image may be
    Files,                      \* packages that are loaded: [manifest, image]
    Checked,                    \* packages whose manifests are compared
    Uploaders,                  \* Host processes that load packages
    MaxLoads, MaxLost           \* bounds

(* The fields of a manifest are words, and what follows it are bytes.      *)
IsPackage(f) ==
    /\ \A field \in {"load", "size", "shared_base", "shared_size"} :
           f.manifest[field] \in 0 .. Word - 1
    /\ f.manifest.entry \in Nat \X Nat /\ f.manifest.stack \in Nat \X Nat
    /\ f.manifest.crc \in Seq(Byte) /\ f.image \in Seq(Byte)

ASSUME PackageAssumption ==
    /\ {Word, Space, Paragraph, ChunkSize, Backing, MailboxBase, MailboxSize, MaxLoads, MaxLost}
           \subseteq Nat
    /\ 0 < ChunkSize /\ 0 < Paragraph /\ 0 < MailboxSize
    /\ 0 < Backing /\ Backing <= Space /\ 2 * Space <= Word
    /\ "0" \in Byte
    /\ Files # {} /\ \A f \in Files \cup Checked : IsPackage(f)

VARIABLES
    same_id,        \* whether the random transfer ids of the uploaders coincide
    file, next,     \* of each uploader: its last package and the record that is next (0: none)
    loads, lost,
    state, manifest,        \* rp86_workload_manager_t: these two,
    upload, uploaded,       \*   transfer_id, received
    running_crc,            \*   and running_crc
    image                   \* the memory that the image is written to

manager == <<state, manifest, upload, uploaded, running_crc>>
packageVars == <<same_id, file, next, loads, lost, manager, image>>

\* Definitions named X_Y are X with the fault Y planted in it; no module uses them.

-----------------------------------------------------------------------------
(***************************************************************************)
(* The Host: WorkloadManifest.validated and decode_workload_file.          *)
(***************************************************************************)
Linear(segment, offset) == segment * Paragraph + offset

ClockFlags(m) ==
    /\ ~({"FREE_RUNNING", "STEPPED"} \subseteq m.flags)
    /\ "TICK" \in m.flags => "STEPPED" \in m.flags
    /\ m.flags \subseteq {"PERSISTENT", "STDIO", "SHARED", "FREE_RUNNING", "STEPPED", "TICK"}

Validated(m) ==
    /\ m.size > 0
    /\ m.load < Space /\ m.load + m.size <= Space
    /\ Linear(m.entry[1], m.entry[2]) \in m.load .. m.load + m.size - 1
    /\ Linear(m.stack[1], m.stack[2]) < Space
    /\ IF m.shared_size > 0
       THEN m.shared_base < Space /\ m.shared_base + m.shared_size <= Space
            /\ "SHARED" \in m.flags
       ELSE m.shared_base = 0 /\ "SHARED" \notin m.flags
    /\ ClockFlags(m)

Decodes(f) ==
    /\ Validated(f.manifest)
    /\ Len(f.image) = f.manifest.size /\ f.image = f.manifest.crc

Smaller(a, b) == IF a <= b THEN a ELSE b

\* upload_records: BEGIN, the chunks of the image, COMMIT.
Pieces(f) == (Len(f.image) + ChunkSize - 1) \div ChunkSize
Data(f, i) == SubSeq(f.image, (i - 1) * ChunkSize + 1, Smaller(i * ChunkSize, Len(f.image)))

-----------------------------------------------------------------------------
(***************************************************************************)
(* The firmware: manifest_valid and the transfer.                          *)
(***************************************************************************)
RangeValid(address, length) == address <= Backing /\ length <= Backing - address

ManifestValid_NoMailbox(m) ==
    LET image_end == (m.load + m.size) % Word
        entry == Linear(m.entry[1], m.entry[2])
        stack == Linear(m.stack[1], m.stack[2])
        shared_end == (m.shared_base + m.shared_size) % Word
    IN  /\ m.size # 0
        /\ m.load < Space /\ image_end >= m.load /\ image_end <= Space
        /\ RangeValid(m.load, m.size)
        /\ entry >= m.load /\ entry < image_end
        /\ m.stack # <<0, 0>> => stack < Space /\ stack < MailboxBase /\ RangeValid(stack, 2)
        /\ ClockFlags(m)
        /\ m.shared_size = 0 <=> "SHARED" \notin m.flags
        /\ m.shared_size # 0 =>
               /\ shared_end >= m.shared_base /\ shared_end <= Space
               /\ RangeValid(m.shared_base, m.shared_size)
ManifestValid(m) ==
    LET image_end == (m.load + m.size) % Word
        entry == Linear(m.entry[1], m.entry[2])
        stack == Linear(m.stack[1], m.stack[2])
        shared_end == (m.shared_base + m.shared_size) % Word
    IN  /\ m.size # 0
        /\ m.load < Space /\ image_end >= m.load /\ image_end <= Space
        /\ RangeValid(m.load, m.size)
        /\ ~(m.load < MailboxBase + MailboxSize /\ image_end > MailboxBase)
        /\ entry >= m.load /\ entry < image_end
        /\ m.stack # <<0, 0>> => stack < Space /\ stack < MailboxBase /\ RangeValid(stack, 2)
        /\ ClockFlags(m)
        /\ m.shared_size = 0 <=> "SHARED" \notin m.flags
        /\ m.shared_size # 0 =>
               /\ shared_end >= m.shared_base /\ shared_end <= Space
               /\ RangeValid(m.shared_base, m.shared_size)

Id(u) == IF same_id THEN 0 ELSE u

\* rp86_workload_begin, _write and _commit.
BeginTransfer(u) ==
    /\ ManifestValid(file[u].manifest)
    /\ state' = "RECEIVING" /\ manifest' = file[u].manifest /\ upload' = Id(u)
    /\ uploaded' = 0 /\ running_crc' = <<>>
    /\ UNCHANGED image

Writes(u, offset, data) ==
    /\ state = "RECEIVING" /\ upload = Id(u) /\ offset = uploaded
    /\ Len(data) > 0 /\ Len(data) <= manifest.size - uploaded

WriteTransfer(u, offset, data) ==
    /\ Writes(u, offset, data)
    /\ image' = [a \in DOMAIN image |->
                    IF a - (manifest.load + offset) \in 0 .. Len(data) - 1
                    THEN data[a - (manifest.load + offset) + 1] ELSE image[a]]
    /\ uploaded' = uploaded + Len(data)
    /\ running_crc' = running_crc \o data
    /\ UNCHANGED <<state, manifest, upload>>

Commits_AnyTransfer(u) ==
    /\ uploaded = manifest.size
    /\ file[u].manifest.crc = manifest.crc /\ running_crc = file[u].manifest.crc
Commits(u) ==
    /\ upload = Id(u) /\ uploaded = manifest.size
    /\ file[u].manifest.crc = manifest.crc /\ running_crc = file[u].manifest.crc

CommitTransfer(u, ok) ==
    /\ state = "RECEIVING"
    /\ ok = Commits(u)
    /\ state' = IF ok THEN "STAGED" ELSE "FAULTED"
    /\ UNCHANGED <<manifest, upload, uploaded, running_crc, image>>

\* The record of u that is next, as the device takes it (ok) or refuses it.
HandleRecord(u, ok) ==
    LET f == file[u]
        i == next[u] - 1
    IN  \/ /\ next[u] = 1 /\ ok /\ BeginTransfer(u)
        \/ /\ next[u] = 1 /\ ~ok /\ ~ManifestValid(f.manifest)
           /\ UNCHANGED <<manager, image>>
        \/ /\ i \in 1 .. Pieces(f) /\ ok /\ WriteTransfer(u, (i - 1) * ChunkSize, Data(f, i))
        \/ /\ i \in 1 .. Pieces(f) /\ ~ok /\ ~Writes(u, (i - 1) * ChunkSize, Data(f, i))
           /\ UNCHANGED <<manager, image>>
        \/ /\ i > Pieces(f) /\ CommitTransfer(u, ok)
        \/ /\ i > Pieces(f) /\ ~ok /\ state # "RECEIVING" /\ UNCHANGED <<manager, image>>

-----------------------------------------------------------------------------
PackageInit ==
    /\ same_id \in BOOLEAN
    /\ file \in [Uploaders -> {CHOOSE f \in Files : TRUE}]
    /\ next = [u \in Uploaders |-> 0]
    /\ loads = 0 /\ lost = 0
    /\ state = "EMPTY" /\ manifest \in {f.manifest : f \in {CHOOSE f \in Files : TRUE}}
    /\ upload = 0 /\ uploaded = 0 /\ running_crc = <<>>
    /\ image = [a \in 0 .. Backing - 1 |-> "0"]

Load(u, f) ==
    /\ next[u] = 0 /\ loads < MaxLoads /\ loads' = loads + 1
    /\ file' = [file EXCEPT ![u] = f]
    /\ next' = [next EXCEPT ![u] = IF Decodes(f) THEN 1 ELSE 0]
    /\ UNCHANGED <<same_id, lost, manager, image>>

\* A record that is refused, or lost, or answered too late ends the upload.
Send(u) ==
    /\ next[u] > 0
    /\ \E ok \in BOOLEAN :
          /\ HandleRecord(u, ok)
          /\ next' = [next EXCEPT ![u] = IF ok /\ @ < Pieces(file[u]) + 2 THEN @ + 1 ELSE 0]
    /\ UNCHANGED <<same_id, file, loads, lost>>

Lose(u) ==
    /\ next[u] > 0 /\ lost < MaxLost /\ lost' = lost + 1
    /\ (\E ok \in BOOLEAN : HandleRecord(u, ok)) \/ UNCHANGED <<manager, image>>
    /\ next' = [next EXCEPT ![u] = 0]
    /\ UNCHANGED <<same_id, file, loads>>

Done == loads = MaxLoads /\ (\A u \in Uploaders : next[u] = 0) /\ UNCHANGED packageVars

PackageNext ==
    \/ \E u \in Uploaders, f \in Files : Load(u, f)
    \/ \E u \in Uploaders : Send(u) \/ Lose(u)
    \/ Done

PackageSpec == PackageInit /\ [][PackageNext]_packageVars

-----------------------------------------------------------------------------
(***************************************************************************)
(* Properties.                                                             *)
(***************************************************************************)
Image(m) == {m.load + i : i \in 0 .. m.size - 1}
Shared(m) == {m.shared_base + i : i \in 0 .. m.shared_size - 1}
Mailbox == MailboxBase .. MailboxBase + MailboxSize - 1

\* What is in memory when a workload is staged is its image, whole and at its
\* place, however the records of several uploads came, even when their random
\* transfer ids coincide.
StagedIsImage ==
    state = "STAGED" =>
        \A i \in 1 .. manifest.size : image[manifest.load + i - 1] = manifest.crc[i]

\* An upload with an id of its own that passes has put its own image at its
\* own place.
PutsItsOwnImage ==
    ~same_id => \A u \in Uploaders :
        (next[u] = Pieces(file[u]) + 2 /\ next'[u] = 0 /\ state' = "STAGED" /\ state # "STAGED")
            => \/ lost' # lost
               \/ \A i \in 1 .. file[u].manifest.size :
                      image'[file[u].manifest.load + i - 1] = file[u].image[i]

\* A manifest that the firmware takes keeps the image inside the memory and
\* off the mailbox, and starts the processor inside the image, although its
\* sums are computed in words that wrap (manifest_valid).
AcceptedFits(m) ==
    ManifestValid(m) =>
        /\ Image(m) \subseteq (0 .. Backing - 1) \ Mailbox
        /\ Linear(m.entry[1], m.entry[2]) \in Image(m)
        /\ Shared(m) \subseteq 0 .. Backing - 1

\* The two checks of a manifest agree: what the Host lets through and memory
\* has room for, the firmware takes.
HostAgrees(f) ==
    LET m == f.manifest
    IN  ( /\ Decodes(f)
          /\ Image(m) \subseteq (0 .. Backing - 1) \ Mailbox
          /\ Linear(m.stack[1], m.stack[2]) < Smaller(MailboxBase, Backing - 1)
          /\ Shared(m) \subseteq 0 .. Backing - 1 )
        => ManifestValid(m)

\* What is staged is one of the images sent, even when two uploads have one
\* transfer id; with different ids an upload that is reported complete has
\* staged its own.
UploadIsOwn == []StagedIsImage /\ [][PutsItsOwnImage]_packageVars

\* A manifest that the firmware takes fits memory and spares the mailbox, and
\* what the Host lets through and memory has room for, the firmware takes.
\* This holds of the packages that are compared, and of those being sent.
Agree(f) == AcceptedFits(f.manifest) /\ HostAgrees(f)
ComparedAgree == \A f \in Checked : Agree(f)
ChecksAgree == ComparedAgree /\ \A u \in DOMAIN file : Agree(file[u])
=============================================================================
