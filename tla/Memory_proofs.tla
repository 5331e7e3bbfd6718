--------------------------- MODULE Memory_proofs ---------------------------
(***************************************************************************)
(* What the Host puts into the memory of the processor, for any sizes.     *)
(*                                                                         *)
(* A package (WorkloadPackage): the two checks of a manifest agree, an     *)
(* image that is staged is whole, and it is the upload's own.              *)
(*                                                                         *)
(* A request in the mailbox (Mailbox): it is safe, and implements the      *)
(* calls of module Rpc.                                                    *)
(***************************************************************************)
EXTENDS WorkloadPackage, Mailbox, TLAPS

(***************************************************************************)
(* Packages.  The fields of a manifest are words.                          *)
(***************************************************************************)
FieldsAreWords(m) ==
    /\ m.load \in 0 .. Word - 1 /\ m.size \in 0 .. Word - 1
    /\ m.shared_base \in 0 .. Word - 1 /\ m.shared_size \in 0 .. Word - 1
    /\ m.entry[1] \in Nat /\ m.entry[2] \in Nat /\ m.stack[1] \in Nat /\ m.stack[2] \in Nat

(* The constants of the packages.                                          *)
LEMMA PackageConstants ==
    /\ Word \in Nat /\ Space \in Nat /\ Paragraph \in Nat /\ ChunkSize \in Nat /\ Backing \in Nat
    /\ MailboxBase \in Nat /\ MailboxSize \in Nat
    /\ 0 < ChunkSize /\ 0 < Paragraph /\ 0 < MailboxSize
    /\ 0 < Backing /\ Backing <= Space /\ 2 * Space <= Word
BY PackageAssumption, Zenon

(* What every package is made of.                                          *)
LEMMA PackageFields ==
    ASSUME NEW f, IsPackage(f)
    PROVE  /\ FieldsAreWords(f.manifest)
           /\ f.manifest.crc \in Seq(Byte) /\ f.image \in Seq(Byte)
BY DEF IsPackage, FieldsAreWords

(* A sum of two words that wraps is below both.                            *)
LEMMA WordSum ==
    ASSUME NEW a \in 0 .. Word - 1, NEW b \in 0 .. Word - 1
    PROVE  (a + b) % Word = IF a + b < Word THEN a + b ELSE a + b - Word
<1>0. Word \in Nat /\ Word > 0
  BY PackageConstants
<1>1. a + b = Word * ((a + b) \div Word) + ((a + b) % Word)
  BY <1>0
<1>2. (a + b) % Word \in 0 .. Word - 1 /\ (a + b) \div Word \in Int
  BY <1>0
<1>3. \A q, r \in Int : a + b = Word * q + r /\ 0 <= r /\ r < Word =>
          q = IF a + b < Word THEN 0 ELSE 1
  <2> SUFFICES ASSUME NEW q \in Int, NEW r \in Int, a + b = Word * q + r, 0 <= r, r < Word
               PROVE  q = IF a + b < Word THEN 0 ELSE 1
    OBVIOUS
  <2>1. ASSUME q >= 2 PROVE FALSE
    <3>1. Word * q >= Word * 2
      BY <1>0, <2>1
    <3> QED BY <1>0, <3>1
  <2>2. ASSUME q <= -1 PROVE FALSE
    <3>1. Word * q <= Word * (-1)
      BY <1>0, <2>2
    <3> QED BY <1>0, <3>1
  <2>3. q \in {0, 1}
    BY <2>1, <2>2
  <2> QED BY <1>0, <2>3
<1>4. (a + b) \div Word = IF a + b < Word THEN 0 ELSE 1
  <2> DEFINE q == (a + b) \div Word
             r == (a + b) % Word
  <2>1. q \in Int /\ r \in Int /\ a + b = Word * q + r /\ 0 <= r /\ r < Word
    BY <1>0, <1>1, <1>2
  <2> HIDE DEF q, r
  <2>2. q = IF a + b < Word THEN 0 ELSE 1
    BY <1>3, <2>1, Zenon
  <2> QED BY <2>2, Zenon DEF q
<1> QED BY <1>0, <1>1, <1>2, <1>4

(* The address of a segment and an offset.                                 *)
LEMMA LinearNat ==
    ASSUME NEW s \in Nat, NEW o \in Nat PROVE Linear(s, o) \in Nat
BY PackageConstants DEF Linear

(* A manifest whose fields are words and that manifest_valid of            *)
(* workload_manager.c takes describes an image and a shared range inside   *)
(* the backing store, with the entry inside the image and nothing in the   *)
(* mailbox, although the sums are computed in words that wrap.             *)
THEOREM ValidManifestFits ==
    ASSUME NEW m, FieldsAreWords(m), ManifestValid(m)
    PROVE  /\ Image(m) \subseteq (0 .. Backing - 1) \ Mailbox
           /\ Linear(m.entry[1], m.entry[2]) \in Image(m)
           /\ Shared(m) \subseteq 0 .. Backing - 1
<1> DEFINE entry == Linear(m.entry[1], m.entry[2])
<1>0. entry \in Nat
  BY LinearNat, Zenon DEF FieldsAreWords
<1> HIDE DEF entry
<1>1. /\ m.load \in Nat /\ m.size \in Nat /\ m.shared_base \in Nat /\ m.shared_size \in Nat
      /\ entry \in Nat
  BY <1>0, PackageConstants DEF FieldsAreWords
<1>2. /\ m.size # 0 /\ m.load + m.size <= Backing
      /\ ~(m.load < MailboxBase + MailboxSize /\ (m.load + m.size) % Word > MailboxBase)
      /\ entry >= m.load /\ entry < (m.load + m.size) % Word
      /\ m.shared_size # 0 => m.shared_base + m.shared_size <= Backing
  BY <1>1, PackageConstants DEF ManifestValid, RangeValid, entry
<1>3. (m.load + m.size) % Word = m.load + m.size
  BY <1>1, <1>2, WordSum, PackageConstants DEF FieldsAreWords
<1>4. Image(m) \subseteq (0 .. Backing - 1) \ Mailbox
  BY <1>1, <1>2, <1>3, PackageConstants DEF Image, Mailbox
<1>5. entry \in Image(m)
  <2>1. entry - m.load \in 0 .. m.size - 1 /\ entry = m.load + (entry - m.load)
    BY <1>1, <1>2, <1>3
  <2> QED BY <2>1, Zenon DEF Image
<1>6. Shared(m) \subseteq 0 .. Backing - 1
  BY <1>1, <1>2, PackageConstants DEF Shared
<1> QED BY <1>4, <1>5, <1>6, Zenon DEF entry

(* A package that workload.py decodes and validates without an error and   *)
(* that the backing store has room for is one that manifest_valid takes:   *)
(* the tool sends nothing that the firmware then refuses for its shape.    *)
THEOREM FirmwareTakesIt ==
    ASSUME NEW f, FieldsAreWords(f.manifest), Decodes(f),
           Image(f.manifest) \subseteq (0 .. Backing - 1) \ Mailbox,
           Linear(f.manifest.stack[1], f.manifest.stack[2])
               < Smaller(MailboxBase, Backing - 1),
           Shared(f.manifest) \subseteq 0 .. Backing - 1
    PROVE  ManifestValid(f.manifest)
<1> DEFINE m == f.manifest
           entry == Linear(m.entry[1], m.entry[2])
           stack == Linear(m.stack[1], m.stack[2])
<1>0. entry \in Nat /\ stack \in Nat
  BY LinearNat, Zenon DEF FieldsAreWords
<1> HIDE DEF entry, stack
<1>1. /\ m.load \in Nat /\ m.size \in Nat /\ m.shared_base \in Nat /\ m.shared_size \in Nat
      /\ entry \in Nat /\ stack \in Nat
  BY <1>0, PackageConstants DEF FieldsAreWords
<1>2. /\ m.size > 0 /\ m.load < Space /\ m.load + m.size <= Space
      /\ entry \in m.load .. m.load + m.size - 1
      /\ ClockFlags(m)
      /\ m.shared_size > 0 => /\ m.shared_base + m.shared_size <= Space
                              /\ "SHARED" \in m.flags
      /\ ~(m.shared_size > 0) => "SHARED" \notin m.flags
  BY <1>1, Zenon DEF Decodes, Validated, entry
<1>3. /\ m.load \in 0 .. Word - 1 /\ m.size \in 0 .. Word - 1
      /\ m.shared_base \in 0 .. Word - 1 /\ m.shared_size \in 0 .. Word - 1
      /\ Space < Word
  BY PackageConstants DEF FieldsAreWords
<1>4. (m.load + m.size) % Word = m.load + m.size
  <2>1. m.load + m.size < Word
    BY <1>1, <1>2, <1>3, PackageConstants
  <2> QED BY <1>3, <2>1, WordSum, Zenon
<1>5. m.shared_size > 0 =>
          (m.shared_base + m.shared_size) % Word = m.shared_base + m.shared_size
  <2>1. m.shared_size > 0 => m.shared_base + m.shared_size < Word
    BY <1>1, <1>2, <1>3, PackageConstants
  <2> QED BY <1>3, <2>1, WordSum, Zenon
<1>6. stack < MailboxBase /\ stack < Backing - 1
  BY <1>1, PackageConstants DEF stack, Smaller
<1>7. \A i \in 0 .. m.size - 1 :
          m.load + i \in 0 .. Backing - 1 /\ m.load + i \notin Mailbox
  BY Zenon DEF Image
<1>8. m.load + m.size <= Backing
  <2>1. m.size - 1 \in 0 .. m.size - 1
    BY <1>1, <1>2
  <2> QED BY <1>1, <1>7, <2>1, PackageConstants
<1>9. ~(m.load < MailboxBase + MailboxSize /\ m.load + m.size > MailboxBase)
  <2>1. ASSUME m.load < MailboxBase + MailboxSize, m.load + m.size > MailboxBase PROVE FALSE
    <3>1. CASE m.load >= MailboxBase
      <4>1. 0 \in 0 .. m.size - 1 /\ m.load + 0 = m.load
        BY <1>1, <1>2
      <4> QED BY <1>1, <1>7, <2>1, <3>1, <4>1, PackageConstants DEF Mailbox
    <3>2. CASE m.load < MailboxBase
      <4>1. MailboxBase - m.load \in 0 .. m.size - 1
            /\ m.load + (MailboxBase - m.load) = MailboxBase
        BY <1>1, <2>1, <3>2, PackageConstants
      <4> QED BY <1>1, <1>7, <4>1, PackageConstants DEF Mailbox
    <3> QED BY <1>1, <3>1, <3>2, PackageConstants
  <2> QED BY <2>1, Zenon
<1>10. m.shared_size > 0 => m.shared_base + m.shared_size <= Backing
  <2>1. ASSUME m.shared_size > 0 PROVE m.shared_base + m.shared_size <= Backing
    <3>1. m.shared_size - 1 \in 0 .. m.shared_size - 1
      BY <1>1, <2>1
    <3>2. m.shared_base + (m.shared_size - 1) \in 0 .. Backing - 1
      BY <3>1, Zenon DEF Shared
    <3> QED BY <1>1, <3>2, PackageConstants
  <2> QED BY <2>1, Zenon
<1>11. /\ m.size # 0 /\ (m.load + m.size) % Word >= m.load /\ (m.load + m.size) % Word <= Space
       /\ RangeValid(m.load, m.size)
       /\ entry >= m.load /\ entry < (m.load + m.size) % Word
       /\ ~(m.load < MailboxBase + MailboxSize /\ (m.load + m.size) % Word > MailboxBase)
  BY <1>1, <1>2, <1>4, <1>8, <1>9, PackageConstants DEF RangeValid
<1>12. stack < Space /\ stack < MailboxBase /\ RangeValid(stack, 2)
  BY <1>1, <1>6, PackageConstants DEF RangeValid
<1>13. m.shared_size = 0 <=> "SHARED" \notin m.flags
  BY <1>1, <1>2
<1>14. m.shared_size # 0 =>
           /\ (m.shared_base + m.shared_size) % Word >= m.shared_base
           /\ (m.shared_base + m.shared_size) % Word <= Space
           /\ RangeValid(m.shared_base, m.shared_size)
  BY <1>1, <1>2, <1>5, <1>10, PackageConstants DEF RangeValid
<1> QED
  BY <1>2, <1>11, <1>12, <1>13, <1>14, Zenon DEF ManifestValid, entry, stack

-----------------------------------------------------------------------------

(***************************************************************************)
(* The transfer of a package.                                              *)
(***************************************************************************)
Manifests == {f.manifest : f \in Files}

(* The images of packages, and of their manifests, are bytes.              *)
LEMMA PackageShape ==
    ASSUME NEW f \in Files
    PROVE  /\ f.image \in Seq(Byte) /\ f.manifest.crc \in Seq(Byte)
           /\ f.manifest.size \in Nat /\ f.manifest.load \in Nat /\ f.manifest \in Manifests
<1>1. IsPackage(f)
  BY PackageAssumption, Zenon
<1>2. FieldsAreWords(f.manifest) /\ f.manifest.crc \in Seq(Byte) /\ f.image \in Seq(Byte)
  BY <1>1, PackageFields, Zenon
<1>3. f.manifest.size \in Nat /\ f.manifest.load \in Nat
  BY <1>2, PackageConstants DEF FieldsAreWords
<1> QED BY <1>2, <1>3, Zenon DEF Manifests

(* The sizes and places of their manifests are numbers.                    *)
LEMMA ManifestShape ==
    ASSUME NEW m \in Manifests
    PROVE  /\ m.crc \in Seq(Byte) /\ m.size \in Nat /\ m.load \in Nat
<1>1. PICK f \in Files : m = f.manifest
  BY Zenon DEF Manifests
<1> QED BY <1>1, PackageShape, Zenon

(* A chunk is a piece of its image.                                        *)
LEMMA DataShape ==
    ASSUME NEW f \in Files, NEW i \in Nat, i > 0
    PROVE  Data(f, i) \in Seq(Byte)
<1> DEFINE n == Len(f.image)
           a == (i - 1) * ChunkSize + 1
           b == i * ChunkSize
<1>1. f.image \in Seq(Byte) /\ n \in Nat
  BY PackageShape
<1>2. a \in Nat /\ a > 0 /\ b \in Nat
  BY PackageConstants
<1> HIDE DEF a, b
<1>3. Smaller(b, n) = IF b <= n THEN b ELSE n
  BY Zenon DEF Smaller
<1>4. SubSeq(f.image, a, IF b <= n THEN b ELSE n) \in Seq(Byte)
  BY <1>1, <1>2
<1> QED BY <1>3, <1>4, Zenon DEF Data, a, b

(* How many records carry an image.                                        *)
LEMMA PiecesNat == ASSUME NEW f \in Files PROVE Pieces(f) \in Nat
<1> DEFINE n == Len(f.image) + ChunkSize - 1
<1>1. n \in Nat
  BY PackageShape, PackageConstants
<1> HIDE DEF n
<1>2. n \div ChunkSize \in Nat
  BY <1>1, PackageConstants
<1> QED BY <1>2, Zenon DEF Pieces, n

PackageTypes ==
    /\ file \in [Uploaders -> Files] /\ next \in [Uploaders -> Nat]
    /\ state \in {"EMPTY", "RECEIVING", "STAGED", "FAULTED"}
    /\ manifest \in Manifests /\ uploaded \in Nat /\ running_crc \in Seq(Byte)
    /\ image \in [0 .. Backing - 1 -> Byte] /\ lost \in Nat

(* What has come of an image is in memory at its place, and the running    *)
(* CRC has seen exactly that.                                              *)
PrefixInMemory ==
    state \in {"RECEIVING", "STAGED"} =>
        /\ manifest.load + manifest.size <= Backing
        /\ uploaded <= manifest.size /\ Len(running_crc) = uploaded
        /\ \A i \in 1 .. uploaded : image[manifest.load + i - 1] = running_crc[i]

StagedIsWhole == state = "STAGED" => uploaded = manifest.size /\ running_crc = manifest.crc

(* Only a package that decodes is sent.  With ids of their own, an upload  *)
(* past its BEGIN whose id the manager holds has its own manifest there.   *)
OwnTransfer ==
    \A u \in Uploaders :
        /\ next[u] > 0 => Decodes(file[u])
        /\ ~same_id /\ next[u] > 1 /\ upload = u => manifest = file[u].manifest

PackageInv == PackageTypes /\ PrefixInMemory /\ StagedIsWhole /\ OwnTransfer

(* What a record may do to the manager and to memory.                      *)
Unmoved == UNCHANGED <<state, manifest, upload, uploaded, running_crc, image>>
Begins(u) ==
    /\ file[u].manifest.load + file[u].manifest.size <= Backing
    /\ state' = "RECEIVING" /\ manifest' = file[u].manifest
    /\ uploaded' = 0 /\ running_crc' = <<>> /\ image' = image
Adds(bytes) ==
    /\ state = "RECEIVING" /\ state' = state /\ manifest' = manifest /\ upload' = upload
    /\ Len(bytes) <= manifest.size - uploaded
    /\ image' = [a \in DOMAIN image |->
                    IF a - (manifest.load + uploaded) \in 0 .. Len(bytes) - 1
                    THEN bytes[a - (manifest.load + uploaded) + 1] ELSE image[a]]
    /\ uploaded' = uploaded + Len(bytes) /\ running_crc' = running_crc \o bytes
Ends ==
    /\ state = "RECEIVING" /\ state' \in {"STAGED", "FAULTED"}
    /\ state' = "STAGED" => uploaded = manifest.size /\ running_crc = manifest.crc
    /\ UNCHANGED <<manifest, upload, uploaded, running_crc, image>>

Moves(u) == Unmoved \/ Begins(u) \/ (\E bytes \in Seq(Byte) : Adds(bytes)) \/ Ends

(* A record that moves the manager in one of these ways keeps the          *)
(* invariant of the manager and of the image in memory.                    *)
LEMMA MovesKeeps ==
    ASSUME PackageTypes, PrefixInMemory, StagedIsWhole, NEW u \in Uploaders, Moves(u),
           file' \in [Uploaders -> Files], next' \in [Uploaders -> Nat], lost' \in Nat
    PROVE  PackageTypes' /\ PrefixInMemory' /\ StagedIsWhole'
<1>0. manifest.load \in Nat /\ manifest.size \in Nat /\ uploaded \in Nat /\ running_crc \in Seq(Byte)
  BY ManifestShape, Zenon DEF PackageTypes
<1>1. CASE Unmoved
  BY <1>1, Zenon DEF Unmoved, PackageTypes, PrefixInMemory, StagedIsWhole
<1>2. CASE Begins(u)
  <2>1. file[u].manifest \in Manifests /\ file[u].manifest.size \in Nat
    BY PackageShape, ManifestShape, Zenon DEF PackageTypes
  <2> QED BY <1>2, <2>1 DEF Begins, PackageTypes, PrefixInMemory, StagedIsWhole
<1>3. ASSUME NEW bytes \in Seq(Byte), Adds(bytes)
      PROVE  PackageTypes' /\ PrefixInMemory' /\ StagedIsWhole'
  <2> DEFINE start == manifest.load + uploaded
  <2>1. start \in Nat /\ Len(bytes) \in Nat /\ DOMAIN image = 0 .. Backing - 1
    BY <1>0 DEF PackageTypes
  <2>2. /\ image' \in [0 .. Backing - 1 -> Byte]
        /\ \A a \in 0 .. Backing - 1 :
              image'[a] = IF a - start \in 0 .. Len(bytes) - 1
                          THEN bytes[a - start + 1] ELSE image[a]
    <3>1. image' = [a \in 0 .. Backing - 1 |->
                       IF a - start \in 0 .. Len(bytes) - 1
                       THEN bytes[a - start + 1] ELSE image[a]]
      BY <1>3, <2>1, Zenon DEF Adds
    <3> HIDE DEF start
    <3>2. ASSUME NEW a \in 0 .. Backing - 1
          PROVE  (IF a - start \in 0 .. Len(bytes) - 1
                  THEN bytes[a - start + 1] ELSE image[a]) \in Byte
      <4>1. a - start \in 0 .. Len(bytes) - 1 => a - start + 1 \in 1 .. Len(bytes)
        BY <2>1, PackageConstants
      <4> QED BY <4>1 DEF PackageTypes
    <3> QED BY <3>1, <3>2, Zenon
  <2>3. PackageTypes'
    <3>1. running_crc' = running_crc \o bytes /\ uploaded' = uploaded + Len(bytes)
          /\ state' = state /\ manifest' = manifest
      BY <1>3, Zenon DEF Adds
    <3>2. running_crc' \in Seq(Byte) /\ uploaded' \in Nat
      BY <1>0, <2>1, <3>1
    <3> QED BY <2>2, <3>1, <3>2, Zenon DEF PackageTypes
  <2>4. /\ manifest.load + manifest.size <= Backing /\ uploaded + Len(bytes) <= manifest.size
        /\ Len(running_crc) = uploaded /\ Len(running_crc') = uploaded + Len(bytes)
    <3>1. /\ state = "RECEIVING" /\ Len(bytes) <= manifest.size - uploaded
          /\ running_crc' = running_crc \o bytes
      BY <1>3, Zenon DEF Adds
    <3>2. manifest.load + manifest.size <= Backing /\ Len(running_crc) = uploaded
      BY <3>1, Zenon DEF PrefixInMemory
    <3>3. Len(running_crc') = Len(running_crc) + Len(bytes)
      BY <1>0, <3>1
    <3>4. uploaded + Len(bytes) <= manifest.size
      BY <1>0, <2>1, <3>1
    <3> QED BY <3>2, <3>3, <3>4, Zenon
  <2>5. ASSUME NEW i \in 1 .. uploaded + Len(bytes)
        PROVE  image'[manifest.load + i - 1] = running_crc'[i]
    <3>0. i \in Nat /\ 1 <= i /\ i <= manifest.size
      BY <1>0, <2>1, <2>4
    <3>1. /\ manifest.load + i - 1 \in 0 .. Backing - 1
          /\ (manifest.load + i - 1) - start = i - uploaded - 1
      <4>1. manifest.load + i - 1 \in 0 .. Backing - 1
        <5>1. manifest.load + manifest.size <= Backing /\ Backing \in Nat
          BY <2>4, PackageConstants, Zenon
        <5>2. manifest.load \in Nat /\ manifest.size \in Nat
          BY <1>0, Zenon
        <5>3. \A l, n, j, b \in Nat : l + n <= b /\ 1 <= j /\ j <= n => l + j - 1 \in 0 .. b - 1
          OBVIOUS
        <5> QED BY <3>0, <5>1, <5>2, <5>3, Zenon
      <4>2. (manifest.load + i - 1) - start = i - uploaded - 1
        BY <1>0, <3>0
      <4> QED BY <4>1, <4>2, Zenon
    <3>2. running_crc' = running_crc \o bytes
      BY <1>3, Zenon DEF Adds
    <3>3. CASE i <= uploaded
      <4>1. image[manifest.load + i - 1] = running_crc[i]
        BY <1>0, <1>3, <3>3 DEF Adds, PrefixInMemory
      <4>2. image'[manifest.load + i - 1] = image[manifest.load + i - 1]
        BY <1>0, <2>1, <2>2, <3>1, <3>3
      <4>3. running_crc'[i] = running_crc[i]
        BY <1>0, <2>4, <3>2, <3>3
      <4> QED BY <4>1, <4>2, <4>3, Zenon
    <3>4. CASE i > uploaded
      <4>1. i - uploaded - 1 \in 0 .. Len(bytes) - 1 /\ i - uploaded - 1 + 1 = i - uploaded
        BY <1>0, <2>1, <3>4
      <4>2. image'[manifest.load + i - 1] = bytes[i - uploaded]
        BY <2>2, <3>1, <4>1, Zenon
      <4>3. running_crc'[i] = bytes[i - uploaded]
        <5>1. i \in Len(running_crc) + 1 .. Len(running_crc) + Len(bytes)
          BY <1>0, <2>1, <2>4, <3>0, <3>4
        <5>2. (running_crc \o bytes)[i] = bytes[i - Len(running_crc)]
          BY <1>0, <5>1
        <5> QED BY <2>4, <3>2, <5>2, Zenon
      <4> QED BY <4>2, <4>3, Zenon
    <3> QED BY <1>0, <2>1, <3>3, <3>4
  <2> QED BY <1>3, <2>3, <2>4, <2>5, Zenon DEF Adds, PrefixInMemory, StagedIsWhole
<1>4. CASE Ends
  BY <1>4, Zenon DEF Ends, PackageTypes, PrefixInMemory, StagedIsWhole
<1> QED BY <1>1, <1>2, <1>3, <1>4, Zenon DEF Moves

(* A record of an upload, as the service takes or refuses it.              *)
LEMMA LoadingHandles ==
    ASSUME PackageTypes, NEW u \in Uploaders, NEW ok \in BOOLEAN, HandleRecord(u, ok)
    PROVE  Moves(u)
<1>0. file[u] \in Files /\ next[u] \in Nat
  BY Zenon DEF PackageTypes
<1>1. CASE UNCHANGED <<manager, image>>
  BY <1>1, Zenon DEF Moves, Unmoved, manager
<1>2. CASE BeginTransfer(u)
  <2>1. RangeValid(file[u].manifest.load, file[u].manifest.size)
    BY <1>2, Zenon DEF BeginTransfer, ManifestValid
  <2>2. file[u].manifest.load + file[u].manifest.size <= Backing
    BY <1>0, <2>1, PackageShape, ManifestShape, PackageConstants DEF RangeValid
  <2> QED BY <1>2, <2>2, Zenon DEF BeginTransfer, Moves, Begins
<1>3. ASSUME next[u] - 1 \in 1 .. Pieces(file[u]),
             WriteTransfer(u, (next[u] - 1 - 1) * ChunkSize,
                                   Data(file[u], next[u] - 1))
      PROVE  Moves(u)
  <2>1. Data(file[u], next[u] - 1) \in Seq(Byte)
    BY <1>0, <1>3, DataShape, PiecesNat
  <2>2. Adds(Data(file[u], next[u] - 1))
    BY <1>3, Zenon DEF WriteTransfer, Writes, Adds
  <2> QED BY <2>1, <2>2, Zenon DEF Moves
<1>4. CASE CommitTransfer(u, ok)
  BY <1>4, Zenon DEF CommitTransfer, Commits, Moves, Ends
<1> QED BY <1>1, <1>2, <1>3, <1>4, Zenon DEF HandleRecord

(* What the steps of an upload leave of it.                                *)
LEMMA LoadingStep ==
    ASSUME PackageTypes, PrefixInMemory, StagedIsWhole, OwnTransfer, PackageNext
    PROVE  PackageTypes' /\ PrefixInMemory' /\ StagedIsWhole' /\ OwnTransfer'
<1>1. ASSUME NEW u \in Uploaders, NEW f \in Files, Load(u, f)
      PROVE  PackageTypes' /\ PrefixInMemory' /\ StagedIsWhole' /\ OwnTransfer'
  <2>1. /\ file' = [file EXCEPT ![u] = f] /\ next[u] = 0
        /\ next' = [next EXCEPT ![u] = IF Decodes(f) THEN 1 ELSE 0]
        /\ UNCHANGED <<same_id, lost, state, manifest, upload, uploaded, running_crc, image>>
    BY <1>1, Zenon DEF Load, manager
  <2>2. file' \in [Uploaders -> Files] /\ next' \in [Uploaders -> Nat]
    BY <2>1, Zenon DEF PackageTypes
  <2>3. PackageTypes' /\ PrefixInMemory' /\ StagedIsWhole'
    BY <2>1, <2>2, Zenon DEF PackageTypes, PrefixInMemory, StagedIsWhole
  <2>4. OwnTransfer'
    BY <2>1 DEF PackageTypes, OwnTransfer
  <2> QED BY <2>3, <2>4, Zenon
<1>2. ASSUME NEW u \in Uploaders, Send(u) \/ Lose(u)
      PROVE  PackageTypes' /\ PrefixInMemory' /\ StagedIsWhole' /\ OwnTransfer'
  <2>1. /\ file' = file /\ next[u] > 0 /\ lost' \in Nat /\ same_id' = same_id
        /\ \E n \in Nat : next' = [next EXCEPT ![u] = n] /\ n \in {next[u] + 1, 0}
    BY <1>2 DEF Send, Lose, PackageTypes
  <2>2. file' \in [Uploaders -> Files] /\ next' \in [Uploaders -> Nat]
    BY <2>1, Zenon DEF PackageTypes
  <2>3. CASE UNCHANGED <<manager, image>> /\ next'[u] = 0
    <3>1. Moves(u)
      BY <2>3, Zenon DEF Moves, Unmoved, manager
    <3>2. OwnTransfer'
      BY <2>1, <2>3 DEF OwnTransfer, manager, PackageTypes
    <3> QED BY <2>1, <2>2, <3>1, <3>2, MovesKeeps, Zenon
  <2>4. ASSUME NEW ok \in BOOLEAN, HandleRecord(u, ok),
               next'[u] = 0 \/ (ok /\ next'[u] = next[u] + 1)
        PROVE  PackageTypes' /\ PrefixInMemory' /\ StagedIsWhole' /\ OwnTransfer'
    <3>1. Moves(u)
      BY <2>4, LoadingHandles, Zenon
    <3>2. OwnTransfer'
      <4>1. CASE next[u] = 1 /\ BeginTransfer(u)
        <5>1. manifest' = file[u].manifest /\ (~same_id => upload' = u)
          BY <4>1, Zenon DEF BeginTransfer, Id
        <5> QED BY <2>1, <5>1, Zenon DEF OwnTransfer, PackageTypes
      <4>2. CASE next[u] = 1 /\ ~ok /\ UNCHANGED <<manager, image>>
        BY <2>1, <2>4, <4>2 DEF OwnTransfer, manager, PackageTypes
      <4>3. CASE next[u] # 1
        <5>1. manifest' = manifest /\ upload' = upload
          BY <2>4, <4>3, Zenon
          DEF HandleRecord, WriteTransfer, CommitTransfer, manager
        <5>2. \A v \in Uploaders : next'[v] > 1 => next[v] > 1
          BY <2>1, <4>3 DEF PackageTypes
        <5> QED BY <2>1, <5>1, <5>2 DEF OwnTransfer
      <4>4. file[u] \in Files /\ Pieces(file[u]) \in Nat
        BY PiecesNat, Zenon DEF PackageTypes
      <4> QED BY <2>4, <4>1, <4>2, <4>3, <4>4 DEF HandleRecord
    <3> QED BY <2>1, <2>2, <3>1, <3>2, MovesKeeps, Zenon
  <2> QED BY <1>2, <2>1, <2>3, <2>4, Zenon DEF Send, Lose, PackageTypes
<1>3. CASE UNCHANGED packageVars
  BY <1>3, Zenon DEF packageVars, manager, PackageTypes, PrefixInMemory, StagedIsWhole, OwnTransfer
<1> QED BY <1>1, <1>2, <1>3, Zenon DEF PackageNext, Done

(* Every step of an upload keeps the invariant of the transfers.           *)
LEMMA PackageStep == PackageInv /\ [PackageNext]_packageVars => PackageInv'
<1> SUFFICES ASSUME PackageInv, [PackageNext]_packageVars PROVE PackageInv'
  OBVIOUS
<1>1. CASE PackageNext
  BY <1>1, LoadingStep, Zenon DEF PackageInv
<1>2. CASE UNCHANGED packageVars
  BY <1>2, Zenon
  DEF packageVars, manager, PackageInv, PackageTypes, PrefixInMemory, StagedIsWhole, OwnTransfer
<1> QED BY <1>1, <1>2, Zenon

(* The empty prefix of an image.                                           *)
LEMMA EmptyIsBytes == <<>> \in Seq(Byte)
OBVIOUS

(* The invariant holds before the first upload.                            *)
LEMMA PackageInitial == PackageInit => PackageInv
<1> SUFFICES ASSUME PackageInit PROVE PackageInv
  OBVIOUS
<1> DEFINE first == CHOOSE f \in Files : TRUE
<1>1. first \in Files
  BY PackageAssumption, Zenon
<1>2. /\ file \in [Uploaders -> {first}] /\ lost = 0 /\ next = [u \in Uploaders |-> 0] /\ state = "EMPTY"
      /\ manifest = first.manifest /\ uploaded = 0 /\ running_crc = <<>>
      /\ image = [a \in 0 .. Backing - 1 |-> "0"]
  BY Zenon DEF PackageInit
<1> HIDE DEF first
<1>3. first.manifest \in Manifests
  BY <1>1, PackageShape, Zenon
<1>4. image \in [0 .. Backing - 1 -> Byte] /\ running_crc \in Seq(Byte)
  <2>1. "0" \in Byte
    BY PackageAssumption, Zenon
  <2> QED BY <1>2, <2>1, EmptyIsBytes, Zenon
<1>5. file \in [Uploaders -> Files]
  BY <1>1, <1>2, Zenon
<1>6. next \in [Uploaders -> Nat]
  BY <1>2, Zenon
<1>7. PackageTypes
  BY <1>2, <1>3, <1>4, <1>5, <1>6, Zenon DEF PackageTypes
<1> QED BY <1>2, <1>7 DEF PackageInv, PrefixInMemory, StagedIsWhole, OwnTransfer

(* Whatever records of any uploads interleave at the workload manager or   *)
(* are lost, an image that it stages is whole: its length and checksum are *)
(* those of the manifest it took, byte for byte in memory.  When every     *)
(* upload has a transfer id of its own, one that is told it is complete    *)
(* has staged its own image.  This holds for any packages and uploaders.   *)
THEOREM UploadsStayWhole == PackageSpec => UploadIsOwn
<1>1. PackageInv => StagedIsImage
  BY Zenon DEF PackageInv, PrefixInMemory, StagedIsWhole, StagedIsImage
<1>2. PackageInv /\ [PackageNext]_packageVars => [PutsItsOwnImage]_packageVars
  <2> SUFFICES ASSUME PackageInv, PackageNext, ~same_id, ~UNCHANGED packageVars,
                      NEW u \in Uploaders, next[u] = Pieces(file[u]) + 2, next'[u] = 0,
                      state' = "STAGED", state # "STAGED", lost' = lost,
                      NEW i \in 1 .. file[u].manifest.size
               PROVE  image'[file[u].manifest.load + i - 1] = file[u].image[i]
    BY Zenon DEF PutsItsOwnImage
  <2>0. /\ PackageTypes /\ PrefixInMemory /\ OwnTransfer /\ file[u] \in Files
        /\ Pieces(file[u]) \in Nat
    BY PiecesNat, Zenon DEF PackageInv, PackageTypes
  <2>2. Send(u)
    <3>1. ASSUME NEW v \in Uploaders, Send(v) PROVE v = u
      BY <2>0, <3>1 DEF Send, PackageTypes
    <3>2. ASSUME NEW v \in Uploaders, Lose(v) PROVE FALSE
      <4>1. lost' = lost + 1
        BY <3>2, Zenon DEF Lose
      <4> QED BY <2>0, <4>1 DEF PackageTypes
    <3> QED
      BY <3>1, <3>2, Zenon DEF PackageNext, Load, Done, packageVars, manager
  <2>3. PICK ok \in BOOLEAN : HandleRecord(u, ok)
    BY <2>2, Zenon DEF Send
  <2>4. CommitTransfer(u, ok)
    BY <2>0, <2>3 DEF HandleRecord, manager
  <2>5. /\ upload = u /\ uploaded = manifest.size /\ running_crc = file[u].manifest.crc
        /\ image' = image /\ state = "RECEIVING"
    BY <2>4, Zenon DEF CommitTransfer, Commits, Id
  <2>a. next[u] > 1 /\ next[u] > 0
    BY <2>0
  <2>6. manifest = file[u].manifest
    BY <2>0, <2>5, <2>a, Zenon DEF OwnTransfer
  <2>7. file[u].manifest.crc = file[u].image
    BY <2>0, <2>a, Zenon DEF OwnTransfer, Decodes
  <2> QED BY <2>0, <2>5, <2>6, <2>7, Zenon DEF PrefixInMemory
<1> QED BY <1>1, <1>2, PackageInitial, PackageStep, PTL DEF PackageSpec, UploadIsOwn

(* For all packages that are compared, whatever words their manifests      *)
(* hold, and for those that are being sent, the two checks agree: what     *)
(* manifest_valid takes fits, and what WorkloadManifest.validated lets     *)
(* through and memory has room for, manifest_valid takes.                  *)
THEOREM ManifestChecksAgree == PackageSpec => []ChecksAgree
<1>1. \A f \in Checked \cup Files : FieldsAreWords(f.manifest)
  <2>1. \A f \in Checked \cup Files : IsPackage(f)
    BY PackageAssumption, Zenon
  <2> QED BY <2>1, PackageFields, Zenon
<1>2. \A f \in Checked \cup Files : AcceptedFits(f.manifest)
  BY <1>1, ValidManifestFits, Zenon DEF AcceptedFits
<1>3. \A f \in Checked \cup Files : HostAgrees(f)
  BY <1>1, FirmwareTakesIt, Zenon DEF HostAgrees
<1>4. PackageInv => ChecksAgree
  BY <1>2, <1>3, Zenon DEF ChecksAgree, ComparedAgree, Agree, PackageInv, PackageTypes
<1> QED BY <1>4, PackageInitial, PackageStep, PTL DEF PackageSpec

-----------------------------------------------------------------------------
(***************************************************************************)
(* The mailbox, for any number of chunks, generations and commands.        *)
(***************************************************************************)
Whole ==
    /\ status = "request"
    /\ request >= 1
    /\ subject \in 1 .. calls
    /\ \A i \in 1 .. request : data[i] = Asked(subject)

AllConverted ==
    /\ status = "result"
    /\ response = request
    /\ \A i \in 1 .. request : data[i] = Converted(Asked(subject))

(* What the running workload has in hand.                                  *)
ProcessorPart ==
    running =>
      /\ processor # "error"
      /\ processor # "poll" =>
            /\ owner = "processor"
            /\ request >= 1
            /\ subject \in 1 .. calls
      /\ processor = "poll" /\ owner = "processor" => Whole
      /\ processor = "convert" =>
            /\ status = "processing"
            /\ index <= request + 1
            /\ \A i \in 1 .. request :
                  data[i] = IF i < index THEN Converted(Asked(subject))
                                         ELSE Asked(subject)
      /\ processor = "publish" => AllConverted

(* What is left in the slot when a command has ended.                      *)
LatePart ==
    /\ late # NoRecord => host = "idle"
    /\ late.part = "owner" => owner = "host" /\ Whole

(* What the command has written.                                           *)
CommitPart ==
    host = "commit" =>
        /\ owner = "host"
        /\ length >= 1
        /\ position <= length + 2
        /\ got = 0
        /\ \A i \in 1 .. length : i < position => data[i] = Asked(call)
        /\ position = length + 2 =>
              /\ status = "request"
              /\ request = length
              /\ subject = call

(* What it waits for, and what it has read.                                *)
WaitPart ==
    host \in {"wait", "result"} =>
        /\ request = length
        /\ subject = call
        /\ length >= 1
        /\ owner = "host" => AllConverted /\ call \in executed
        /\ host = "wait" => got = 0
        /\ host = "result" => owner = "host" /\ got < length
        /\ \A i \in 1 .. got : result[i] = Converted(Asked(call))

(* Its number.                                                             *)
CallPart ==
    /\ host = "idle" => call = 0
    /\ host # "idle" => call \in 1 .. calls

IInv == TypeOK /\ ProcessorPart /\ LatePart /\ CommitPart /\ WaitPart /\ CallPart

(* An empty slot has the type of a record.                                 *)
LEMMA NoRecordType ==
  NoRecord \in RecordType /\ NoRecord.part = "none" /\ NoRecord.number = 0
  BY MailboxAssumption DEF NoRecord, Record, RecordType

(* The initial mailbox is empty and owned by the Host.                     *)
LEMMA InitEstablishes == Init => IInv
<1>. SUFFICES ASSUME Init PROVE IInv
  OBVIOUS
<1>1. data \in [1 .. Chunks -> ChunkType] /\ result \in [1 .. Chunks -> ChunkType]
  BY Zenon DEF Init, NoText, Asked, ChunkType
<1>2. TypeOK
  <2>1. late \in RecordType /\ late.part = "none"
    BY NoRecordType, Zenon DEF Init
  <2>2. running \in BOOLEAN
    BY Zenon DEF Init
  <2>. QED  BY <1>1, <2>1, <2>2, MailboxAssumption DEF Init, TypeOK
<1>. QED
  BY <1>2, NoRecordType, Zenon
  DEF Init, IInv, TypeOK, ProcessorPart, LatePart, CommitPart, WaitPart, CallPart, Whole, AllConverted,
      Asked, Converted, ChunkType, headerVars, memoryVars, processorVars, requestVars, commandVars

(* A start empties the mailbox.                                            *)
LEMMA StartPreserves == IInv /\ Start => IInv'
<1>. SUFFICES ASSUME IInv, Start PROVE IInv'
  OBVIOUS
<1>. USE MailboxAssumption, NoRecordType
       DEF IInv, TypeOK, ProcessorPart, LatePart, CommitPart, WaitPart, CallPart, Whole,
           AllConverted, Asked, Converted, ChunkType, headerVars, memoryVars, processorVars,
           requestVars, commandVars
<1>11. TypeOK'
  BY DEF Start, NoText
<1>21. ProcessorPart'
  BY Zenon DEF Start, NoText
<1>31. LatePart'
  BY Zenon DEF Start, NoText
<1>41. CommitPart'
  BY Zenon DEF Start, NoText
<1>51. WaitPart'
  BY Zenon DEF Start, NoText
<1>61. CallPart'
  BY Zenon DEF Start, NoText
<1>. QED  BY <1>11, <1>21, <1>31, <1>41, <1>51, <1>61, Zenon

(* The workload ends wherever it is.                                       *)
LEMMA EndPreserves == IInv /\ End => IInv'
<1>. SUFFICES ASSUME IInv, End PROVE IInv'
  OBVIOUS
<1>. USE MailboxAssumption, NoRecordType
       DEF IInv, TypeOK, ProcessorPart, LatePart, CommitPart, WaitPart, CallPart, Whole,
           AllConverted, Asked, Converted, ChunkType, headerVars, memoryVars, processorVars,
           requestVars, commandVars
<1>11. TypeOK'
  BY Zenon DEF End
<1>21. ProcessorPart'
  BY Zenon DEF End
<1>31. LatePart'
  BY Zenon DEF End
<1>41. CommitPart'
  BY Zenon DEF End
<1>51. WaitPart'
  BY Zenon DEF End
<1>61. CallPart'
  BY Zenon DEF End
<1>. QED  BY <1>11, <1>21, <1>31, <1>41, <1>51, <1>61, Zenon

(* The workload's step Poll.                                               *)
LEMMA PollPreserves == IInv /\ (Process /\ Poll) => IInv'
<1>. SUFFICES ASSUME IInv, Process, Poll PROVE IInv'
  OBVIOUS
<1>. USE MailboxAssumption, NoRecordType
       DEF IInv, TypeOK, ProcessorPart, LatePart, CommitPart, WaitPart, CallPart, Whole,
           AllConverted, Asked, Converted, ChunkType, headerVars, memoryVars, processorVars,
           requestVars, commandVars
<1>11. TypeOK'
  BY SMTT(30) DEF Process, Poll
<1>21. ProcessorPart'
  BY DEF Process, Poll
<1>31. LatePart'
  BY Zenon DEF Process, Poll
<1>41. CommitPart'
  BY Zenon DEF Process, Poll
<1>51. WaitPart'
  BY Zenon DEF Process, Poll
<1>61. CallPart'
  BY Zenon DEF Process, Poll
<1>. QED  BY <1>11, <1>21, <1>31, <1>41, <1>51, <1>61, Zenon

(* The workload's step Convert.                                            *)
LEMMA ConvertPreserves == IInv /\ (Process /\ Convert) => IInv'
<1>. SUFFICES ASSUME IInv, Process, Convert PROVE IInv'
  OBVIOUS
<1>. USE MailboxAssumption, NoRecordType
       DEF IInv, TypeOK, ProcessorPart, LatePart, CommitPart, WaitPart, CallPart, Whole,
           AllConverted, Asked, Converted, ChunkType, headerVars, memoryVars, processorVars,
           requestVars, commandVars
<1>11. TypeOK'
  BY SMTT(30) DEF Process, Convert
<1>21. ProcessorPart'
  BY DEF Process, Convert
<1>31. LatePart'
  BY Zenon DEF Process, Convert
<1>41. CommitPart'
  BY Zenon DEF Process, Convert
<1>51. WaitPart'
  BY Zenon DEF Process, Convert
<1>61. CallPart'
  BY Zenon DEF Process, Convert
<1>. QED  BY <1>11, <1>21, <1>31, <1>41, <1>51, <1>61, Zenon

(* The workload's step PublishStatus.                                      *)
LEMMA PublishStatusPreserves == IInv /\ (Process /\ PublishStatus) => IInv'
<1>. SUFFICES ASSUME IInv, Process, PublishStatus PROVE IInv'
  OBVIOUS
<1>. USE MailboxAssumption, NoRecordType
       DEF IInv, TypeOK, ProcessorPart, LatePart, CommitPart, WaitPart, CallPart, Whole,
           AllConverted, Asked, Converted, ChunkType, headerVars, memoryVars, processorVars,
           requestVars, commandVars
<1>11. TypeOK'
  BY Zenon DEF Process, PublishStatus
<1>21. ProcessorPart'
  BY DEF Process, PublishStatus
<1>31. LatePart'
  BY Zenon DEF Process, PublishStatus
<1>41. CommitPart'
  BY Zenon DEF Process, PublishStatus
<1>51. WaitPart'
  BY Zenon DEF Process, PublishStatus
<1>61. CallPart'
  BY Zenon DEF Process, PublishStatus
<1>. QED  BY <1>11, <1>21, <1>31, <1>41, <1>51, <1>61, Zenon

(* The workload's step PublishOwner.                                       *)
LEMMA PublishOwnerPreserves == IInv /\ (Process /\ PublishOwner) => IInv'
<1>. SUFFICES ASSUME IInv, Process, PublishOwner PROVE IInv'
  OBVIOUS
<1>. USE MailboxAssumption, NoRecordType
       DEF IInv, TypeOK, ProcessorPart, LatePart, CommitPart, WaitPart, CallPart, Whole,
           AllConverted, Asked, Converted, ChunkType, headerVars, memoryVars, processorVars,
           requestVars, commandVars
<1>11. TypeOK'
  BY Zenon DEF Process, PublishOwner
<1>21. ProcessorPart'
  BY Zenon DEF Process, PublishOwner
<1>31. LatePart'
  BY Zenon DEF Process, PublishOwner
<1>41. CommitPart'
  BY Zenon DEF Process, PublishOwner
<1>51. WaitPart'
  BY Zenon DEF Process, PublishOwner
<1>61. CallPart'
  BY Zenon DEF Process, PublishOwner
<1>. QED  BY <1>11, <1>21, <1>31, <1>41, <1>51, <1>61, Zenon

(* A chunk written while no command runs.                                  *)
LEMMA LateChunkKeeps ==
  ASSUME IInv, UNCHANGED <<running, runs, processorVars>>, host = "idle", UNCHANGED commandVars, WriteAllowed, late' \in {late, NoRecord},
         late = NoRecord \/ late.part = "data", NEW i \in 1 .. Chunks, NEW c \in Nat, WriteChunk(i, c)
  PROVE  IInv'
<1>. USE MailboxAssumption, NoRecordType
       DEF IInv, TypeOK, ProcessorPart, LatePart, CommitPart, WaitPart, CallPart, Whole,
           AllConverted, Asked, Converted, ChunkType, headerVars, memoryVars, processorVars,
           requestVars, commandVars
<1>11. TypeOK'
  BY Zenon DEF WriteChunk, WriteAllowed
<1>21. ProcessorPart'
  BY Zenon DEF WriteChunk, WriteAllowed
<1>31. LatePart'
  BY SMTT(30) DEF WriteChunk, WriteAllowed
<1>41. CommitPart'
  BY Zenon DEF WriteChunk, WriteAllowed
<1>51. WaitPart'
  BY Zenon DEF WriteChunk, WriteAllowed
<1>61. CallPart'
  BY Zenon DEF WriteChunk, WriteAllowed
<1>. QED  BY <1>11, <1>21, <1>31, <1>41, <1>51, <1>61, Zenon

(* A header written after its command ended.                               *)
LEMMA LateHeaderKeeps ==
  ASSUME IInv, UNCHANGED <<running, runs, processorVars>>, host = "idle", UNCHANGED commandVars, WriteAllowed, late' = NoRecord, late.part = "header", WriteHeader(late.number, late.generation, late.call)
  PROVE  IInv'
<1>. USE MailboxAssumption, NoRecordType
       DEF IInv, TypeOK, ProcessorPart, LatePart, CommitPart, WaitPart, CallPart, Whole,
           AllConverted, Asked, Converted, ChunkType, headerVars, memoryVars, processorVars,
           requestVars, commandVars
<1>11. TypeOK'
  BY Zenon DEF WriteHeader, WriteAllowed, RecordType
<1>21. ProcessorPart'
  BY Zenon DEF WriteHeader, WriteAllowed, RecordType
<1>31. LatePart'
  BY Zenon DEF WriteHeader, WriteAllowed, RecordType
<1>41. CommitPart'
  BY Zenon DEF WriteHeader, WriteAllowed, RecordType
<1>51. WaitPart'
  BY Zenon DEF WriteHeader, WriteAllowed, RecordType
<1>61. CallPart'
  BY Zenon DEF WriteHeader, WriteAllowed, RecordType
<1>. QED  BY <1>11, <1>21, <1>31, <1>41, <1>51, <1>61, Zenon

(* The owner word written after its command ended.                         *)
LEMMA LateOwnerKeeps ==
  ASSUME IInv, UNCHANGED <<running, runs, processorVars>>, host = "idle", UNCHANGED commandVars, WriteAllowed, late' = NoRecord, late.part = "owner", WriteOwner
  PROVE  IInv'
<1>. USE MailboxAssumption, NoRecordType
       DEF IInv, TypeOK, ProcessorPart, LatePart, CommitPart, WaitPart, CallPart, Whole,
           AllConverted, Asked, Converted, ChunkType, headerVars, memoryVars, processorVars,
           requestVars, commandVars
<1>11. TypeOK'
  BY Zenon DEF WriteOwner, WriteAllowed
<1>21. ProcessorPart'
  BY Zenon DEF WriteOwner, WriteAllowed
<1>31. LatePart'
  BY Zenon DEF WriteOwner, WriteAllowed
<1>41. CommitPart'
  BY Zenon DEF WriteOwner, WriteAllowed
<1>51. WaitPart'
  BY Zenon DEF WriteOwner, WriteAllowed
<1>61. CallPart'
  BY Zenon DEF WriteOwner, WriteAllowed
<1>. QED  BY <1>11, <1>21, <1>31, <1>41, <1>51, <1>61, Zenon

(* A write that was refused.                                               *)
LEMMA RefusedKeeps ==
  ASSUME IInv, UNCHANGED <<running, runs, processorVars>>, host = "idle", UNCHANGED commandVars, late' = NoRecord, UNCHANGED memoryVars
  PROVE  IInv'
<1>. USE MailboxAssumption, NoRecordType
       DEF IInv, TypeOK, ProcessorPart, LatePart, CommitPart, WaitPart, CallPart, Whole,
           AllConverted, Asked, Converted, ChunkType, headerVars, memoryVars, processorVars,
           requestVars, commandVars
<1>11. TypeOK'
  BY Zenon DEF NoRecord, Record
<1>21. ProcessorPart'
  BY Zenon DEF NoRecord, Record
<1>31. LatePart'
  BY Zenon DEF NoRecord, Record
<1>41. CommitPart'
  BY Zenon DEF NoRecord, Record
<1>51. WaitPart'
  BY Zenon DEF NoRecord, Record
<1>61. CallPart'
  BY Zenon DEF NoRecord, Record
<1>. QED  BY <1>11, <1>21, <1>31, <1>41, <1>51, <1>61, Zenon

(* A record in the slot is carried out.                                    *)
LEMMA ExecuteLatePreserves == IInv /\ ExecuteLate => IInv'
<1>. SUFFICES ASSUME IInv, ExecuteLate PROVE IInv'
  OBVIOUS
<1>1. /\ UNCHANGED <<running, runs, processorVars>> /\ UNCHANGED commandVars
      /\ late' = NoRecord /\ host = "idle" /\ HandleWrite(late)
  BY Zenon DEF ExecuteLate, IInv, LatePart
<1>2. CASE ~WriteAllowed
  BY <1>1, <1>2, RefusedKeeps, Zenon DEF HandleWrite
<1>3. CASE WriteAllowed /\ late.part = "data" /\ WriteChunk(late.number, late.call)
  <2>1. late.number \in 1 .. Chunks /\ late.call \in Nat
    BY <1>3, Zenon DEF IInv, TypeOK, RecordType
  <2>. QED  BY <1>1, <1>3, <2>1, LateChunkKeeps, Zenon
<1>4. CASE WriteAllowed /\ late.part = "header"
           /\ WriteHeader(late.number, late.generation, late.call)
  BY <1>1, <1>4, LateHeaderKeeps, Zenon
<1>5. CASE WriteAllowed /\ late.part = "owner" /\ WriteOwner
  BY <1>1, <1>5, LateOwnerKeeps, Zenon
<1>. QED  BY <1>1, <1>2, <1>3, <1>4, <1>5, Zenon DEF HandleWrite

(* "mem write" while no command runs.                                      *)
LEMMA MemWritePreserves == ASSUME IInv, NEW i \in 1 .. Chunks, MemWrite(i) PROVE IInv'
<1>. DEFINE r == Record("data", i, 0, 0)
<1>1. /\ UNCHANGED <<running, runs, processorVars>> /\ UNCHANGED commandVars
      /\ late = NoRecord /\ host = "idle"
      /\ r.part = "data" /\ r.number = i /\ r.call = 0
  BY Zenon DEF MemWrite, Record
<1>2. CASE HandleWrite(r) /\ UNCHANGED late /\ WriteAllowed
  <2>1. WriteChunk(i, 0)
    BY <1>1, <1>2, Zenon DEF HandleWrite
  <2>. QED  BY <1>1, <1>2, <2>1, LateChunkKeeps, Zenon
<1>3. CASE HandleWrite(r) /\ UNCHANGED late /\ ~WriteAllowed
  BY <1>1, <1>3, RefusedKeeps, Zenon DEF HandleWrite
<1>4. CASE late' = r /\ UNCHANGED memoryVars
  <2>1. late' \in RecordType /\ late'.part = "data" /\ late'.number = i
    BY <1>1, <1>4, MailboxAssumption DEF Record, RecordType
  <2>. USE MailboxAssumption, NoRecordType
         DEF IInv, TypeOK, ProcessorPart, LatePart, CommitPart, WaitPart, CallPart, Whole,
             AllConverted, Asked, Converted, ChunkType, headerVars, memoryVars, processorVars,
             requestVars, commandVars
  <2>11. TypeOK'
    BY <1>1, <1>4, <2>1, Zenon DEF NoRecord
  <2>21. ProcessorPart'
    BY <1>1, <1>4, <2>1, Zenon DEF NoRecord
  <2>31. LatePart'
    BY <1>1, <1>4, <2>1, Zenon DEF NoRecord
  <2>41. CommitPart'
    BY <1>1, <1>4, <2>1, Zenon DEF NoRecord
  <2>51. WaitPart'
    BY <1>1, <1>4, <2>1, Zenon DEF NoRecord
  <2>61. CallPart'
    BY <1>1, <1>4, <2>1, Zenon DEF NoRecord
  <2>. QED  BY <2>11, <2>21, <2>31, <2>41, <2>51, <2>61, Zenon
<1>. QED  BY <1>2, <1>3, <1>4, Zenon DEF MemWrite

(* The command begins.                                                     *)
LEMMA BeginPreserves == ASSUME IInv, NEW n \in 1 .. Chunks, Begin(n) PROVE IInv'
<1>. USE MailboxAssumption, NoRecordType
       DEF IInv, TypeOK, ProcessorPart, LatePart, CommitPart, WaitPart, CallPart, Whole,
           AllConverted, Asked, Converted, ChunkType, headerVars, memoryVars, processorVars,
           requestVars, commandVars
<1>11. TypeOK'
  BY DEF Begin, NextGeneration, NoText
<1>21. ProcessorPart'
  BY Zenon DEF Begin, NextGeneration, NoText
<1>31. LatePart'
  BY Zenon DEF Begin, NextGeneration, NoText
<1>41. CommitPart'
  BY DEF Begin, NextGeneration, NoText
<1>51. WaitPart'
  BY Zenon DEF Begin, NextGeneration, NoText
<1>61. CallPart'
  BY DEF Begin, NextGeneration, NoText
<1>. QED  BY <1>11, <1>21, <1>31, <1>41, <1>51, <1>61, Zenon

(* A record of the command is carried out; the Host owns the mailbox, so   *)
(* it is never refused.                                                    *)
LEMMA SendRecordPreserves == IInv /\ SendRecord => IInv'
<1>. SUFFICES ASSUME IInv, SendRecord PROVE IInv'
  OBVIOUS
<1>1. /\ UNCHANGED <<running, runs, processorVars>> /\ host = "commit"
      /\ UNCHANGED <<late, succeeded, length, generation, calls, result, got>>
      /\ position \in 1 .. length + 2 /\ length \in 1 .. Chunks /\ WriteAllowed
  BY MailboxAssumption DEF SendRecord, Finish, requestVars, IInv, TypeOK, CommitPart, WriteAllowed
<1>2. \/ host' = (IF position = length + 2 THEN "wait" ELSE "commit")
         /\ position' = position + 1 /\ UNCHANGED call
      \/ host' = "idle" /\ call' = 0 /\ UNCHANGED position
  BY Zenon DEF SendRecord, Finish, requestVars
<1>3. HandleWrite(CommitRecord(position))
  BY Zenon DEF SendRecord
<1>4. CASE position <= length
  <2>1. WriteChunk(position, call)
    BY <1>1, <1>3, <1>4 DEF HandleWrite, CommitRecord, Record
  <2>2. \/ host' = "commit" /\ position' = position + 1 /\ UNCHANGED call
        \/ host' = "idle" /\ call' = 0 /\ UNCHANGED position
    BY <1>1, <1>2, <1>4, SMTT(30)
  <2>. USE MailboxAssumption, NoRecordType
         DEF IInv, TypeOK, ProcessorPart, LatePart, CommitPart, WaitPart, CallPart, Whole,
             AllConverted, Asked, Converted, ChunkType, headerVars, memoryVars, processorVars,
             requestVars, commandVars
  <2>11. TypeOK'
    BY <1>1, <1>4, <2>1, <2>2, SMTT(30) DEF WriteChunk
  <2>21. ProcessorPart'
    BY <1>1, <1>4, <2>1, <2>2, Zenon DEF WriteChunk
  <2>31. LatePart'
    BY <1>1, <1>4, <2>1, <2>2, Zenon DEF WriteChunk
  <2>41. CommitPart'
    BY <1>1, <1>4, <2>1, <2>2 DEF WriteChunk
  <2>51. WaitPart'
    BY <1>1, <1>4, <2>1, <2>2, Zenon DEF WriteChunk
  <2>61. CallPart'
    BY <1>1, <1>4, <2>1, <2>2, Zenon DEF WriteChunk
  <2>. QED  BY <2>11, <2>21, <2>31, <2>41, <2>51, <2>61, Zenon
<1>5. CASE position = length + 1
  <2>1. WriteHeader(length, generation, call)
    BY <1>1, <1>3, <1>5 DEF HandleWrite, CommitRecord, Record
  <2>2. \/ host' = "commit" /\ position' = position + 1 /\ UNCHANGED call
        \/ host' = "idle" /\ call' = 0 /\ UNCHANGED position
    BY <1>1, <1>2, <1>5, SMTT(30)
  <2>. USE MailboxAssumption, NoRecordType
         DEF IInv, TypeOK, ProcessorPart, LatePart, CommitPart, WaitPart, CallPart, Whole,
             AllConverted, Asked, Converted, ChunkType, headerVars, memoryVars, processorVars,
             requestVars, commandVars
  <2>11. TypeOK'
    BY <1>1, <1>5, <2>1, <2>2, SMTT(30) DEF WriteHeader
  <2>21. ProcessorPart'
    BY <1>1, <1>5, <2>1, <2>2, Zenon DEF WriteHeader
  <2>31. LatePart'
    BY <1>1, <1>5, <2>1, <2>2, Zenon DEF WriteHeader
  <2>41. CommitPart'
    BY <1>1, <1>5, <2>1, <2>2 DEF WriteHeader
  <2>51. WaitPart'
    BY <1>1, <1>5, <2>1, <2>2, Zenon DEF WriteHeader
  <2>61. CallPart'
    BY <1>1, <1>5, <2>1, <2>2, Zenon DEF WriteHeader
  <2>. QED  BY <2>11, <2>21, <2>31, <2>41, <2>51, <2>61, Zenon
<1>6. CASE position = length + 2
  <2>1. WriteOwner
    BY <1>1, <1>3, <1>6 DEF HandleWrite, CommitRecord, Record
  <2>2. \/ host' = "wait" /\ position' = position + 1 /\ UNCHANGED call
        \/ host' = "idle" /\ call' = 0 /\ UNCHANGED position
    BY <1>1, <1>2, <1>6, Zenon
  <2>. USE MailboxAssumption, NoRecordType
         DEF IInv, TypeOK, ProcessorPart, LatePart, CommitPart, WaitPart, CallPart, Whole,
             AllConverted, Asked, Converted, ChunkType, headerVars, memoryVars, processorVars,
             requestVars, commandVars
  <2>11. TypeOK'
    BY <1>1, <1>6, <2>1, <2>2, SMTT(30) DEF WriteOwner
  <2>21. ProcessorPart'
    BY <1>1, <1>6, <2>1, <2>2 DEF WriteOwner
  <2>31. LatePart'
    BY <1>1, <1>6, <2>1, <2>2, Zenon DEF WriteOwner
  <2>41. CommitPart'
    BY <1>1, <1>6, <2>1, <2>2, Zenon DEF WriteOwner
  <2>51. WaitPart'
    BY <1>1, <1>6, <2>1, <2>2 DEF WriteOwner
  <2>61. CallPart'
    BY <1>1, <1>6, <2>1, <2>2, Zenon DEF WriteOwner
  <2>. QED  BY <2>11, <2>21, <2>31, <2>41, <2>51, <2>61, Zenon
<1>. QED  BY <1>1, <1>4, <1>5, <1>6, SMTT(30)

(* A record is lost or left in the slot.                                   *)
LEMMA LoseRecordPreserves == IInv /\ LoseRecord => IInv'
<1>. SUFFICES ASSUME IInv, LoseRecord PROVE IInv'
  OBVIOUS
<1>1. position \in 1 .. length + 2 /\ length \in 1 .. Chunks
  BY MailboxAssumption DEF IInv, TypeOK, CommitPart, LoseRecord
<1>2. CASE late' = NoRecord
  <2>. USE MailboxAssumption, NoRecordType
         DEF IInv, TypeOK, ProcessorPart, LatePart, CommitPart, WaitPart, CallPart, Whole,
             AllConverted, Asked, Converted, ChunkType, headerVars, memoryVars, processorVars,
             requestVars, commandVars
  <2>11. TypeOK'
    BY <1>1, <1>2, Zenon DEF LoseRecord, Finish
  <2>21. ProcessorPart'
    BY <1>1, <1>2, Zenon DEF LoseRecord, Finish
  <2>31. LatePart'
    BY <1>1, <1>2, Zenon DEF LoseRecord, Finish
  <2>41. CommitPart'
    BY <1>1, <1>2, Zenon DEF LoseRecord, Finish
  <2>51. WaitPart'
    BY <1>1, <1>2, Zenon DEF LoseRecord, Finish
  <2>61. CallPart'
    BY <1>1, <1>2, Zenon DEF LoseRecord, Finish
  <2>. QED  BY <2>11, <2>21, <2>31, <2>41, <2>51, <2>61, Zenon
<1>3. CASE late' = CommitRecord(position) /\ position <= length
  <2>1. late' = Record("data", position, 0, call)
    BY <1>1, <1>3 DEF CommitRecord
  <2>2. late' \in RecordType /\ late' # NoRecord /\ late'.part = "data" /\ late'.number = position
    BY <1>1, <1>3, <2>1, MailboxAssumption, SMTT(30) DEF Record, NoRecord, RecordType, IInv, TypeOK
  <2>. USE MailboxAssumption, NoRecordType
         DEF IInv, TypeOK, ProcessorPart, LatePart, CommitPart, WaitPart, CallPart, Whole,
             AllConverted, Asked, Converted, ChunkType, headerVars, memoryVars, processorVars,
             requestVars, commandVars
  <2>11. TypeOK'
    BY <1>1, <1>3, <2>2, SMTT(30) DEF LoseRecord, Finish
  <2>21. ProcessorPart'
    BY <1>1, <1>3, <2>2, Zenon DEF LoseRecord, Finish
  <2>31. LatePart'
    BY <1>1, <1>3, <2>2, Zenon DEF LoseRecord, Finish
  <2>41. CommitPart'
    BY <1>1, <1>3, <2>2, Zenon DEF LoseRecord, Finish
  <2>51. WaitPart'
    BY <1>1, <1>3, <2>2, Zenon DEF LoseRecord, Finish
  <2>61. CallPart'
    BY <1>1, <1>3, <2>2, Zenon DEF LoseRecord, Finish
  <2>. QED  BY <2>11, <2>21, <2>31, <2>41, <2>51, <2>61, Zenon
<1>4. CASE late' = CommitRecord(position) /\ position = length + 1
  <2>1. late' = Record("header", length, generation, call)
    BY <1>1, <1>4 DEF CommitRecord
  <2>2. late' \in RecordType /\ late' # NoRecord /\ late'.part = "header" /\ late'.number = length
    BY <1>1, <2>1, MailboxAssumption, Zenon DEF Record, NoRecord, RecordType, IInv, TypeOK
  <2>. USE MailboxAssumption, NoRecordType
         DEF IInv, TypeOK, ProcessorPart, LatePart, CommitPart, WaitPart, CallPart, Whole,
             AllConverted, Asked, Converted, ChunkType, headerVars, memoryVars, processorVars,
             requestVars, commandVars
  <2>11. TypeOK'
    BY <1>1, <1>4, <2>2, Zenon DEF LoseRecord, Finish
  <2>21. ProcessorPart'
    BY <1>1, <1>4, <2>2, Zenon DEF LoseRecord, Finish
  <2>31. LatePart'
    BY <1>1, <1>4, <2>2, Zenon DEF LoseRecord, Finish
  <2>41. CommitPart'
    BY <1>1, <1>4, <2>2, Zenon DEF LoseRecord, Finish
  <2>51. WaitPart'
    BY <1>1, <1>4, <2>2, Zenon DEF LoseRecord, Finish
  <2>61. CallPart'
    BY <1>1, <1>4, <2>2, Zenon DEF LoseRecord, Finish
  <2>. QED  BY <2>11, <2>21, <2>31, <2>41, <2>51, <2>61, Zenon
<1>5. CASE late' = CommitRecord(position) /\ position = length + 2
  <2>1. late' = Record("owner", 0, 0, 0)
    BY <1>1, <1>5 DEF CommitRecord
  <2>2. late' \in RecordType /\ late' # NoRecord /\ late'.part = "owner" /\ late'.number = 0
    BY <1>1, <2>1, MailboxAssumption DEF Record, NoRecord, RecordType, IInv, TypeOK
  <2>. USE MailboxAssumption, NoRecordType
         DEF IInv, TypeOK, ProcessorPart, LatePart, CommitPart, WaitPart, CallPart, Whole,
             AllConverted, Asked, Converted, ChunkType, headerVars, memoryVars, processorVars,
             requestVars, commandVars
  <2>11. TypeOK'
    BY <1>1, <1>5, <2>2, Zenon DEF LoseRecord, Finish
  <2>21. ProcessorPart'
    BY <1>1, <1>5, <2>2, Zenon DEF LoseRecord, Finish
  <2>31. LatePart'
    BY <1>1, <1>5, <2>2 DEF LoseRecord, Finish
  <2>41. CommitPart'
    BY <1>1, <1>5, <2>2, Zenon DEF LoseRecord, Finish
  <2>51. WaitPart'
    BY <1>1, <1>5, <2>2, Zenon DEF LoseRecord, Finish
  <2>61. CallPart'
    BY <1>1, <1>5, <2>2, Zenon DEF LoseRecord, Finish
  <2>. QED  BY <2>11, <2>21, <2>31, <2>41, <2>51, <2>61, Zenon
<1>. QED  BY <1>1, <1>2, <1>3, <1>4, <1>5 DEF LoseRecord

(* The poll finds the mailbox handed back.                                 *)
LEMMA ReadHeaderPreserves == IInv /\ ReadHeader => IInv'
<1>. SUFFICES ASSUME IInv, ReadHeader PROVE IInv'
  OBVIOUS
<1>. USE MailboxAssumption, NoRecordType
       DEF IInv, TypeOK, ProcessorPart, LatePart, CommitPart, WaitPart, CallPart, Whole,
           AllConverted, Asked, Converted, ChunkType, headerVars, memoryVars, processorVars,
           requestVars, commandVars
<1>11. TypeOK'
  BY Zenon DEF ReadHeader, Answered, Finish
<1>21. ProcessorPart'
  BY Zenon DEF ReadHeader, Answered, Finish
<1>31. LatePart'
  BY Zenon DEF ReadHeader, Answered, Finish
<1>41. CommitPart'
  BY Zenon DEF ReadHeader, Answered, Finish
<1>51. WaitPart'
  BY SMTT(30) DEF ReadHeader, Answered, Finish
<1>61. CallPart'
  BY SMTT(30) DEF ReadHeader, Answered, Finish
<1>. QED  BY <1>11, <1>21, <1>31, <1>41, <1>51, <1>61, Zenon

(* A chunk of the response is read.                                        *)
LEMMA ReadResultPreserves == IInv /\ ReadResult => IInv'
<1>. SUFFICES ASSUME IInv, ReadResult PROVE IInv'
  OBVIOUS
<1>. USE MailboxAssumption, NoRecordType
       DEF IInv, TypeOK, ProcessorPart, LatePart, CommitPart, WaitPart, CallPart, Whole,
           AllConverted, Asked, Converted, ChunkType, headerVars, memoryVars, processorVars,
           requestVars, commandVars
<1>11. TypeOK'
  BY DEF ReadResult
<1>21. ProcessorPart'
  BY Zenon DEF ReadResult
<1>31. LatePart'
  BY Zenon DEF ReadResult
<1>41. CommitPart'
  BY Zenon DEF ReadResult
<1>51. WaitPart'
  BY DEF ReadResult
<1>61. CallPart'
  BY Zenon DEF ReadResult
<1>. QED  BY <1>11, <1>21, <1>31, <1>41, <1>51, <1>61, Zenon

(* The deadline passes.                                                    *)
LEMMA GiveUpPreserves == IInv /\ GiveUp => IInv'
<1>. SUFFICES ASSUME IInv, GiveUp PROVE IInv'
  OBVIOUS
<1>. USE MailboxAssumption, NoRecordType
       DEF IInv, TypeOK, ProcessorPart, LatePart, CommitPart, WaitPart, CallPart, Whole,
           AllConverted, Asked, Converted, ChunkType, headerVars, memoryVars, processorVars,
           requestVars, commandVars
<1>11. TypeOK'
  BY Zenon DEF GiveUp, Finish
<1>21. ProcessorPart'
  BY Zenon DEF GiveUp, Finish
<1>31. LatePart'
  BY Zenon DEF GiveUp, Finish
<1>41. CommitPart'
  BY Zenon DEF GiveUp, Finish
<1>51. WaitPart'
  BY Zenon DEF GiveUp, Finish
<1>61. CallPart'
  BY SMTT(30) DEF GiveUp, Finish
<1>. QED  BY <1>11, <1>21, <1>31, <1>41, <1>51, <1>61, Zenon

(* Nothing changes.                                                        *)
LEMMA StutterPreserves == IInv /\ UNCHANGED vars => IInv'
<1>. SUFFICES ASSUME IInv, UNCHANGED vars PROVE IInv'
  OBVIOUS
<1>. USE MailboxAssumption, NoRecordType
       DEF IInv, TypeOK, ProcessorPart, LatePart, CommitPart, WaitPart, CallPart, Whole,
           AllConverted, Asked, Converted, ChunkType, headerVars, memoryVars, processorVars,
           requestVars, commandVars
<1>11. TypeOK'
  BY Zenon DEF vars
<1>21. ProcessorPart'
  BY Zenon DEF vars
<1>31. LatePart'
  BY SMTT(30) DEF vars
<1>41. CommitPart'
  BY Zenon DEF vars
<1>51. WaitPart'
  BY Zenon DEF vars
<1>61. CallPart'
  BY Zenon DEF vars
<1>. QED  BY <1>11, <1>21, <1>31, <1>41, <1>51, <1>61, Zenon

LEMMA StepPreserves == IInv /\ [Next]_vars => IInv'
  BY Zenon, StartPreserves, EndPreserves, PollPreserves, ConvertPreserves, PublishStatusPreserves,
     PublishOwnerPreserves, ExecuteLatePreserves, MemWritePreserves, BeginPreserves,
     SendRecordPreserves, LoseRecordPreserves, ReadHeaderPreserves, ReadResultPreserves,
     GiveUpPreserves, StutterPreserves
  DEF Next, Process

(* The inductive invariant holds in every state.                           *)
THEOREM Invariance == Spec => []IInv
  BY InitEstablishes, StepPreserves, PTL DEF Spec

(* What the processor finds when it polls is one whole request, for every  *)
(* number of chunks and every pattern of lost and late memory requests.    *)
THEOREM WholeRequests == Spec => []RequestIsWhole
<1>1. IInv => RequestIsWhole
  BY Zenon DEF IInv, ProcessorPart, Whole, RequestIsWhole
<1>. QED  BY <1>1, Invariance, PTL

(* No step of the Host changes the data while the workload works on it.    *)
THEOREM HostStaysOut == Spec => NoConcurrentWrites
<1>1. IInv /\ [Next]_vars =>
        [data' # data /\ running /\ processor # "poll" => index' = index + 1]_vars
  <2>. SUFFICES ASSUME IInv, Next, running, processor # "poll", data' # data
                PROVE  index' = index + 1
    BY Zenon DEF vars, memoryVars, processorVars
  <2>1. ~WriteAllowed
    BY Zenon DEF IInv, ProcessorPart, WriteAllowed, TypeOK
  <2>2. CASE Process
    BY <2>2, Zenon DEF Process, Poll, Convert, PublishStatus, PublishOwner
  <2>3. CASE ExecuteLate \/ SendRecord \/ \E i \in 1 .. Chunks : MemWrite(i)
    BY <2>1, <2>3, Zenon DEF ExecuteLate, SendRecord, MemWrite, HandleWrite, memoryVars
  <2>. QED
    BY <2>2, <2>3, Zenon DEF Next, Start, End, Begin, LoseRecord, ReadHeader, ReadResult, GiveUp, memoryVars
<1>. QED  BY <1>1, Invariance, PTL DEF Spec, NoConcurrentWrites

(* PASS is reported with the processor's answer to this request.           *)
THEOREM PassIsRight == Spec => PassIsTheAnswer
<1>1. IInv /\ [Next]_vars =>
        [succeeded' # succeeded =>
           /\ got' = length
           /\ \A i \in 1 .. length : result'[i] = Converted(Asked(call))]_vars
  <2>. SUFFICES ASSUME IInv, Next, succeeded' # succeeded
                PROVE  /\ got' = length
                       /\ \A i \in 1 .. length : result'[i] = Converted(Asked(call))
    BY Zenon DEF vars, commandVars
  <2>1. ReadResult /\ got + 1 = response
    BY Zenon DEF Next, Start, End, Process, ExecuteLate, Begin, SendRecord, LoseRecord, ReadHeader,
           ReadResult, GiveUp, MemWrite, commandVars
  <2>2. /\ got \in Nat /\ length \in Nat /\ length <= Chunks /\ got + 1 = length
        /\ result \in [1 .. Chunks -> ChunkType]
        /\ \A i \in 1 .. got : result[i] = Converted(Asked(call))
        /\ data[got + 1] = Converted(Asked(call))
    BY <2>1, MailboxAssumption DEF IInv, TypeOK, WaitPart, AllConverted, ReadResult
  <2>. QED  BY <2>1, <2>2, MailboxAssumption DEF ReadResult
<1>. QED  BY <1>1, Invariance, PTL DEF Spec, PassIsTheAnswer

(* The mailbox implements the calls of module Rpc: its steps are steps of  *)
(* a caller that is told of success only when the processor answered.      *)
THEOREM Refinement == Spec => Calls!Safety
<1>1. Init => Calls!Init
  BY Zenon DEF Init, Calls!Init
<1>2. IInv /\ [Next]_vars => [Calls!Next]_(Calls!rpcVars)
  <2>. SUFFICES ASSUME IInv, [Next]_vars PROVE [Calls!Next]_(Calls!rpcVars)
    OBVIOUS
  <2>. USE DEF Calls!Next, Calls!rpcVars, IInv, CallPart, TypeOK
  <2>1. CASE \E n \in 1 .. Chunks : Begin(n)
    BY <2>1, Zenon DEF Begin, Calls!Call, processorVars
  <2>2. CASE Process
    <3>1. CASE UNCHANGED executed
      BY <2>2, <3>1, Zenon DEF Process, commandVars, requestVars
    <3>2. CASE executed' # executed
      <4>1. executed' = executed \cup {subject} /\ subject \in 1 .. calls /\ subject \notin executed
        BY <2>2, <3>2, Zenon DEF Process, Poll, Convert, PublishStatus, PublishOwner, ProcessorPart
      <4>. QED  BY <2>2, <4>1, Zenon DEF Process, commandVars, requestVars, Calls!Execute
    <3>. QED  BY <3>1, <3>2, Zenon
  <2>3. CASE ReadResult
    <3>1. call \in executed /\ call # 0
      BY <2>3 DEF ReadResult, WaitPart
    <3>. QED  BY <2>3, <3>1, Zenon DEF ReadResult, Calls!Succeed, processorVars
  <2>4. CASE SendRecord \/ LoseRecord \/ ReadHeader \/ GiveUp
    <3>1. call # 0
      BY <2>4 DEF SendRecord, LoseRecord, ReadHeader, GiveUp
    <3>. QED
      BY <2>4, <3>1, Zenon DEF SendRecord, LoseRecord, ReadHeader, GiveUp, Finish, Calls!Fail,
                        processorVars, requestVars
  <2>5. CASE Start \/ End \/ ExecuteLate \/ (\E i \in 1 .. Chunks : MemWrite(i)) \/ UNCHANGED vars
    BY <2>5, Zenon DEF Start, End, ExecuteLate, MemWrite, vars, processorVars, commandVars, requestVars
  <2>. QED  BY <2>1, <2>2, <2>3, <2>4, <2>5, Zenon DEF Next
<1>. QED  BY <1>1, <1>2, Invariance, PTL DEF Spec, Calls!Safety
=============================================================================
