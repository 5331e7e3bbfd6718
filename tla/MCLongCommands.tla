--------------------------- MODULE MCLongCommands ---------------------------
(***************************************************************************)
(* The packages of the run of LongCommands.  For the transfer three images *)
(* at two places, one that meets the mailbox and two that were cut; for    *)
(* the checks of a manifest every load address and size up to and beyond   *)
(* the address space, shared ranges at the edges and every set of flags.   *)
(***************************************************************************)
EXTENDS LongCommands

Manifest(load, stated, bytes, entry, stack, base, length, flags) ==
    [size |-> stated, crc |-> bytes, load |-> load,
     entry |-> <<entry \div Paragraph, entry % Paragraph>>, stack |-> stack,
     shared_base |-> base, shared_size |-> length, flags |-> flags]
Package(load, bytes) ==
    [manifest |-> Manifest(load, Len(bytes), bytes, load, <<0, 0>>, 0, 0, {"STDIO"}),
     image |-> bytes]

Images == {<<"a", "b">>, <<"a", "b", "a">>, <<"b", "b", "a">>}
Plain == Package(0, <<"a", "b">>)
Truncated == {[manifest |-> Plain.manifest, image |-> bytes] : bytes \in {<<"a">>, <<"b", "a">>}}
Loaded ==
    {Package(place, bytes) : place \in {0, 1}, bytes \in Images}
        \cup {Package(MailboxBase - 1, <<"a", "b">>)} \cup Truncated

Filled(n) == [i \in 1 .. n |-> "a"]
Bound(load, length, entry) ==
    [manifest |-> Manifest(load, length, Filled(length), entry, <<0, 0>>, 0, 0, {"STDIO"}),
     image |-> Filled(length)]
Bounds ==
    {Bound(load, length, entry) :
        load \in 0 .. Space + 1 \cup {Word - 1}, length \in 0 .. Space + 2 \cup {Word - 3},
        entry \in {0, 3, Space - 1}}
Variant(flags, base, length, stack) ==
    [manifest |-> Manifest(0, 2, <<"a", "b">>, 0, stack, base, length, flags),
     image |-> <<"a", "b">>]
Variants ==
    {Variant(flags, base, length, <<segment, offset>>) :
        flags \in SUBSET {"SHARED", "FREE_RUNNING", "STEPPED", "TICK", "OTHER"},
        base \in {0, 1, Backing - 1, Space}, length \in {0, 1, Backing, Word - 1},
        segment \in {0, 1, Backing \div Paragraph}, offset \in {0, 1, Paragraph - 1}}
Compared == Bounds \cup Variants \cup Truncated
=============================================================================
