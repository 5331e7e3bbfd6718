---------------------------- MODULE FlashListing ----------------------------
(***************************************************************************)
(* "ls flash:/": the Host asks for one directory entry at a time and names *)
(* it by its number (service_client.py, read_directory); the firmware      *)
(* walks the directory from its start for every request (flash_service.c,  *)
(* handle_list).  Between two requests the uploads of another shell change *)
(* the directory: BEGIN creates the upload file, COMMIT removes the target *)
(* and gives the upload file its name.                                     *)
(*                                                                         *)
(* The places are those of FatFs (ff.c): a new name takes the first free   *)
(* place of the root directory, which does not grow, and a rename          *)
(* registers the new name before it removes the old one.  The names have   *)
(* the 8.3 form, for which dir_register allocates a single entry.          *)
(***************************************************************************)
EXTENDS Naturals, Sequences, FiniteSets

CONSTANTS
    Names,      \* the files
    Upload,     \* "PI86UPLD.TMP"
    Free,       \* a place of the directory that is not in use
    Places,     \* how many places the directory has
    MaxChanges, \* bound on the records of the other shell
    MaxListings \* bound on the listings

ASSUME ListingAssumption ==
    /\ Places \in Nat \ {0} /\ MaxChanges \in Nat /\ MaxListings \in Nat
    /\ Upload \notin Names /\ Free \notin Names \cup {Upload}

VARIABLES
    directory,  \* the places of the directory
    listing,    \* the listing: "idle", "asking", "listed" or "failed"
    cursor,     \* the number of the next entry
    entries,    \* the entries received
    replaced,   \* history: a COMMIT changed the directory during the listing
    changes, listings

listingVars == <<directory, listing, cursor, entries, replaced, changes, listings>>
lister == <<listing, cursor, entries, listings>>

\* Definitions named X_Y are X with the fault Y planted in it; no module uses them.

\* What ff.c does: dir_alloc, dir_remove and dir_register.
InUse(d) == {p \in DOMAIN d : d[p] # Free}
FirstFree(d) == CHOOSE p \in DOMAIN d : d[p] = Free /\ \A q \in 1 .. p - 1 : d[q] # Free
Remove(d, name) == [p \in DOMAIN d |-> IF d[p] = name THEN Free ELSE d[p]]
Register(d, name) == [d EXCEPT ![FirstFree(d)] = name]
HasRoom(d) == InUse(d) # DOMAIN d
Holds(d, name) == \E p \in DOMAIN d : d[p] = name

ListingInit ==
    /\ directory = [p \in 1 .. Places |-> Free]
    /\ listing = "idle" /\ cursor = 0 /\ entries = <<>> /\ replaced = FALSE
    /\ changes = 0 /\ listings = 0

-----------------------------------------------------------------------------
(* The entries that handle_list counts.                                    *)
IsVisible_WithUpload(name) == name # Free
IsVisible(name) == name # Free /\ name # Upload

(* The places it counts, and the number of the entry at one of them.       *)
Visible(d) == {p \in DOMAIN d : IsVisible(d[p])}
Number(d, p) == Cardinality({q \in Visible(d) : q < p})

StartListing ==
    /\ listing # "asking" /\ listings < MaxListings
    /\ listing' = "asking" /\ cursor' = 0 /\ entries' = <<>> /\ replaced' = FALSE
    /\ listings' = listings + 1
    /\ UNCHANGED <<directory, changes>>

(* One request and its reply: an entry, or the end of the directory.       *)
ReadEntry ==
    /\ listing = "asking"
    /\ \/ \E p \in Visible(directory) :
             /\ Number(directory, p) = cursor
             /\ entries' = Append(entries, directory[p])
             /\ cursor' = cursor + 1 /\ UNCHANGED listing
       \/ /\ \A p \in Visible(directory) : Number(directory, p) # cursor
          /\ listing' = "listed" /\ UNCHANGED <<entries, cursor>>
    /\ UNCHANGED <<directory, replaced, changes, listings>>

(* No reply, or one that reports an error: the entries are thrown away.    *)
RequestFails ==
    /\ listing = "asking"
    /\ listing' = "failed"
    /\ UNCHANGED <<directory, cursor, entries, replaced, changes, listings>>

-----------------------------------------------------------------------------
(* BEGIN drops an upload that was left and creates the upload file.        *)
OtherBegin ==
    /\ changes < MaxChanges /\ changes' = changes + 1
    /\ LET dropped == Remove(directory, Upload)
       IN  directory' = IF HasRoom(dropped) THEN Register(dropped, Upload) ELSE dropped
    /\ UNCHANGED <<lister, replaced>>

(* abort_upload.                                                           *)
OtherAborts ==
    /\ changes < MaxChanges /\ changes' = changes + 1
    /\ Holds(directory, Upload)
    /\ directory' = Remove(directory, Upload)
    /\ UNCHANGED <<lister, replaced>>

(* COMMIT: unlink the target, then rename; when a rename fails for want of *)
(* room the upload file is removed.                                        *)
OtherCommit(name) ==
    /\ changes < MaxChanges /\ changes' = changes + 1
    /\ Holds(directory, Upload)
    /\ LET unlinked == Remove(directory, name)
       IN  directory' = Remove(IF HasRoom(unlinked) THEN Register(unlinked, name)
                                                    ELSE unlinked, Upload)
    /\ replaced' = TRUE
    /\ UNCHANGED lister

Stop == listing # "asking" /\ changes = MaxChanges /\ listings = MaxListings /\ UNCHANGED listingVars

ListingNext ==
    \/ StartListing \/ ReadEntry \/ RequestFails
    \/ OtherBegin \/ OtherAborts \/ (\E name \in Names : OtherCommit(name))
    \/ Stop

ListingSpec == ListingInit /\ [][ListingNext]_listingVars

-----------------------------------------------------------------------------
(* Uploads that begin or are dropped while "ls" runs do not disturb it:    *)
(* unless a COMMIT came in between, the listing holds every file of the    *)
(* directory exactly once.                                                 *)
ListingIsExact ==
    listing = "listed" /\ ~replaced =>
        /\ {entries[i] : i \in DOMAIN entries} = {directory[p] : p \in DOMAIN directory} \cap Names
        /\ \A i, j \in DOMAIN entries : entries[i] = entries[j] => i = j
=============================================================================
