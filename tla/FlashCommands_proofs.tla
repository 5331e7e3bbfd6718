------------------------ MODULE FlashCommands_proofs ------------------------
(***************************************************************************)
(* What the commands on the files in flash show and leave behind, for any  *)
(* number of shells, puts, chunks and files: an ls names every file once,  *)
(* a file is never torn, a put that passes is stored, and a cat never      *)
(* joins two sizes.                                                        *)
(***************************************************************************)
EXTENDS FlashCommands, FiniteSetTheorems, WellFoundedInduction, TLAPS

(***************************************************************************)
(* Listing the directory.                                                  *)
(*                                                                         *)
(* A set of naturals has a least member, and a set of numbers up to n a    *)
(* greatest one.                                                           *)
(***************************************************************************)
LEMMA LeastPlace == \A S \in SUBSET Nat : S # {} => \E p \in S : \A q \in S : p <= q
<1> SUFFICES ASSUME NEW S \in SUBSET Nat, S # {} PROVE \E p \in S : \A q \in S : p <= q
  OBVIOUS
<1>1. PICK p \in S : \A q \in S : <<q, p>> \notin OpToRel(<, Nat)
  BY NatLessThanWellFounded, WFMin, Zenon
<1>2. \A q \in S : ~(q < p)
  BY <1>1, Zenon DEF OpToRel
<1> QED BY <1>2

LEMMA LastPlace ==
    \A n \in Nat : \A S \in SUBSET (1 .. n) : S # {} => \E p \in S : \A q \in S : p >= q
<1> SUFFICES ASSUME NEW n \in Nat, NEW S \in SUBSET (1 .. n), S # {}
             PROVE  \E p \in S : \A q \in S : p >= q
  BY Zenon
<1> DEFINE Distances == {n - p : p \in S}
<1>1. \A p \in S : n - p \in Nat
  OBVIOUS
<1>2. PICK d \in Distances : \A e \in Distances : d <= e
  <2>1. Distances \in SUBSET Nat /\ Distances # {}
    BY <1>1, Zenon
  <2> QED BY <2>1, LeastPlace, Zenon
<1>3. PICK p \in S : d = n - p
  BY <1>2, Zenon
<1>4. \A q \in S : n - p <= n - q
  BY <1>2, <1>3, Zenon
<1> QED BY <1>3, <1>4

Directories == [1 .. Places -> Names \cup {Upload, Free}]

(* The places that come before p in the walk of handle_list.               *)
Before(d, p) == {q \in Visible(d) : q < p}

LEMMA VisiblePlaces ==
    ASSUME NEW d \in Directories
    PROVE  /\ Places \in Nat /\ Visible(d) \subseteq 1 .. Places
           /\ \A p : IsFiniteSet(Before(d, p)) /\ Number(d, p) \in Nat
<1>1. Places \in Nat
  BY ListingAssumption, Zenon
<1>2. Visible(d) \subseteq 1 .. Places
  BY Zenon DEF Visible, Directories
<1>3. ASSUME NEW p PROVE IsFiniteSet(Before(d, p)) /\ Number(d, p) \in Nat
  <2>1. Before(d, p) \subseteq 1 .. Places
    BY <1>2, Zenon DEF Before
  <2>2. IsFiniteSet(1 .. Places)
    BY <1>1, FS_Interval
  <2>3. IsFiniteSet(Before(d, p))
    BY <2>1, <2>2, FS_Subset, Zenon
  <2> QED BY <2>3, FS_CardinalityType, Zenon DEF Number, Before
<1> QED BY <1>1, <1>2, <1>3, Zenon

(* A place that comes later has a larger number.                           *)
LEMMA NumbersGrow ==
    ASSUME NEW d \in Directories, NEW p \in Visible(d), NEW q \in Visible(d), p < q
    PROVE  Number(d, p) < Number(d, q)
<1>1. /\ IsFiniteSet(Before(d, p)) /\ IsFiniteSet(Before(d, q))
      /\ Number(d, p) \in Nat /\ Number(d, q) \in Nat
  BY VisiblePlaces, Zenon
<1>2. p \in Nat /\ q \in Nat
  BY VisiblePlaces
<1>3. p \notin Before(d, p)
  BY <1>2 DEF Before
<1>4. Before(d, p) \cup {p} \subseteq Before(d, q)
  BY <1>2, VisiblePlaces DEF Before
<1>5. Cardinality(Before(d, p) \cup {p}) = Number(d, p) + 1
  BY <1>1, <1>3, FS_AddElement, Zenon DEF Number, Before
<1>6. Cardinality(Before(d, p) \cup {p}) <= Number(d, q)
  BY <1>1, <1>4, FS_Subset, Zenon DEF Number, Before
<1> QED BY <1>1, <1>5, <1>6

(* No two places have one number.                                          *)
LEMMA NumbersDiffer ==
    ASSUME NEW d \in Directories, NEW p \in Visible(d), NEW q \in Visible(d),
           Number(d, p) = Number(d, q)
    PROVE  p = q
<1>1. p \in Nat /\ q \in Nat /\ Number(d, p) \in Nat
  BY VisiblePlaces
<1>2. ~(Number(d, p) < Number(d, q)) /\ ~(Number(d, q) < Number(d, p))
  BY <1>1
<1>3. ~(p < q) /\ ~(q < p)
  BY <1>2, NumbersGrow, Zenon
<1> QED BY <1>1, <1>3

(* The place before one with a number above 0 has the number before it.    *)
LEMMA NumbersHaveNoGap ==
    ASSUME NEW d \in Directories, NEW p \in Visible(d), Number(d, p) > 0
    PROVE  \E q \in Visible(d) : q < p /\ Number(d, q) = Number(d, p) - 1
<1>1. /\ Places \in Nat /\ Visible(d) \subseteq 1 .. Places /\ Number(d, p) \in Nat
      /\ IsFiniteSet(Before(d, p))
  BY VisiblePlaces, Zenon
<1>2. Before(d, p) # {}
  <2>1. Cardinality({}) = 0
    BY FS_EmptySet
  <2>2. Number(d, p) = Cardinality(Before(d, p))
    BY Zenon DEF Number, Before
  <2>3. Number(d, p) # 0
    BY <1>1
  <2> QED BY <2>1, <2>2, <2>3, Zenon
<1>3. PICK q \in Before(d, p) : \A r \in Before(d, p) : q >= r
  <2>1. Before(d, p) \in SUBSET (1 .. Places)
    BY <1>1, Zenon DEF Before
  <2> QED BY <1>1, <1>2, <2>1, LastPlace, Zenon
<1>4. q \in Visible(d) /\ q < p /\ q \in Nat /\ p \in Nat
  BY <1>1, <1>3 DEF Before
<1>5. Before(d, p) = Before(d, q) \cup {q}
  BY <1>1, <1>3, <1>4 DEF Before
<1>6. q \notin Before(d, q) /\ IsFiniteSet(Before(d, q)) /\ Number(d, q) \in Nat
  <2>1. q \notin Before(d, q)
    BY <1>4 DEF Before
  <2> QED BY <2>1, VisiblePlaces, Zenon
<1>7. Number(d, p) = Number(d, q) + 1
  BY <1>5, <1>6, FS_AddElement, Zenon DEF Number, Before
<1> QED BY <1>4, <1>6, <1>7

(* Where no entry has the number k, all have smaller ones.                 *)
LEMMA NumbersEnd ==
    ASSUME NEW d \in Directories, NEW k \in Nat,
           \A p \in Visible(d) : Number(d, p) # k
    PROVE  \A p \in Visible(d) : Number(d, p) < k
<1> DEFINE Beyond == {p \in Visible(d) : Number(d, p) > k}
<1>0. /\ Places \in Nat /\ Visible(d) \subseteq 1 .. Places
      /\ \A p \in Visible(d) : Number(d, p) \in Nat
  BY VisiblePlaces, Zenon
<1>1. SUFFICES ASSUME Beyond # {} PROVE FALSE
  BY <1>0
<1>2. PICK p \in Beyond : \A q \in Beyond : p <= q
  <2>1. Beyond \in SUBSET Nat
    BY <1>0
  <2> HIDE DEF Beyond
  <2> QED BY <1>1, <2>1, LeastPlace, Zenon
<1>3. p \in Visible(d) /\ Number(d, p) > k /\ Number(d, p) > 0
  BY <1>0, <1>2
<1>4. PICK q \in Visible(d) : q < p /\ Number(d, q) = Number(d, p) - 1
  BY <1>3, NumbersHaveNoGap, Zenon
<1>5. q \in Beyond
  BY <1>0, <1>3, <1>4
<1> QED BY <1>0, <1>2, <1>3, <1>4, <1>5

(***************************************************************************)
(* The invariant: a name is in the directory once, and unless a COMMIT     *)
(* fell into the listing the entries received are those with the numbers   *)
(* below the cursor, of which there are no others once the listing ended.  *)
(***************************************************************************)
ListingTypes ==
    /\ directory \in Directories
    /\ listing \in {"idle", "asking", "listed", "failed"}
    /\ cursor \in Nat /\ entries \in Seq(Names)

NamedOnce(d) ==
    \A p, q \in 1 .. Places : d[p] = d[q] /\ d[p] # Free => p = q

Received(d) ==
    /\ Len(entries) = cursor
    /\ \A i \in 1 .. cursor :
           \E p \in Visible(d) : Number(d, p) = i - 1 /\ entries[i] = d[p]

ReadSoFar ==
    ~replaced =>
        /\ listing \in {"asking", "listed"} => Received(directory)
        /\ listing = "listed" => \A p \in Visible(directory) : Number(directory, p) # cursor

ListingInv == ListingTypes /\ NamedOnce(directory) /\ ReadSoFar

(* A new name finds a free place when there is one.                        *)
LEMMA FirstFreeIsFree ==
    ASSUME NEW d \in Directories, HasRoom(d)
    PROVE  FirstFree(d) \in 1 .. Places /\ d[FirstFree(d)] = Free
<1> DEFINE Open == {p \in 1 .. Places : d[p] = Free}
<1>1. DOMAIN d = 1 .. Places
  BY Zenon DEF Directories
<1>2. Open # {}
  BY <1>1, Zenon DEF HasRoom, InUse
<1>3. PICK p \in Open : \A q \in Open : p <= q
  <2>1. Open \in SUBSET Nat
    OBVIOUS
  <2> HIDE DEF Open
  <2> QED BY <1>2, <2>1, LeastPlace, Zenon
<1>4. Places \in Nat /\ p \in 1 .. Places /\ d[p] = Free
  BY <1>3, ListingAssumption, Zenon
<1>5. \A q \in 1 .. p - 1 : d[q] # Free
  BY <1>3, <1>4
<1> QED BY <1>1, <1>4, <1>5, Zenon DEF FirstFree

(* Removing a name leaves the others in their places.                      *)
LEMMA Removes ==
    ASSUME NEW d \in Directories, NamedOnce(d), NEW name
    PROVE  /\ Remove(d, name) \in Directories /\ NamedOnce(Remove(d, name))
           /\ \A p \in 1 .. Places :
                  Remove(d, name)[p] = IF d[p] = name THEN Free ELSE d[p]
<1>1. \A p \in 1 .. Places : Remove(d, name)[p] = IF d[p] = name THEN Free ELSE d[p]
  BY Zenon DEF Remove, Directories
<1>2. Remove(d, name) \in Directories
  BY Zenon DEF Remove, Directories
<1>3. NamedOnce(Remove(d, name))
  BY <1>1, Zenon DEF NamedOnce
<1> QED BY <1>1, <1>2, <1>3, Zenon

(* A name that is not in the directory takes a place that is free.         *)
LEMMA Registers ==
    ASSUME NEW d \in Directories, NamedOnce(d), NEW name \in Names \cup {Upload},
           \A p \in 1 .. Places : d[p] # name,
           NEW e, e = IF HasRoom(d) THEN Register(d, name) ELSE d
    PROVE  /\ e \in Directories /\ NamedOnce(e)
           /\ \A p \in 1 .. Places : e[p] = d[p] \/ (d[p] = Free /\ e[p] = name)
<1>1. CASE HasRoom(d)
  <2> DEFINE f == FirstFree(d)
  <2>1. f \in 1 .. Places /\ d[f] = Free
    BY <1>1, FirstFreeIsFree, Zenon
  <2>2. e = [d EXCEPT ![f] = name]
    BY <1>1, Zenon DEF Register
  <2> HIDE DEF f
  <2>3. e \in Directories
    BY <2>1, <2>2, Zenon DEF Directories
  <2>4. \A p \in 1 .. Places : e[p] = IF p = f THEN name ELSE d[p]
    BY <2>1, <2>2, Zenon DEF Directories
  <2> QED BY <2>1, <2>3, <2>4, Zenon DEF NamedOnce
<1> QED BY <1>1, Zenon

(* What handle_list counts is the same in directories with the same files. *)
LEMMA SameListing ==
    ASSUME NEW d \in Directories, NEW e \in Directories,
           \A p \in 1 .. Places : IsVisible(d[p]) \/ IsVisible(e[p]) => e[p] = d[p]
    PROVE  /\ Visible(e) = Visible(d) /\ \A p : Number(e, p) = Number(d, p)
           /\ \A p \in Visible(d) : e[p] = d[p]
<1>1. DOMAIN d = 1 .. Places /\ DOMAIN e = 1 .. Places
  BY Zenon DEF Directories
<1>2. Visible(e) = Visible(d)
  <2>1. \A p \in 1 .. Places : IsVisible(e[p]) <=> IsVisible(d[p])
    BY Zenon
  <2> QED BY <1>1, <2>1, Zenon DEF Visible
<1>3. \A p \in Visible(d) : e[p] = d[p]
  BY <1>1, Zenon DEF Visible
<1> QED BY <1>2, <1>3, Zenon DEF Number

(* A record of another shell that changes no file leaves the listing.      *)
LEMMA UploadsAreUnseen ==
    ASSUME ListingInv, directory' \in Directories, NamedOnce(directory'),
           \A p \in 1 .. Places :
               IsVisible(directory[p]) \/ IsVisible(directory'[p]) => directory'[p] = directory[p],
           UNCHANGED <<lister, replaced>>
    PROVE  ListingInv'
<1>1. ListingTypes' /\ NamedOnce(directory)'
  BY Zenon DEF ListingInv, ListingTypes, NamedOnce, lister
<1>2. /\ Visible(directory') = Visible(directory)
      /\ \A p : Number(directory', p) = Number(directory, p)
      /\ \A p \in Visible(directory) : directory'[p] = directory[p]
  BY SameListing, Zenon DEF ListingInv, ListingTypes
<1>3. Received(directory) => Received(directory)'
  <2>1. SUFFICES ASSUME Received(directory), NEW i \in 1 .. cursor
                 PROVE  \E p \in Visible(directory') :
                            Number(directory', p) = i - 1 /\ entries[i] = directory'[p]
    BY Zenon DEF Received, lister
  <2>2. PICK p \in Visible(directory) : Number(directory, p) = i - 1 /\ entries[i] = directory[p]
    BY <2>1, Zenon DEF Received
  <2> QED BY <1>2, <2>2, Zenon
<1>4. ReadSoFar'
  BY <1>2, <1>3, Zenon DEF ListingInv, ReadSoFar, lister
<1> QED BY <1>1, <1>4, Zenon DEF ListingInv

(* Every step keeps the invariant.                                         *)
LEMMA ListingStep == ListingInv /\ [ListingNext]_listingVars => ListingInv'
<1> SUFFICES ASSUME ListingInv, [ListingNext]_listingVars PROVE ListingInv'
  OBVIOUS
<1>0. /\ directory \in Directories /\ NamedOnce(directory) /\ cursor \in Nat /\ entries \in Seq(Names)
      /\ Upload \notin Names /\ Free \notin Names /\ Free # Upload
  BY ListingAssumption, Zenon DEF ListingInv, ListingTypes
<1>1. CASE StartListing
  <2>1. ListingTypes' /\ NamedOnce(directory)'
    BY <1>1 DEF StartListing, ListingInv, ListingTypes, NamedOnce
  <2>2. ReadSoFar'
    BY <1>1 DEF StartListing, ReadSoFar, Received
  <2> QED BY <2>1, <2>2, Zenon DEF ListingInv
<1>2. CASE ReadEntry
  <2>1. ASSUME NEW p \in Visible(directory), Number(directory, p) = cursor,
               entries' = Append(entries, directory[p]), cursor' = cursor + 1,
               UNCHANGED <<listing, directory, replaced>>, listing = "asking"
        PROVE  ListingInv'
    <3>1. directory[p] \in Names
      BY <1>0, <2>1, Zenon DEF Visible, IsVisible, Directories
    <3>2. ListingTypes' /\ NamedOnce(directory)'
      BY <1>0, <2>1, <3>1 DEF ListingInv, ListingTypes, NamedOnce
    <3>3. CASE ~replaced
      <4>1. Received(directory)
        BY <2>1, <3>3, Zenon DEF ListingInv, ReadSoFar
      <4>2. /\ Len(entries') = cursor + 1 /\ entries'[cursor + 1] = directory[p]
            /\ \A i \in 1 .. cursor : entries'[i] = entries[i]
        BY <1>0, <2>1, <3>1, <4>1 DEF Received
      <4>3. ASSUME NEW i \in 1 .. cursor + 1
            PROVE  \E q \in Visible(directory) :
                       Number(directory, q) = i - 1 /\ entries'[i] = directory[q]
        <5>1. CASE i = cursor + 1
          BY <1>0, <2>1, <4>2, <5>1
        <5>2. CASE i # cursor + 1
          <6>1. i \in 1 .. cursor
            BY <1>0, <5>2
          <6> QED BY <4>1, <4>2, <6>1, Zenon DEF Received
        <5> QED BY <5>1, <5>2, Zenon
      <4>4. Received(directory)'
        BY <2>1, <4>2, <4>3, Zenon DEF Received
      <4>5. ReadSoFar'
        BY <2>1, <4>4, Zenon DEF ReadSoFar
      <4> QED BY <3>2, <4>5, Zenon DEF ListingInv
    <3>4. CASE replaced
      BY <2>1, <3>2, <3>4, Zenon DEF ListingInv, ReadSoFar
    <3> QED BY <3>3, <3>4, Zenon
  <2>2. ASSUME \A p \in Visible(directory) : Number(directory, p) # cursor, listing = "asking",
               listing' = "listed", UNCHANGED <<entries, cursor, directory, replaced>>
        PROVE  ListingInv'
    BY <2>2, Zenon DEF ListingInv, ListingTypes, NamedOnce, ReadSoFar, Received
  <2> QED BY <1>2, <2>1, <2>2, Zenon DEF ReadEntry
<1>3. CASE RequestFails
  BY <1>3, Zenon DEF RequestFails, ListingInv, ListingTypes, NamedOnce, ReadSoFar, Received
<1>4. CASE OtherBegin
  <2> DEFINE dropped == Remove(directory, Upload)
  <2>1. /\ dropped \in Directories /\ NamedOnce(dropped)
        /\ \A p \in 1 .. Places :
               dropped[p] = IF directory[p] = Upload THEN Free ELSE directory[p]
    BY <1>0, Removes, Zenon
  <2>2. directory' = IF HasRoom(dropped) THEN Register(dropped, Upload) ELSE dropped
    BY <1>4, Zenon DEF OtherBegin
  <2> HIDE DEF dropped
  <2>3. /\ directory' \in Directories /\ NamedOnce(directory')
        /\ \A p \in 1 .. Places :
               directory'[p] = dropped[p] \/ (dropped[p] = Free /\ directory'[p] = Upload)
    BY <1>0, <2>1, <2>2, Registers
  <2>4. \A p \in 1 .. Places :
            IsVisible(directory[p]) \/ IsVisible(directory'[p]) => directory'[p] = directory[p]
    BY <2>1, <2>3, Zenon DEF IsVisible
  <2> QED BY <1>4, <2>3, <2>4, UploadsAreUnseen, Zenon DEF OtherBegin
<1>5. CASE OtherAborts
  <2>1. /\ directory' \in Directories /\ NamedOnce(directory')
        /\ \A p \in 1 .. Places :
               directory'[p] = IF directory[p] = Upload THEN Free ELSE directory[p]
    <3>1. directory' = Remove(directory, Upload)
      BY <1>5, Zenon DEF OtherAborts
    <3> QED BY <1>0, <3>1, Removes
  <2>2. \A p \in 1 .. Places :
            IsVisible(directory[p]) \/ IsVisible(directory'[p]) => directory'[p] = directory[p]
    BY <2>1, Zenon DEF IsVisible
  <2> QED BY <1>5, <2>1, <2>2, UploadsAreUnseen, Zenon DEF OtherAborts
<1>6. ASSUME NEW name \in Names, OtherCommit(name) PROVE ListingInv'
  <2> DEFINE unlinked == Remove(directory, name)
             renamed == IF HasRoom(unlinked) THEN Register(unlinked, name) ELSE unlinked
  <2>1. /\ unlinked \in Directories /\ NamedOnce(unlinked)
        /\ \A p \in 1 .. Places : unlinked[p] # name
    <3>1. /\ unlinked \in Directories /\ NamedOnce(unlinked)
          /\ \A p \in 1 .. Places :
                 unlinked[p] = IF directory[p] = name THEN Free ELSE directory[p]
      BY <1>0, Removes, Zenon
    <3> HIDE DEF unlinked
    <3> QED BY <1>0, <3>1, Zenon
  <2>2. directory' = Remove(renamed, Upload)
    BY <1>6, Zenon DEF OtherCommit
  <2>3. renamed \in Directories /\ NamedOnce(renamed)
    <3> HIDE DEF unlinked
    <3> QED BY <2>1, Registers, Zenon
  <2> HIDE DEF renamed
  <2>4. directory' \in Directories /\ NamedOnce(directory')
    BY <2>2, <2>3, Removes, Zenon
  <2> QED BY <1>6, <2>4, Zenon DEF OtherCommit, lister, ListingInv, ListingTypes, NamedOnce, ReadSoFar
<1>7. CASE UNCHANGED listingVars
  BY <1>7, Zenon DEF listingVars, ListingInv, ListingTypes, NamedOnce, ReadSoFar, Received
<1> QED BY <1>1, <1>2, <1>3, <1>4, <1>5, <1>6, <1>7, Zenon DEF ListingNext, Stop

(* The invariant holds before the first listing.                           *)
LEMMA ListingInitial == ListingInit => ListingInv
<1> SUFFICES ASSUME ListingInit PROVE ListingInv
  OBVIOUS
<1>1. directory \in Directories /\ NamedOnce(directory)
  BY Zenon DEF ListingInit, Directories, NamedOnce
<1>2. ListingTypes
  BY <1>1 DEF ListingInit, ListingTypes
<1>3. ReadSoFar
  BY Zenon DEF ListingInit, ReadSoFar
<1> QED BY <1>1, <1>2, <1>3, Zenon DEF ListingInv

(* A listing that ended without a COMMIT in between names each file once.  *)
LEMMA ListingShows == ListingInv => ListingIsExact
<1> SUFFICES ASSUME ListingInv, listing = "listed", ~replaced
             PROVE  /\ {entries[i] : i \in DOMAIN entries}
                           = {directory[p] : p \in DOMAIN directory} \cap Names
                    /\ \A i, j \in DOMAIN entries : entries[i] = entries[j] => i = j
  BY Zenon DEF ListingIsExact
<1>0. /\ directory \in Directories /\ DOMAIN directory = 1 .. Places /\ cursor \in Nat
      /\ Upload \notin Names /\ Free \notin Names
  BY ListingAssumption, Zenon DEF ListingInv, ListingTypes, Directories
<1>1. /\ DOMAIN entries = 1 .. cursor
      /\ \A i \in 1 .. cursor :
             \E p \in Visible(directory) :
                 Number(directory, p) = i - 1 /\ entries[i] = directory[p]
  <2>1. Received(directory) /\ entries \in Seq(Names)
    BY Zenon DEF ListingInv, ListingTypes, ReadSoFar
  <2> QED BY <2>1 DEF Received
<1>2. /\ \A p \in Visible(directory) : Number(directory, p) < cursor /\ Number(directory, p) \in Nat
      /\ Visible(directory) = {p \in 1 .. Places : directory[p] \in Names}
  <2>1. \A p \in Visible(directory) : Number(directory, p) < cursor
    BY <1>0, NumbersEnd, Zenon DEF ListingInv, ReadSoFar
  <2>2. Visible(directory) = {p \in 1 .. Places : directory[p] \in Names}
    BY <1>0, Zenon DEF Visible, IsVisible, Directories
  <2> QED BY <1>0, <2>1, <2>2, VisiblePlaces, Zenon
<1>3. ASSUME NEW p \in Visible(directory)
      PROVE  Number(directory, p) + 1 \in 1 .. cursor /\ entries[Number(directory, p) + 1] = directory[p]
  <2> DEFINE i == Number(directory, p) + 1
  <2>1. i \in 1 .. cursor /\ i - 1 = Number(directory, p)
    BY <1>0, <1>2
  <2> HIDE DEF i
  <2>2. PICK q \in Visible(directory) : Number(directory, q) = i - 1 /\ entries[i] = directory[q]
    BY <1>1, <2>1, Zenon
  <2>3. q = p
    BY <1>0, <2>1, <2>2, NumbersDiffer, Zenon
  <2> USE DEF i
  <2> QED BY <2>1, <2>2, <2>3, Zenon
<1>4. {entries[i] : i \in DOMAIN entries} = {directory[p] : p \in DOMAIN directory} \cap Names
  BY <1>0, <1>1, <1>2, <1>3, Zenon
<1>5. ASSUME NEW i \in DOMAIN entries, NEW j \in DOMAIN entries, entries[i] = entries[j]
      PROVE  i = j
  <2>1. PICK p \in Visible(directory) : Number(directory, p) = i - 1 /\ entries[i] = directory[p]
    BY <1>1, Zenon
  <2>2. PICK q \in Visible(directory) : Number(directory, q) = j - 1 /\ entries[j] = directory[q]
    BY <1>1, Zenon
  <2>3. p = q
    BY <1>0, <1>2, <1>5, <2>1, <2>2, Zenon DEF ListingInv, NamedOnce
  <2>4. i - 1 = j - 1
    BY <2>1, <2>2, <2>3, Zenon
  <2> QED BY <1>1, <2>4
<1> QED BY <1>4, <1>5, Zenon

-----------------------------------------------------------------------------
(***************************************************************************)
(* Putting and reading a file.                                             *)
(***************************************************************************)
FilesTypes ==
    /\ puts \in 0 .. MaxPuts
    /\ size \in [1 .. MaxPuts -> 0 .. MaxSize]
    /\ put \in [Shells -> Nat]
    /\ position \in [Shells -> Nat]
    /\ doing \in [Shells -> {"idle", "put", "cat", "done"}]
    /\ late \in 0 .. puts /\ latePos \in Nat
    /\ phase \in {"idle", "flushed", "unlinked"}
    /\ committer \in Shells \cup {Nobody}
    /\ stored \in 0 .. puts

(* A put under way has a number and sends its records one by one.          *)
PutPart ==
    \A s \in Shells : doing[s] = "put" =>
        /\ put[s] \in 1 .. puts
        /\ committer # s => position[s] <= size[put[s]] + 1

(* So does the record left in the slot.                                    *)
LatePart == late # 0 => latePos <= size[late] + 1

(* The upload file holds exactly what running_crc32 has seen.              *)
UploadPart == open => transfer \in 1 .. puts /\ temp = received

(* What is about to take the name of the file is one whole text.           *)
CommitPart ==
    phase # "idle" => transfer \in 1 .. puts /\ temp = Content(transfer) /\ ~open

(* The shell that waits for the reply of a commit is the one that sent it. *)
CommitterPart ==
    committer # Nobody =>
        /\ phase # "idle"
        /\ doing[committer] = "put"
        /\ put[committer] = transfer

FilesInv ==
    /\ FilesTypes /\ PutPart /\ LatePart /\ UploadPart /\ CommitPart /\ CommitterPart
    /\ TargetIsWhole

(* The empty volume satisfies the invariant.                               *)
LEMMA FilesInit == Init => FilesInv
<1>1. Init => FilesTypes /\ PutPart /\ LatePart /\ UploadPart /\ CommitPart /\ CommitterPart
  BY FilesAssumption
  DEF Init, FilesTypes, PutPart, LatePart, UploadPart, CommitPart, CommitterPart
<1>2. Init => TargetIsWhole
  BY Zenon DEF Init, TargetIsWhole
<1>. QED  BY <1>1, <1>2, Zenon DEF FilesInv

(* The texts of the puts so far do not change while "size" does not.       *)
LEMMA SameContent == UNCHANGED size => \A p : Content(p)' = Content(p)
  BY Zenon DEF Content

(* A put that begins does not change the text of an earlier one.           *)
LEMMA EarlierContent ==
  ASSUME FilesTypes, NEW s \in Shells, NEW n \in 0 .. MaxSize, StartPut(s, n)
  PROVE  /\ size' \in [1 .. MaxPuts -> 0 .. MaxSize]
         /\ puts' = puts + 1 /\ puts' \in 0 .. MaxPuts
         /\ \A p \in 1 .. puts : Content(p)' = Content(p) /\ size'[p] = size[p]
<1>1. /\ size' = [size EXCEPT ![puts + 1] = n] /\ puts' = puts + 1 /\ puts < MaxPuts
  BY Zenon DEF StartPut
<1>2. \A p \in 1 .. puts : size'[p] = size[p]
  BY <1>1, FilesAssumption DEF FilesTypes
<1>. QED  BY <1>1, <1>2, FilesAssumption DEF FilesTypes, Content

(* One record of a put, whoever sent it, carried out by the service.       *)
LEMMA HandleKeeps ==
  ASSUME FilesInv, NEW p \in 1 .. puts, NEW i \in Nat, NEW ok \in BOOLEAN, i <= size[p] + 1,
         phase = "idle", Handle(p, i, ok), UNCHANGED <<size, puts, historyVars>>
  PROVE  /\ UploadPart' /\ CommitPart' /\ TargetIsWhole'
         /\ phase' \in {"idle", "flushed"}
         /\ ok /\ i = size[p] + 1 => phase' = "flushed" /\ transfer' = p
         /\ phase' = "flushed" => ok /\ i = size[p] + 1
<1>. USE SameContent DEF FilesInv, FilesTypes, UploadPart, CommitPart, TargetIsWhole, historyVars
<1>0. size[p] \in Nat
  BY FilesAssumption
<1>1. CASE i = 0
  <2>1. HandleBegin(p, ok)
    BY <1>1 DEF Handle
  <2>. QED  BY <1>0, <1>1, <2>1 DEF HandleBegin
<1>2. CASE i \in 1 .. size[p]
  <2>1. HandleData(p, i, ok)
    BY <1>0, <1>2 DEF Handle
  <2>2. target' = target /\ phase' = phase
    BY <2>1, Zenon DEF HandleData
  <2>3. UploadPart'
    <3>1. CASE DataExpected(p, i) /\ ok
      BY <2>1, <3>1, Zenon DEF HandleData, DataExpected
    <3>2. CASE DataExpected(p, i) /\ ~ok
      BY <2>1, <3>2, Zenon DEF HandleData
    <3>3. CASE ~DataExpected(p, i)
      BY <2>1, <3>3, Zenon DEF HandleData, uploadVars
    <3>. QED  BY <3>1, <3>2, <3>3, Zenon
  <2>4. CommitPart' /\ TargetIsWhole'
    BY <2>2, Zenon
  <2>. QED  BY <1>0, <1>2, <2>2, <2>3, <2>4
<1>3. CASE i = size[p] + 1
  <2>1. HandleCommit(p, ok)
    BY <1>0, <1>3 DEF Handle
  <2>. QED  BY <1>0, <1>3, <2>1, Zenon DEF HandleCommit, CommitExpected
<1>. QED  BY <1>0, <1>1, <1>2, <1>3

(* Every step keeps the invariant.                                         *)
LEMMA FilesStep == FilesInv /\ [Next]_vars => FilesInv'
<1>. SUFFICES ASSUME FilesInv, [Next]_vars PROVE FilesInv'
  OBVIOUS
<1>. USE FilesAssumption DEF FilesInv, FilesTypes, PutPart, LatePart, UploadPart, CommitPart, CommitterPart
<1>1. CASE Unlink
  BY <1>1, SameContent, Zenon DEF Unlink, uploadVars, shellVars, historyVars, TargetIsWhole
<1>2. CASE Rename
  <2>1. TargetIsWhole'
    <3>1. /\ target' = Content(transfer) /\ stored' = transfer /\ ~gap' /\ phase' = "idle"
          /\ UNCHANGED size /\ transfer \in 1 .. puts
      BY <1>2, Zenon DEF Rename, EndPut, shellVars
    <3>2. transfer # 0
      BY <3>1
    <3>. QED  BY <3>1, <3>2, SameContent, Zenon DEF TargetIsWhole
  <2>2. stored' \in 0 .. puts
    <3>1. stored' = transfer /\ transfer \in 1 .. puts
      BY <1>2, Zenon DEF Rename
    <3>. QED  BY <3>1
  <2>. QED  BY <1>2, <2>1, <2>2, SameContent, Zenon DEF Rename, EndPut, shellVars
<1>3. CASE CommitFails
  <2>1. TargetIsWhole'
    BY <1>3, SameContent, Zenon DEF CommitFails, EndPut, shellVars, TargetIsWhole
  <2>2. stored' \in 0 .. puts
    BY <1>3, Zenon DEF CommitFails
  <2>. QED
    BY <1>3, <2>1, <2>2, SameContent, Zenon DEF CommitFails, EndPut, uploadVars, shellVars
<1>4. CASE Crash \/ CrashInWrite
  <2>1. TargetIsWhole'
    BY <1>4, SameContent, Zenon DEF Crash, CrashInWrite, Restart, TargetIsWhole
  <2>2. stored' \in 0 .. puts
    BY <1>4, Zenon DEF Crash, CrashInWrite, Restart
  <2>3. Restart
    BY <1>4, Zenon DEF Crash, CrashInWrite
  <2>. QED  BY <2>1, <2>2, <2>3, SameContent DEF Restart
<1>5. ASSUME NEW ok \in BOOLEAN, ExecuteLate(ok) PROVE FilesInv'
  <2>1. /\ UNCHANGED <<size, puts, doing, put, position, committer, stored, gap, torn, historyVars>>
        /\ late' = 0 /\ latePos' = 0
    BY <1>5, Zenon DEF ExecuteLate, shellVars, historyVars
  <2>2. /\ late \in 1 .. puts /\ latePos \in Nat /\ latePos <= size[late] + 1 /\ phase = "idle"
        /\ Handle(late, latePos, ok)
    BY <1>5 DEF ExecuteLate
  <2>3. UploadPart' /\ CommitPart' /\ TargetIsWhole' /\ phase' \in {"idle", "flushed"}
    BY <2>1, <2>2, HandleKeeps
  <2>. QED  BY <2>1, <2>2, <2>3
<1>6. ASSUME NEW s \in Shells, NEW n \in 0 .. MaxSize, StartPut(s, n) PROVE FilesInv'
  <2>1. /\ size' \in [1 .. MaxPuts -> 0 .. MaxSize]
        /\ puts' = puts + 1 /\ puts' \in 0 .. MaxPuts
        /\ \A p \in 1 .. puts : Content(p)' = Content(p) /\ size'[p] = size[p]
    BY <1>6, EarlierContent, Zenon
  <2>2. /\ doing' = [doing EXCEPT ![s] = "put"] /\ put' = [put EXCEPT ![s] = puts + 1]
        /\ position' = [position EXCEPT ![s] = 0] /\ doing[s] = "idle"
        /\ UNCHANGED <<target, temp, open, transfer, received, phase, committer, late, latePos,
                        stored, gap, torn>>
    BY <1>6, Zenon DEF StartPut, fileVars, uploadVars, historyVars
  <2>3. TargetIsWhole'
    BY <2>1, <2>2 DEF TargetIsWhole
  <2>4. CommitPart' /\ UploadPart'
    BY <2>1, <2>2
  <2>5. FilesTypes'
    BY <2>1, <2>2
  <2>6. PutPart'
    <3>. SUFFICES ASSUME NEW t \in Shells, doing'[t] = "put"
                  PROVE  /\ put'[t] \in 1 .. puts'
                         /\ committer' # t => position'[t] <= size'[put'[t]] + 1
      OBVIOUS
    <3>1. CASE t = s
      BY <2>1, <2>2, <3>1
    <3>2. CASE t # s
      BY <2>1, <2>2, <3>2
    <3>. QED  BY <3>1, <3>2, Zenon
  <2>7. LatePart' /\ CommitterPart'
    BY <2>1, <2>2
  <2>. QED  BY <2>3, <2>4, <2>5, <2>6, <2>7, Zenon
<1>7. ASSUME NEW s \in Shells, NEW ok \in BOOLEAN, SendRecord(s, ok) PROVE FilesInv'
  <2>1. /\ UNCHANGED <<size, puts, put, late, latePos, stored, gap, torn, historyVars>>
        /\ committer = Nobody
        /\ phase = "idle" /\ doing[s] = "put" /\ position[s] <= size[put[s]] + 1
    BY <1>7, Zenon DEF SendRecord, EndPut, historyVars
  <2>2. put[s] \in 1 .. puts /\ position[s] \in Nat /\ Handle(put[s], position[s], ok)
    BY <1>7, Zenon DEF SendRecord
  <2>3. /\ UploadPart' /\ CommitPart' /\ TargetIsWhole'
        /\ phase' \in {"idle", "flushed"}
        /\ ok /\ position[s] = size[put[s]] + 1 => phase' = "flushed" /\ transfer' = put[s]
    BY <2>1, <2>2, HandleKeeps
  <2>4. CASE ok
    <3>1. /\ position' = [position EXCEPT ![s] = @ + 1] /\ doing' = doing
          /\ committer' = IF position[s] = size[put[s]] + 1 THEN s ELSE Nobody
      BY <1>7, <2>4, Zenon DEF SendRecord
    <3>2. FilesTypes' /\ LatePart'
      BY <2>1, <2>2, <2>3, <3>1, SMTT(30)
    <3>3. PutPart'
      <4>1. position'[s] = position[s] + 1 /\ size[put[s]] \in Nat
        BY <2>2, <3>1
      <4>2. committer' # s => position'[s] <= size[put[s]] + 1
        BY <2>1, <2>2, <3>1, <4>1
      <4>3. ASSUME NEW t \in Shells, t # s
            PROVE  position'[t] = position[t] /\ doing'[t] = doing[t] /\ committer # t
        BY <2>1, <3>1, <4>3, Zenon
      <4>. QED  BY <2>1, <2>2, <3>1, <4>2, <4>3, Zenon
    <3>4. CommitterPart'
      BY <2>1, <2>2, <2>3, <2>4, <3>1, Zenon
    <3>. QED  BY <2>3, <3>2, <3>3, <3>4, Zenon
  <2>5. CASE ~ok
    BY <1>7, <2>1, <2>2, <2>3, <2>5, Zenon DEF SendRecord, EndPut
  <2>. QED  BY <2>4, <2>5, Zenon
<1>8. ASSUME NEW s \in Shells, LoseRecord(s) PROVE FilesInv'
  <2>0. /\ doing[s] = "put" /\ doing' = [doing EXCEPT ![s] = "idle"]
        /\ committer' = IF committer = s THEN Nobody ELSE committer
        /\ UNCHANGED <<put, position, size, puts, phase, stored, gap, torn>>
        /\ \/ UNCHANGED <<late, latePos>>
           \/ late' = put[s] /\ latePos' = position[s] /\ committer # s
    BY <1>8, Zenon DEF LoseRecord, EndPut, historyVars
  <2>1. FilesTypes' /\ PutPart' /\ LatePart'
    <3>1. put[s] \in 1 .. puts /\ position[s] \in Nat
      BY <2>0, Zenon
    <3>2. FilesTypes'
      BY <2>0, <3>1
    <3>3. PutPart'
      BY <2>0, Zenon
    <3>4. LatePart'
      BY <2>0, <3>1, Zenon
    <3>. QED  BY <3>2, <3>3, <3>4, Zenon
  <2>2. UploadPart' /\ CommitPart' /\ CommitterPart' /\ TargetIsWhole'
    BY <1>8, SameContent, Zenon
       DEF LoseRecord, EndPut, fileVars, uploadVars, historyVars, TargetIsWhole
  <2>. QED  BY <2>1, <2>2, Zenon
<1>9. ASSUME NEW s \in Shells, StartRead(s) \/ ReadChunk(s) \/ EndRead(s) PROVE FilesInv'
  <2>1. /\ UNCHANGED <<target, temp, open, transfer, received, phase, committer, late, latePos,
                        put, position, size, puts, stored, gap, torn>>
        /\ doing[s] # "put" /\ \E d \in {"idle", "cat", "done"} : doing' = [doing EXCEPT ![s] = d]
    BY <1>9, Zenon DEF StartRead, ReadChunk, EndRead, fileVars, uploadVars, historyVars
  <2>2. TargetIsWhole' /\ CommitPart' /\ UploadPart' /\ LatePart'
    BY <2>1, SameContent, Zenon DEF TargetIsWhole
  <2>3. FilesTypes' /\ PutPart' /\ CommitterPart'
    BY <2>1, Zenon
  <2>. QED  BY <2>2, <2>3, Zenon
<1>10. CASE UNCHANGED vars
  BY <1>10, SameContent, Zenon
     DEF vars, fileVars, uploadVars, shellVars, historyVars, TargetIsWhole
<1>. QED
  BY <1>1, <1>2, <1>3, <1>4, <1>5, <1>6, <1>7, <1>8, <1>9, <1>10, Zenon DEF Next

(* What a cat has read is of texts of the size it was told first.          *)
ReadPart ==
    ~torn =>
    /\ content \in [Shells -> Seq(Nat)] /\ total \in [Shells -> Int]
    /\ \A s \in Shells : doing[s] \in {"cat", "done"} =>
           /\ \A i \in DOMAIN content[s] :
                  content[s][i] \in 1 .. puts /\ size[content[s][i]] = total[s]
           /\ doing[s] = "cat" => \/ total[s] = -1 /\ content[s] = <<>>
                                  \/ Len(content[s]) < total[s]
           /\ doing[s] = "done" => Len(content[s]) = total[s]

(* A chunk that is read comes from the file as one put left it.            *)
LEMMA ChunkRead ==
    ASSUME FilesInv, ReadPart, ~torn, NEW s \in Shells, ReadChunk(s), target # NoFile, SizeAgrees(s)
    PROVE  ReadPart'
<1> USE FilesAssumption DEF FilesInv, FilesTypes
<1>1. PICK p \in 1 .. puts : target = Content(p)
  <2>1. target = Content(stored) /\ stored # 0
    BY Zenon DEF TargetIsWhole
  <2> QED BY <2>1
<1>2. p \in Nat /\ size[p] \in Nat /\ Len(target) = size[p]
      /\ \A i \in 1 .. size[p] : target[i] = p
  BY <1>1 DEF Content
<1> DEFINE old == content[s]
           more == IF Len(old) < Len(target) THEN <<target[Len(old) + 1]>> ELSE <<>>
<1>3. /\ content' = [content EXCEPT ![s] = old \o more]
      /\ total' = [total EXCEPT ![s] = Len(target)]
      /\ doing' = [doing EXCEPT ![s] = IF Len(old) + 1 >= Len(target) THEN "done" ELSE "cat"]
      /\ doing[s] = "cat" /\ UNCHANGED <<size, puts>>
  BY Zenon DEF ReadChunk, Chunk
<1>4. /\ old \in Seq(Nat) /\ Len(old) \in Nat
      /\ \A i \in 1 .. Len(old) : old[i] \in 1 .. puts /\ size[old[i]] = size[p]
      /\ Len(old) = 0 \/ Len(old) < size[p]
  <2>1. /\ old \in Seq(Nat)
        /\ \A i \in DOMAIN old : old[i] \in 1 .. puts /\ size[old[i]] = total[s]
        /\ (total[s] = -1 /\ old = <<>>) \/ Len(old) < total[s]
    BY <1>3, Zenon DEF ReadPart
  <2>2. total[s] = -1 \/ total[s] = size[p]
    BY <1>2, Zenon DEF SizeAgrees
  <2> HIDE DEF old
  <2>3. CASE old = <<>>
    BY <2>1, <2>3
  <2>4. CASE total[s] = size[p] /\ Len(old) < total[s]
    <3>1. DOMAIN old = 1 .. Len(old) /\ Len(old) \in Nat
      BY <2>1
    <3> QED BY <2>1, <2>4, <3>1, Zenon
  <2> QED BY <2>1, <2>2, <2>3, <2>4
<1>5. more = IF Len(old) < size[p] THEN <<p>> ELSE <<>>
  BY <1>2, <1>4
<1> HIDE DEF old, more
<1>6. /\ old \o more \in Seq(Nat)
      /\ Len(old \o more) = IF Len(old) < size[p] THEN Len(old) + 1 ELSE Len(old)
  BY <1>2, <1>4, <1>5
<1>7. \A i \in 1 .. Len(old \o more) :
          (old \o more)[i] \in 1 .. puts /\ size[(old \o more)[i]] = size[p]
  <2> SUFFICES ASSUME NEW i \in 1 .. Len(old \o more)
               PROVE  (old \o more)[i] \in 1 .. puts /\ size[(old \o more)[i]] = size[p]
    OBVIOUS
  <2>1. CASE i <= Len(old)
    BY <1>4, <1>5, <1>6, <2>1
  <2>2. CASE i > Len(old)
    <3>1. Len(old) < size[p] /\ i = Len(old) + 1 /\ more = <<p>>
      BY <1>2, <1>4, <1>5, <1>6, <2>2
    <3>2. (old \o <<p>>)[Len(old) + 1] = p
      BY <1>2, <1>4
    <3>3. (old \o more)[i] = p
      BY <3>1, <3>2, Zenon
    <3> QED BY <3>3, Zenon
  <2>3. i \in Nat /\ Len(old) \in Nat
    BY <1>4, <1>6
  <2>4. i <= Len(old) \/ i > Len(old)
    BY <2>3
  <2> QED BY <2>1, <2>2, <2>4, Zenon
<1>8. content' \in [Shells -> Seq(Nat)] /\ total' \in [Shells -> Int]
  <2>1. Len(target) \in Int /\ content \in [Shells -> Seq(Nat)] /\ total \in [Shells -> Int]
    BY <1>2 DEF ReadPart
  <2>2. content' \in [Shells -> Seq(Nat)]
    BY <1>3, <1>6, <2>1, Zenon
  <2>3. total' \in [Shells -> Int]
    BY <1>3, <2>1, Zenon
  <2> QED BY <2>2, <2>3, Zenon
<1>9. ASSUME NEW t \in Shells, t # s
      PROVE  content'[t] = content[t] /\ total'[t] = total[t] /\ doing'[t] = doing[t]
  BY <1>3, <1>9, Zenon DEF ReadPart
<1>10. /\ content'[s] = old \o more /\ total'[s] = size[p]
       /\ doing'[s] = IF Len(old) + 1 >= size[p] THEN "done" ELSE "cat"
  BY <1>2, <1>3, Zenon DEF ReadPart
<1>11. /\ doing'[s] = "cat" => Len(content'[s]) < total'[s]
       /\ doing'[s] = "done" => Len(content'[s]) = total'[s]
  <2>1. Len(content'[s]) = IF Len(old) < size[p] THEN Len(old) + 1 ELSE Len(old)
    BY <1>6, <1>10, Zenon
  <2>2. CASE Len(old) + 1 >= size[p]
    <3>1. doing'[s] = "done"
      BY <1>10, <2>2, Zenon
    <3>2. Len(content'[s]) = size[p]
      BY <1>2, <1>4, <2>1, <2>2
    <3> QED BY <1>10, <3>1, <3>2, Zenon
  <2>3. CASE ~(Len(old) + 1 >= size[p])
    <3>1. doing'[s] = "cat"
      BY <1>10, <2>3, Zenon
    <3>2. Len(content'[s]) < size[p]
      BY <1>2, <1>4, <2>1, <2>3
    <3> QED BY <1>10, <3>1, <3>2, Zenon
  <2> QED BY <2>2, <2>3, Zenon
<1>12. ASSUME NEW t \in Shells, doing'[t] \in {"cat", "done"}
       PROVE  /\ \A i \in DOMAIN content'[t] :
                     content'[t][i] \in 1 .. puts' /\ size'[content'[t][i]] = total'[t]
              /\ doing'[t] = "cat" => \/ total'[t] = -1 /\ content'[t] = <<>>
                                      \/ Len(content'[t]) < total'[t]
              /\ doing'[t] = "done" => Len(content'[t]) = total'[t]
  <2>1. CASE t = s
    <3>1. DOMAIN content'[s] = 1 .. Len(old \o more)
      BY <1>6, <1>10
    <3>2. \A i \in DOMAIN content'[s] :
              content'[s][i] \in 1 .. puts' /\ size'[content'[s][i]] = total'[s]
      BY <1>3, <1>7, <1>10, <3>1, Zenon
    <3> QED BY <1>11, <2>1, <3>2, Zenon
  <2>2. CASE t # s
    <3>1. content'[t] = content[t] /\ total'[t] = total[t] /\ doing'[t] = doing[t]
      BY <1>9, <2>2, Zenon
    <3>2. UNCHANGED <<puts, size>>
      BY <1>3, Zenon
    <3> QED BY <1>12, <3>1, <3>2, Zenon DEF ReadPart
  <2> QED BY <2>1, <2>2, Zenon
<1> QED BY <1>8, <1>12, Zenon DEF ReadPart

(* Every step keeps what a cat has put together.                           *)
LEMMA ReadStep == FilesInv /\ ReadPart /\ [Next]_vars => ReadPart'
<1> SUFFICES ASSUME FilesInv, ReadPart, [Next]_vars, ~torn' PROVE ReadPart'
  BY Zenon DEF ReadPart
<1>. ~torn
  BY Zenon DEF Next, Unlink, Rename, CommitFails, Crash, CrashInWrite, ExecuteLate, StartPut,
               SendRecord, LoseRecord, StartRead, ReadChunk, EndRead, vars, historyVars
<1>0. doing \in [Shells -> {"idle", "put", "cat", "done"}]
  BY Zenon DEF FilesInv, FilesTypes
<1>1. CASE /\ UNCHANGED <<content, total, size, puts>>
           /\ \A s \in Shells : doing'[s] \in {"cat", "done"} => doing'[s] = doing[s]
  BY <1>1, Zenon DEF ReadPart
<1>2. ASSUME NEW s \in Shells, NEW n \in 0 .. MaxSize, StartPut(s, n) PROVE ReadPart'
  <2>1. /\ puts \in Nat /\ puts' = puts + 1
        /\ \A p \in 1 .. puts : size'[p] = size[p]
    BY <1>2, EarlierContent DEF FilesInv, FilesTypes
  <2>2. /\ UNCHANGED <<content, total>>
        /\ \A t \in Shells : doing'[t] \in {"cat", "done"} => doing'[t] = doing[t]
    BY <1>0, <1>2, Zenon DEF StartPut
  <2>3. \A p \in 1 .. puts : p \in 1 .. puts'
    BY <2>1
  <2> USE DEF ReadPart
  <2>4. content' \in [Shells -> Seq(Nat)] /\ total' \in [Shells -> Int]
    BY <2>2, Zenon
  <2>5. ASSUME NEW t \in Shells, doing'[t] \in {"cat", "done"}
        PROVE  /\ \A i \in DOMAIN content[t] :
                      content[t][i] \in 1 .. puts' /\ size'[content[t][i]] = total[t]
               /\ doing'[t] = "cat" => \/ total[t] = -1 /\ content[t] = <<>>
                                       \/ Len(content[t]) < total[t]
               /\ doing'[t] = "done" => Len(content[t]) = total[t]
    BY <2>1, <2>2, <2>3, <2>5, Zenon
  <2> QED BY <2>2, <2>4, <2>5, Zenon
<1>3. ASSUME NEW s \in Shells, StartRead(s) PROVE ReadPart'
  <2>1. /\ content' = [content EXCEPT ![s] = <<>>] /\ total' = [total EXCEPT ![s] = -1]
        /\ doing' = [doing EXCEPT ![s] = "cat"] /\ UNCHANGED <<size, puts>>
    BY <1>3, Zenon DEF StartRead
  <2>2. content' \in [Shells -> Seq(Nat)] /\ total' \in [Shells -> Int]
    BY <2>1 DEF ReadPart
  <2> QED BY <1>0, <2>1, <2>2 DEF ReadPart
<1>4. ASSUME NEW s \in Shells, ReadChunk(s) PROVE ReadPart'
  <2>1. CASE target # NoFile /\ SizeAgrees(s)
    BY <1>4, <2>1, ChunkRead, Zenon
  <2>2. CASE ~(target # NoFile /\ SizeAgrees(s))
    BY <1>0, <1>1, <1>4, <2>2, Zenon DEF ReadChunk
  <2> QED BY <2>1, <2>2, Zenon
<1>5. ASSUME Unlink \/ Rename \/ CommitFails \/ Crash \/ CrashInWrite
             \/ (\E ok \in BOOLEAN : ExecuteLate(ok))
             \/ (\E s \in Shells : \/ \E ok \in BOOLEAN : SendRecord(s, ok)
                                   \/ LoseRecord(s) \/ EndRead(s))
             \/ UNCHANGED vars
      PROVE  ReadPart'
  BY <1>0, <1>1, <1>5, Zenon
  DEF Unlink, Rename, CommitFails, Crash, CrashInWrite, Restart, ExecuteLate, SendRecord,
      LoseRecord, EndRead, EndPut, vars, shellVars
<1> QED BY <1>2, <1>3, <1>4, <1>5, Zenon DEF Next

(* The inductive invariant of the uploads and of the reads holds in every  *)
(* state.                                                                  *)
THEOREM FilesInvariance == Spec => [](FilesInv /\ ReadPart)
<1>1. Init => FilesInv /\ ReadPart
  <2>1. Init => ReadPart
    BY DEF Init, ReadPart
  <2> QED BY <2>1, FilesInit, Zenon
<1>2. (FilesInv /\ ReadPart) /\ [Next]_vars => (FilesInv /\ ReadPart)'
  BY FilesStep, ReadStep, Zenon
<1>. QED  BY <1>1, <1>2, PTL DEF Spec

(* Whatever is interleaved, refused, lost or late, and wherever power is   *)
(* cut between two calls of FatFs, the file of flash_service.c is the      *)
(* whole text of the put that was renamed last: COMMIT renames a temporary *)
(* file that holds all of it.  It is absent only before the first put and  *)
(* from an unlink of COMMIT to the next rename.  A cut inside a call that  *)
(* writes is excepted: it may damage any file.                             *)
THEOREM NeverTorn == Spec => []TargetIsWhole
<1>1. FilesInv => TargetIsWhole
  BY Zenon DEF FilesInv
<1>. QED  BY <1>1, FilesInvariance, PTL

(* A cat (service_client.py) that ends without an error has shown chunks   *)
(* of files of one size only, although the file may be replaced between    *)
(* two of its records.                                                     *)
THEOREM ReadsAreOfOneSize == Spec => []ReadsNeverMixSizes
<1>1. ReadPart => ReadsNeverMixSizes
  BY Zenon DEF ReadPart, ReadsNeverMixSizes
<1>. QED  BY <1>1, FilesInvariance, PTL

(* What "ls" and "cat" put together from many replies is exact: a listing  *)
(* into which no COMMIT fell names every file of the directory once,       *)
(* whatever uploads began or were dropped between its requests, and a cat  *)
(* has shown text of one size, for any directory and any number of files.  *)
THEOREM ReadingIsExactTheorem == FlashSpec => []ReadingIsExact
<1>1. ListingInv /\ ReadsNeverMixSizes => ReadingIsExact
  BY ListingShows, Zenon DEF ReadingIsExact
<1>. QED
  BY <1>1, ListingInitial, ListingStep, ReadsAreOfOneSize, PTL DEF FlashSpec, ListingSpec

(* A put that reports PASS has been committed: at that step the file is    *)
(* its own text, although another shell may have begun an upload of its    *)
(* own in between.                                                         *)
THEOREM PassIsRight == Spec => PassMeansStored
<1>1. FilesInv /\ [Next]_vars
          => [torn \/ \A p \in passed' \ passed : target' = Content(p)]_vars
  <2>. SUFFICES ASSUME FilesInv, Next, NEW p \in passed' \ passed PROVE target' = Content(p)
    BY Zenon DEF vars, historyVars
  <2>1. Rename /\ committer # Nobody /\ p = put[committer]
    BY Zenon DEF Next, Unlink, Rename, CommitFails, Crash, CrashInWrite, Restart, ExecuteLate,
           StartPut, SendRecord, LoseRecord, StartRead, ReadChunk, EndRead, historyVars
  <2>. QED  BY <2>1, Zenon DEF Rename, FilesInv, CommitPart, CommitterPart
<1>. QED  BY <1>1, FilesInvariance, PTL DEF Spec, PassMeansStored
=============================================================================
