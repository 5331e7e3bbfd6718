--------------------------- MODULE FlashCommands ---------------------------
(***************************************************************************)
(* The commands on the files in flash: put and cat, on one file            *)
(* (FlashFiles), and ls, on the directory (FlashListing).  They share no   *)
(* variable: each has the records of the other shells among its actions.   *)
(***************************************************************************)
EXTENDS FlashFiles, FlashListing

FlashSpec == Spec /\ ListingSpec

\* What "ls" and "cat" put together from many replies: "ls" names every file
\* once unless a COMMIT falls into it, and "cat" shows no text of two sizes.
ReadingIsExact == ListingIsExact /\ ReadsNeverMixSizes
=============================================================================
