------------------------------ MODULE FlashDisk ------------------------------
(***************************************************************************)
(* flash_disk.c: the disk that FatFs sees, on a flash that can only be     *)
(* erased in blocks of several sectors.  One erase block is cached; it is  *)
(* written back, by erasing and programming the whole block, when another  *)
(* block is written or when FatFs synchronises.                            *)
(*                                                                         *)
(* FatFs is arbitrary: it writes any run of sectors and synchronises at    *)
(* any time.  flash_safe_execute may refuse, programming may leave cells   *)
(* wrong, and the power may be cut at any moment, also between the erase   *)
(* and the program.  disk_read changes nothing: it returns View.           *)
(***************************************************************************)
EXTENDS Integers

CONSTANTS
    SectorCount,    \* RP86_FLASH_VOLUME_SECTORS
    PerBlock,       \* RP86_FLASH_ERASE_SECTORS
    Data,           \* contents FatFs writes
    Erased,         \* what an erased sector reads as
    Garbage,        \* what a sector that was programmed badly reads as
    MaxWrites       \* bound on the sectors written between two power cuts

ASSUME DiskAssumption ==
    /\ SectorCount \in Nat \ {0} /\ PerBlock \in Nat \ {0} /\ MaxWrites \in Nat
    /\ SectorCount % PerBlock = 0

Sectors == 0 .. SectorCount - 1
BlockOf(s) == s \div PerBlock
Within(s) == s % PerBlock
InBlock(b) == {s \in Sectors : BlockOf(s) = b}
Blank == [w \in 0 .. PerBlock - 1 |-> Erased]
Contents == Data \cup {Erased, Garbage}

VARIABLES
    flash,          \* the contents of the chip, by sector
    cache,          \* g_cache, by position within its block
    cacheBlock,     \* g_cache_block
    cacheValid,     \* g_cache_valid
    cacheDirty,     \* g_cache_dirty
    healthy,        \* g_disk_healthy
    initialized,    \* g_disk_initialized
    call,           \* the call under way: "none", "write" or "sync"
    at, left,       \* disk_write: the next sector and how many are left
    value,          \* disk_write: the contents of the buffer
    erasing,        \* program_erase_block has erased and not yet programmed
    result,         \* what the last call returned
    written,        \* history: what FatFs last wrote to each sector
    writes          \* sectors written since the power came on

cacheVars == <<cache, cacheBlock, cacheValid>>
callVars  == <<call, at, left, value>>
diskVars == <<flash, cache, cacheBlock, cacheValid, cacheDirty, healthy, initialized,
          call, at, left, value, erasing, result, written, writes>>

\* Definitions named X_Y are X with the fault Y planted in it; no module uses them.

DiskInit ==
    /\ flash = [s \in Sectors |-> Erased]
    /\ cache = Blank /\ cacheBlock = 0
    /\ cacheValid = FALSE /\ cacheDirty = FALSE
    /\ healthy = TRUE /\ initialized = FALSE
    /\ call = "none" /\ at = 0 /\ left = 0 /\ value = Erased
    /\ erasing = FALSE /\ result = "none"
    /\ written = flash /\ writes = 0

-----------------------------------------------------------------------------
(* disk_initialize.                                                        *)
Initialize ==
    /\ ~initialized
    /\ initialized' = TRUE
    /\ UNCHANGED <<flash, cacheVars, cacheDirty, healthy, callVars, erasing, result,
                   written, writes>>

(* lba_range_valid.                                                        *)
RangeValid(sector, count) == count # 0 /\ sector < SectorCount /\ count <= SectorCount - sector

(* FatFs calls disk_write; a call with bad parameters changes nothing.     *)
BeginWrite(sector, count, content) ==
    /\ call = "none" /\ initialized
    /\ RangeValid(sector, count)
    /\ writes + count <= MaxWrites
    /\ call' = "write" /\ at' = sector /\ left' = count /\ value' = content
    /\ result' = "none" /\ writes' = writes + count
    /\ UNCHANGED <<flash, cacheVars, cacheDirty, healthy, initialized, erasing, written>>

(* FatFs calls disk_ioctl with CTRL_SYNC.                                  *)
BeginSync ==
    /\ call = "none" /\ initialized
    /\ call' = "sync" /\ result' = "none"
    /\ UNCHANGED <<flash, cacheVars, cacheDirty, healthy, initialized, at, left, value,
                   erasing, written, writes>>

-----------------------------------------------------------------------------
(* disk_read: where the contents of a sector come from.                    *)
View(s) == IF cacheValid /\ cacheBlock = BlockOf(s) THEN cache[Within(s)] ELSE flash[s]

Selected == cacheValid /\ cacheBlock = BlockOf(at)

(* The block that rp86_flash_disk_flush writes back.                       *)
FlushedBlock_Next == IF call = "write" THEN BlockOf(at) ELSE cacheBlock
FlushedBlock == cacheBlock

(* When rp86_flash_disk_flush is called with something to write back.      *)
Flushing == cacheDirty /\ ~erasing /\ (call = "sync" \/ (call = "write" /\ ~Selected))

(* The chip already holds what is in the cache.                            *)
FlushIsIdle ==
    /\ Flushing
    /\ \A s \in InBlock(cacheBlock) : flash[s] = cache[Within(s)]
    /\ cacheDirty' = FALSE
    /\ UNCHANGED <<flash, cacheVars, healthy, initialized, callVars, erasing, result,
                   written, writes>>

(* A call returns an error; a failed flush makes the disk unhealthy.       *)
FlushFails ==
    /\ healthy' = FALSE
    /\ call' = "none" /\ result' = "error"
    /\ UNCHANGED <<cacheVars, cacheDirty, initialized, at, left, value, written, writes>>

(* flash_safe_execute gives up before it runs program_erase_block.         *)
FlushIsRefused ==
    /\ Flushing
    /\ \E s \in InBlock(cacheBlock) : flash[s] # cache[Within(s)]
    /\ FlushFails
    /\ UNCHANGED <<flash, erasing>>

(* The first half of program_erase_block.                                  *)
Erase ==
    /\ Flushing
    /\ \E s \in InBlock(cacheBlock) : flash[s] # cache[Within(s)]
    /\ erasing' = TRUE
    /\ flash' = [s \in Sectors |-> IF BlockOf(s) = FlushedBlock THEN Erased ELSE flash[s]]
    /\ UNCHANGED <<cacheVars, cacheDirty, healthy, initialized, callVars, result,
                   written, writes>>

(* The comparison of the chip with the cache after programming.            *)
Verified_Unchecked(bad) == TRUE
Verified(bad) == bad = {}

(* The second half, which leaves the sectors "bad" wrong, and what flush   *)
(* does with the outcome.                                                  *)
Program(bad) ==
    /\ erasing
    /\ erasing' = FALSE
    /\ flash' = [s \in Sectors |->
                    IF BlockOf(s) # FlushedBlock THEN flash[s]
                    ELSE IF s \in bad THEN Garbage ELSE cache[Within(s)]]
    /\ \/ /\ Verified(bad)
          /\ cacheDirty' = FALSE
          /\ UNCHANGED <<cacheVars, healthy, initialized, callVars, result, written, writes>>
       \/ ~Verified(bad) /\ FlushFails

-----------------------------------------------------------------------------
(* select_cache_block reads a block only when the cache has been written   *)
(* back.                                                                   *)
MayLoad == ~cacheDirty

Loaded(b) == [w \in 0 .. PerBlock - 1 |-> flash[b * PerBlock + w]]

(* One round of the loop of disk_write whose block is selected, or can be  *)
(* selected without a flush.                                               *)
CopySector ==
    /\ call = "write" /\ ~erasing
    /\ Selected \/ MayLoad
    /\ LET block == IF Selected THEN cache ELSE Loaded(BlockOf(at))
       IN  cache' = [block EXCEPT ![Within(at)] = value]
    /\ cacheBlock' = BlockOf(at) /\ cacheValid' = TRUE /\ cacheDirty' = TRUE
    /\ written' = [written EXCEPT ![at] = value]
    /\ at' = at + 1 /\ left' = left - 1
    /\ IF left = 1 THEN call' = "none" /\ result' = "ok" ELSE UNCHANGED <<call, result>>
    /\ UNCHANGED <<flash, healthy, initialized, value, erasing, writes>>

(* CTRL_SYNC returns.                                                      *)
SyncPasses ==
    /\ call = "sync" /\ ~cacheDirty
    /\ call' = "none" /\ result' = "ok"
    /\ UNCHANGED <<flash, cacheVars, cacheDirty, healthy, initialized, at, left, value,
                   erasing, written, writes>>

(* The power is cut and comes back: only the chip keeps its contents.      *)
PowerCut ==
    /\ cache' = Blank /\ cacheBlock' = 0
    /\ cacheValid' = FALSE /\ cacheDirty' = FALSE
    /\ healthy' = TRUE /\ initialized' = FALSE
    /\ call' = "none" /\ at' = 0 /\ left' = 0 /\ value' = Erased
    /\ erasing' = FALSE /\ result' = "none"
    /\ written' = flash /\ writes' = 0
    /\ UNCHANGED flash

DiskNext ==
    \/ Initialize
    \/ \E s \in Sectors, n \in 1 .. SectorCount, c \in Data : BeginWrite(s, n, c)
    \/ BeginSync
    \/ FlushIsIdle
    \/ FlushIsRefused
    \/ Erase
    \/ \E bad \in SUBSET InBlock(FlushedBlock) : Program(bad)
    \/ CopySector
    \/ SyncPasses
    \/ PowerCut

DiskSpec == DiskInit /\ [][DiskNext]_diskVars

-----------------------------------------------------------------------------
(* disk_read returns what FatFs last wrote to the sector, wherever its     *)
(* block is now: in the cache, half written back, or refused by the chip.  *)
ReadsSeeWrites == \A s \in Sectors : View(s) = written[s]

(* When CTRL_SYNC returns RES_OK, everything FatFs has written is on the   *)
(* chip, also after earlier flushes that failed.                           *)
SyncMeansStored == [][SyncPasses => \A s \in Sectors : flash'[s] = written[s]]_diskVars

(* A power cut, even between program_erase_block's two halves, damages     *)
(* only the block that waits to be written back: every sector of another   *)
(* block keeps what FatFs last wrote to it, synchronised or not.           *)
CutSparesOtherBlocks ==
    [][PowerCut => \A s \in Sectors :
          flash'[s] = written[s] \/ (cacheDirty /\ BlockOf(s) = cacheBlock)]_diskVars
=============================================================================
