-------------------------- MODULE TranslationCache --------------------------
(***************************************************************************)
(* The translation cache for code in RAM (cpu_threaded.c, gp2x/arm_stub.S) *)
(* Blocks of guest code are translated on demand, together with the blocks *)
(* they branch to.  For every halfword of RAM there is a tag: 0, the       *)
(* number of the block that begins there, or the Guard that is left in the *)
(* middle of blocks.  A store that finds a tag has hit code: the cache is  *)
(* flushed as a whole, block numbers start anew, and the tags are cleared  *)
(* from the lowest to the highest address where code was.                  *)
(*                                                                         *)
(* A cell is a halfword: the pages of EWRAM, then the one of IWRAM.  A tag *)
(* has two digits (its bytes), for a byte store looks only at its own.     *)
(* A translated instruction takes one unit of the cache.                   *)
(*                                                                         *)
(* Left out: the mirrors of both RAMs; code that runs to the last halfword *)
(* of a RAM; ARM code (which takes two cells at a time), and therefore     *)
(* addresses reached in both modes; the caches for ROM and BIOS.           *)
(***************************************************************************)
EXTENDS Integers, Sequences

CONSTANTS
  EwramPages, PageSize,
  Base,              \* values of a byte of a tag: 256
  FirstTag,          \* 0x0101
  Room,              \* units of the cache, without the reserve for the last
                     \* instruction (TRANSLATION_CACHE_LIMIT_THRESHOLD)
  MaxBlock,          \* instructions of a block
  Entries,           \* where the guest's blocks begin
  MaxDma,            \* cells that a DMA writes
  None

EwramSize == EwramPages * PageSize
Ewram     == 0 .. EwramSize - 1
Iwram     == EwramSize .. EwramSize + PageSize - 1
Cells     == Ewram \cup Iwram
Regions   == {"EWRAM", "IWRAM"}
Region(c) == IF c < EwramSize THEN "EWRAM" ELSE "IWRAM"
Start(r)  == IF r = "EWRAM" THEN 0 ELSE EwramSize
Size(r)   == IF r = "EWRAM" THEN EwramSize ELSE PageSize

(* Pairs of cells that a 32 bit access takes.                              *)
Words == {c \in Cells : c % 2 = 0 /\ c + 1 \in Cells}

(* Where there may be code.                                                *)
CodeCells == {c \in Cells : c # Start(Region(c)) + Size(Region(c)) - 1}

Guard == Base * Base - 1   \* 0xFFFF
Tags  == {0} \cup FirstTag .. Guard

BlockType == [pc : CodeCells, end : Cells]

Unset == -1   \* 0xFFFFFFFF

ASSUME SizeAssumption ==
  /\ EwramPages \in Nat \ {0} /\ PageSize \in Nat /\ PageSize > 1
  /\ Base \in Nat /\ FirstTag \in Nat /\ Base < FirstTag
  /\ MaxBlock \in Nat \ {0} /\ Room \in Nat /\ MaxDma \in Nat
ASSUME EntriesAssumption == Entries \subseteq CodeCells
(* A block that has the cache to itself fits, and there are numbers for    *)
(* all blocks that do.                                                     *)
ASSUME RoomAssumption ==
  /\ MaxBlock <= Room
  /\ FirstTag + Room < Guard

ASSUME NoneAssumption == None \notin Cells

VARIABLES
  tags,             \* the halves of ewram and iwram beside the contents
  blocks,           \* ram_block_ptrs up to ram_block_tag_top
  used,             \* ram_translation_ptr - ram_translation_cache
  code_min, code_max,
  lookup,           \* the pc of block_lookup_address under way, None if none
  redo,             \* it has come back to its label redo
  translation_recursion_level,
  base,             \* the pc of the outermost lookup, None at level 0
  outdated,         \* blocks whose code was overwritten (history)
  unheeded,         \* cells with a tag overwritten without a flush (history)
  spread,           \* a flush met code in several EWRAM pages (history)
  aborted           \* cells where an abandoned translation left its tag
                    \* beyond code_max (history)

cache   == <<blocks, used>>
bounds  == <<code_min, code_max>>
calls   == <<lookup, redo, translation_recursion_level, base>>
history == <<outdated, unheeded, spread, aborted>>
vars    == <<tags, cache, bounds, calls, history>>

(* The number of the i-th block since the last flush, counting from 1.     *)
Number(i)         == FirstTag + i - 1
ram_block_tag_top == Number(Len(blocks) + 1)
Body(b)           == b.pc .. b.end - 1

Init ==
  /\ tags = [c \in Cells |-> 0]
  /\ blocks = <<>>
  /\ used = 0
  /\ code_min = [r \in Regions |-> Unset]
  /\ code_max = [r \in Regions |-> Unset]
  /\ lookup = None
  /\ redo = FALSE
  /\ translation_recursion_level = 0
  /\ base = None
  /\ outdated = {}
  /\ unheeded = {}
  /\ spread = FALSE
  /\ aborted = {}

----------------------------------------------------------------------------
(* flush_translation_cache_ram: code from lo to hi in a region, offsets    *)
(* from its start, as the masks leave them.                                *)
Low(r, min)  == min[r] % Size(r)
High(r, max) == max[r] % Size(r)
Page(o)      == o \div PageSize

MutIwramCleared(min, max) ==
  {EwramSize + o : o \in Low("IWRAM", min) + 1 .. High("IWRAM", max) - 1}

IwramCleared(min, max) ==
  IF min["IWRAM"] = Unset THEN {}
  ELSE {EwramSize + o : o \in Low("IWRAM", min) .. High("IWRAM", max) - 1}

(* Over several pages: those between the first and the last, and the       *)
(* beginning of page 0.                                                    *)
EwramCleared(min, max) ==
  LET lo == Low("EWRAM", min)
      hi == High("EWRAM", max)
  IN IF min["EWRAM"] = Unset THEN {}
     ELSE IF Page(lo) = Page(hi) THEN lo .. hi - 1
     ELSE {c \in Ewram : Page(lo) < Page(c) /\ Page(c) < Page(hi)}
            \cup 0 .. (hi % PageSize) - 1

Cleared(min, max) == IwramCleared(min, max) \cup EwramCleared(min, max)

SpreadOver(min, max) ==
  /\ min["EWRAM"] # Unset
  /\ Page(Low("EWRAM", min)) # Page(High("EWRAM", max))

Emptied ==
  /\ blocks' = <<>>
  /\ used' = 0
  /\ code_min' = [r \in Regions |-> Unset]
  /\ code_max' = [r \in Regions |-> Unset]
  /\ outdated' = {}
  /\ unheeded' = {}

(* The flush, of tags and bounds that are new in the same step; left is    *)
(* what abandoned translations have tagged.                                *)
FlushOf(marked, min, max, left) ==
  /\ tags' = [c \in Cells |-> IF c \in Cleared(min, max) THEN 0 ELSE marked[c]]
  /\ Emptied
  /\ spread' = (spread \/ SpreadOver(min, max))
  /\ aborted' = left \ Cleared(min, max)

Flush == FlushOf(tags, code_min, code_max, aborted)

----------------------------------------------------------------------------
(* block_lookup_address.                                                   *)

Idle == translation_recursion_level = 0 /\ lookup = None

(* The guest jumps, or goes on after an interrupt or a flush.              *)
Jump ==
  /\ Idle
  /\ lookup' \in Entries
  /\ UNCHANGED <<tags, cache, bounds, redo, translation_recursion_level, base, history>>

IsBlockTag(tag) == tag >= FirstTag /\ tag # Guard

(* A block that is there is handed to the caller.                          *)
Found ==
  /\ lookup # None
  /\ ~redo
  /\ IsBlockTag(tags[lookup])
  /\ lookup' = None
  /\ UNCHANGED <<tags, cache, bounds, redo, translation_recursion_level, base, history>>

(* fill_tag, and the Guards that scan_block leaves.                        *)
Filled(pc)       == [tags EXCEPT ![pc] = ram_block_tag_top]

MutMarkedOver(pc, end) ==
  [c \in Cells |-> IF c \in pc + 1 .. end - 1 THEN Guard ELSE Filled(pc)[c]]
MutMarkedShort(pc, end) == Filled(pc)

Marked(pc, end) ==
  [c \in Cells |-> IF c \in pc .. end - 1 /\ Filled(pc)[c] = 0
                     THEN Guard ELSE Filled(pc)[c]]

Lower(pc) ==
  LET r == Region(pc)
      o == pc - Start(r)
  IN [code_min EXCEPT ![r] = IF @ = Unset \/ o < @ THEN o ELSE @]

MutHigher(end) == [code_max EXCEPT ![Region(end)] = end - Start(Region(end))]

Higher(end) ==
  LET r == Region(end)
      o == end - Start(r)
  IN [code_max EXCEPT ![r] = IF @ = Unset \/ o > @ THEN o ELSE @]

(* Where the block at pc may end.                                          *)
Ends(pc) == {e \in Cells : pc < e /\ e <= pc + MaxBlock /\ Region(e) = Region(pc)}

Misses == lookup # None /\ (redo \/ ~IsBlockTag(tags[lookup]))

Outermost == IF base = None THEN lookup ELSE base

(* A block that is not there is translated, and if it fits the blocks that *)
(* it branches to are next.                                                *)
Translate(end) ==
  /\ Misses
  /\ used + (end - lookup) <= Room
  /\ blocks' = Append(blocks, [pc |-> lookup, end |-> end])
  /\ used' = used + (end - lookup)
  /\ tags' = Marked(lookup, end)
  /\ code_min' = Lower(lookup)
  /\ code_max' = Higher(end)
  /\ lookup' = None
  /\ redo' = FALSE
  /\ translation_recursion_level' = translation_recursion_level + 1
  /\ base' = Outermost
  /\ UNCHANGED history

(* The beginning of a block that code_max does not reach.                  *)
Beyond(pc) == {c \in {pc} : c - Start(Region(c)) >= High(Region(c), code_max)}

(* If it does not, the cache is flushed and all calls return -1 up to the  *)
(* first, which tries again.  code_max does not know this block.           *)
Overflow(end) ==
  /\ Misses
  /\ used + (end - lookup) > Room
  /\ FlushOf(Marked(lookup, end), Lower(lookup), code_max, aborted \cup Beyond(lookup))
  /\ lookup' = Outermost
  /\ redo' = TRUE
  /\ translation_recursion_level' = 0
  /\ base' = None

(* A branch out of the innermost block.                                    *)
Link(target) ==
  /\ lookup = None
  /\ translation_recursion_level > 0
  /\ lookup' = target
  /\ UNCHANGED <<tags, cache, bounds, redo, translation_recursion_level, base, history>>

(* No more: translate_block returns.                                       *)
Return ==
  /\ lookup = None
  /\ translation_recursion_level > 0
  /\ translation_recursion_level' = translation_recursion_level - 1
  /\ base' = IF translation_recursion_level = 1 THEN None ELSE base
  /\ UNCHANGED <<tags, cache, bounds, lookup, redo, history>>

----------------------------------------------------------------------------
(* Stores of the running guest.                                            *)

Overwrite(written) ==
  /\ outdated' = outdated \cup {i \in DOMAIN blocks : Body(blocks[i]) \cap written # {}}
  /\ unheeded' = unheeded \cup {c \in written : tags[c] # 0}
  /\ UNCHANGED <<tags, cache, bounds, spread, aborted>>

FlushIf(seen, written) ==
  /\ IF seen THEN Flush ELSE Overwrite(written)
  /\ UNCHANGED calls

(* execute_store_u32 (width 2) and u16 (1): any tag is code.               *)
Store(cell, width) ==
  /\ Idle
  /\ FlushIf(\E c \in cell .. cell + width - 1 : tags[c] # 0,
             cell .. cell + width - 1)

(* execute_store_u8: the byte of the tag at the same address.              *)
StoreByte(cell, upper) ==
  /\ Idle
  /\ FlushIf((IF upper THEN tags[cell] \div Base ELSE tags[cell] % Base) # 0, {cell})

(* execute_store_u32_safe: all but the last word of a block transfer.      *)
StoreSafe(cell) ==
  /\ Idle
  /\ Overwrite(cell .. cell + 1)
  /\ UNCHANGED calls

(* dma_transfer raises CPU_ALERT_SMC, unless the channel's own interrupt   *)
(* takes its place.  Only a transfer that begins with the store to its     *)
(* control register has a caller that looks at the result.                 *)
Dma(first, count, irq, immediate) ==
  LET written == first .. first + count - 1
  IN /\ Idle
     /\ FlushIf((\E c \in written : tags[c] # 0) /\ ~irq /\ immediate, written)

(* load_state: all contents change, and the tags are not part of a state.  *)
LoadState ==
  /\ Idle
  /\ Flush
  /\ UNCHANGED calls

(* reset_gba: init_main flushes, init_memory clears both halves of RAM.    *)
Reset ==
  /\ Idle
  /\ tags' = [c \in Cells |-> 0]
  /\ Emptied
  /\ spread' = FALSE
  /\ aborted' = {}
  /\ UNCHANGED calls

Calls ==
  \/ Jump \/ Found \/ Return
  \/ \E target \in Entries : Link(target)
  \/ lookup # None /\ \E end \in Ends(lookup) : Translate(end) \/ Overflow(end)

Stores ==
  \/ \E cell \in Cells : Store(cell, 1) \/ \E upper \in BOOLEAN : StoreByte(cell, upper)
  \/ \E cell \in Words : Store(cell, 2) \/ StoreSafe(cell)
  \/ \E first \in Cells, irq, immediate \in BOOLEAN :
       \E count \in 1 .. MaxDma : first + count - 1 \in Cells /\ Dma(first, count, irq, immediate)

Next == Calls \/ Stores \/ LoadState \/ Reset

Spec == Init /\ [][Next]_vars

----------------------------------------------------------------------------
(* Properties.                                                             *)

TypeOK ==
  /\ tags \in [Cells -> Tags]
  /\ blocks \in Seq(BlockType)
  /\ used \in Nat /\ Len(blocks) <= used /\ used <= Room
  /\ DOMAIN code_min = Regions /\ DOMAIN code_max = Regions
  /\ \A r \in Regions : code_min[r] \in Unset .. Size(r) - 1 /\ code_max[r] \in Unset .. Size(r) - 1
  /\ lookup \in CodeCells \cup {None}
  /\ redo \in BOOLEAN
  /\ translation_recursion_level \in 0 .. Len(blocks)
  /\ base \in CodeCells \cup {None}
  /\ outdated \subseteq DOMAIN blocks
  /\ unheeded \subseteq Cells
  /\ spread \in BOOLEAN
  /\ aborted \subseteq Cells

(* Every block is found again where it begins: neither the Guards of later *)
(* blocks over it nor a flush that spares it take its tag away or give it  *)
(* another (fill_tag, smc_write).                                          *)
BlocksFound == \A i \in DOMAIN blocks : tags[blocks[i].pc] = Number(i)

(* A block does not outlive its code: one that was overwritten since it    *)
(* was translated has a cell whose store nobody checked, or whose alert    *)
(* was lost (execute_store, dma_transfer, load_state).                     *)
Fresh == \A i \in outdated : Body(blocks[i]) \cap unheeded # {}

(* What a flush clears spans every block, so that its memset is as long as *)
(* it must be and never of a negative length (translate_block, flush_      *)
(* translation_cache_ram).                                                 *)
BlocksWithinBounds ==
  \A i \in DOMAIN blocks :
    LET r == Region(blocks[i].pc)
    IN /\ Region(blocks[i].end) = r
       /\ 0 <= code_min[r] /\ code_min[r] <= blocks[i].pc - Start(r)
       /\ blocks[i].pc < blocks[i].end
       /\ blocks[i].end - Start(r) <= code_max[r]

(* A tag of a block that no longer exists makes the guest run whatever now *)
(* has its number.                                                         *)
Astray(c) == IsBlockTag(tags[c]) /\ \A i \in DOMAIN blocks : blocks[i].pc # c

(* None outlives a flush, but in EWRAM when code was in several of its     *)
(* pages, and where an abandoned translation began beyond code_max, until  *)
(* a later flush reaches that far (flush_translation_cache_ram,            *)
(* translate_block).                                                       *)
NoneAstray ==
  \A c \in Cells : Astray(c) => (spread /\ Region(c) = "EWRAM") \/ c \in aborted
=============================================================================
