----------------------- MODULE TranslationCacheProofs -----------------------
(***************************************************************************)
(* Proofs about the translation cache, for RAMs, pages, tags and caches of *)
(* any size.  CacheInv is inductive.  Beside what the runs check it says   *)
(* that no cell of a block is without a tag (Guarded), which is why every  *)
(* store that looks at the tags finds the code it hits.                    *)
(***************************************************************************)
EXTENDS TranslationCache, TLAPS

Guarded ==
  \A i \in DOMAIN blocks : \A c \in Body(blocks[i]) : c \in Cells /\ tags[c] # 0

(* The first lookup tries again right after the flush.                     *)
RedoAfterFlush == redo => blocks = <<>> /\ lookup # None

CacheInv ==
  TypeOK /\ RedoAfterFlush /\ Guarded /\ BlocksFound /\ BlocksWithinBounds /\ Fresh /\ NoneAstray

----------------------------------------------------------------------------
(* Cells and tags.                                                         *)

LEMMA Sizes ==
  /\ EwramSize \in Nat /\ PageSize \in Nat /\ 1 < PageSize /\ PageSize <= EwramSize
  /\ Cells = 0 .. EwramSize + PageSize - 1
<1>1. EwramPages \in Nat /\ 1 <= EwramPages /\ PageSize \in Nat /\ 1 < PageSize
  BY SizeAssumption
<1>2. EwramPages * PageSize \in Nat /\ PageSize <= EwramPages * PageSize
  BY <1>1
<1> QED
  BY <1>1, <1>2 DEF EwramSize, Cells, Ewram, Iwram

LEMMA Tagging ==
  /\ Base \in Nat /\ FirstTag \in Nat /\ 0 < FirstTag
  /\ Room \in Nat /\ FirstTag + Room < Guard /\ Guard \in Int
  /\ 0 \in Tags /\ Guard \in Tags
<1>1. Base \in Nat /\ FirstTag \in Nat /\ Base < FirstTag /\ Room \in Nat
  BY SizeAssumption
<1>2. Base * Base - 1 \in Int
  BY <1>1
<1>3. Guard \in Int
  BY <1>2 DEF Guard
<1>4. FirstTag + Room < Guard
  BY RoomAssumption
<1> QED
  BY <1>1, <1>3, <1>4 DEF Tags

LEMMA RegionOf ==
  ASSUME NEW c \in Cells
  PROVE  /\ Region(c) \in Regions
         /\ Start(Region(c)) \in Nat /\ Size(Region(c)) \in Nat /\ 1 < Size(Region(c))
         /\ c - Start(Region(c)) \in 0 .. Size(Region(c)) - 1
         /\ c \in Int
BY Sizes DEF Region, Regions, Start, Size

LEMMA CodeCell ==
  ASSUME NEW c \in CodeCells
  PROVE  c \in Cells /\ c # None
BY NoneAssumption DEF CodeCells

LEMMA BlockFields ==
  ASSUME TypeOK, NEW i \in DOMAIN blocks
  PROVE  /\ i \in 1 .. Len(blocks) /\ Len(blocks) \in Nat
         /\ blocks[i].pc \in CodeCells /\ blocks[i].end \in Cells
         /\ blocks[i].pc \in Cells /\ blocks[i].pc \in Int /\ blocks[i].end \in Int
         /\ IsBlockTag(Number(i)) /\ Number(i) # 0
<1>1. i \in 1 .. Len(blocks) /\ Len(blocks) \in Nat
  BY DEF TypeOK
<1>2. blocks[i] \in BlockType
  BY <1>1 DEF TypeOK
<1>6. blocks[i].pc \in CodeCells /\ blocks[i].end \in Cells
  BY <1>2 DEF BlockType
<1>3. blocks[i].pc \in Cells /\ blocks[i].pc \in Int /\ blocks[i].end \in Int
  BY <1>6, CodeCell, RegionOf
<1>4. i <= Room
  BY <1>1, Tagging DEF TypeOK
<1>5. IsBlockTag(Number(i)) /\ Number(i) # 0
  BY <1>1, <1>4, Tagging DEF IsBlockTag, Number
<1> QED
  BY <1>1, <1>3, <1>5, <1>6

(* The mask of an offset that is within the region.                        *)
LEMMA Masked ==
  ASSUME NEW s \in Nat, NEW o \in 0 .. s - 1
  PROVE  o % s = o
OBVIOUS

----------------------------------------------------------------------------
(* A flush.                                                                *)

CallsTyped ==
  /\ lookup \in CodeCells \cup {None}
  /\ redo \in BOOLEAN
  /\ base \in CodeCells \cup {None}

(* Without blocks little is left to be said.                               *)
LEMMA NoBlocks ==
  ASSUME Emptied, tags' \in [Cells -> Tags], CallsTyped',
         translation_recursion_level' = 0,
         spread' \in BOOLEAN, aborted' \subseteq Cells
  PROVE  TypeOK' /\ Guarded' /\ BlocksFound' /\ BlocksWithinBounds' /\ Fresh'
<1>1. blocks' = <<>> /\ Len(blocks') = 0 /\ DOMAIN blocks' = {}
  BY DEF Emptied
<1>2. blocks' \in Seq(BlockType)
  BY <1>1
<1>3. used' = 0 /\ Room \in Nat
  BY Tagging DEF Emptied
<1>4. /\ DOMAIN code_min' = Regions /\ DOMAIN code_max' = Regions
      /\ \A r \in Regions : /\ code_min'[r] \in Unset .. Size(r) - 1
                            /\ code_max'[r] \in Unset .. Size(r) - 1
  <2>1. \A r \in Regions : Size(r) \in Nat
    BY Sizes DEF Size
  <2> QED
    BY <2>1 DEF Emptied, Unset
<1>5. outdated' = {} /\ unheeded' = {}
  BY DEF Emptied
<1>6. TypeOK'
  BY <1>1, <1>2, <1>3, <1>4, <1>5 DEF TypeOK, CallsTyped
<1>7. Guarded' /\ BlocksFound' /\ BlocksWithinBounds'
  BY <1>1 DEF Guarded, BlocksFound, BlocksWithinBounds
<1>8. Fresh'
  BY <1>5 DEF Fresh
<1> QED
  BY <1>6, <1>7, <1>8

LEMMA FlushedTags ==
  ASSUME NEW marked \in [Cells -> Tags], NEW min, NEW max, NEW left \in SUBSET Cells,
         FlushOf(marked, min, max, left)
  PROVE  tags' \in [Cells -> Tags] /\ spread' \in BOOLEAN /\ aborted' \subseteq Cells
<1>1. tags' \in [Cells -> Tags]
  BY Tagging DEF FlushOf
<1>2. spread' \in BOOLEAN
  BY DEF FlushOf
<1>3. aborted' \subseteq Cells
  BY DEF FlushOf
<1> QED
  BY <1>1, <1>2, <1>3

(* A cell from the lowest offset to before the highest is cleared, but for *)
(* EWRAM's pages.                                                          *)
LEMMA CellCleared ==
  ASSUME NEW c \in Cells, NEW min, NEW max,
         min[Region(c)] \in Nat, min[Region(c)] <= c - Start(Region(c)),
         High(Region(c), max) \in Int, c - Start(Region(c)) < High(Region(c), max)
  PROVE  \/ c \in Cleared(min, max)
         \/ Region(c) = "EWRAM" /\ SpreadOver(min, max)
<1> DEFINE r == Region(c)
           o == c - Start(r)
           lo == min[r]
<1>1. r \in Regions /\ o \in 0 .. Size(r) - 1 /\ Size(r) \in Nat /\ c \in Int /\ lo \in 0 .. o
  BY RegionOf
<1>2. lo \in 0 .. Size(r) - 1
  BY <1>1
<1>3. Low(r, min) = lo /\ min[r] # Unset
  BY <1>1, <1>2, Masked DEF Low, Unset
<1>4. o \in Low(r, min) .. High(r, max) - 1
  BY <1>1, <1>3
<1> HIDE DEF r, lo
<1>5. CASE r = "IWRAM"
  <2>1. o = c - EwramSize /\ c = EwramSize + o
    BY <1>1, <1>5, Sizes DEF Start
  <2>2. c \in IwramCleared(min, max)
    BY <1>3, <1>4, <1>5, <2>1 DEF IwramCleared
  <2> QED
    BY <2>2 DEF Cleared
<1>6. CASE r = "EWRAM"
  <2>1. c \in Low("EWRAM", min) .. High("EWRAM", max) - 1
    BY <1>1, <1>4, <1>6 DEF Start
  <2>2. CASE SpreadOver(min, max)
    BY <1>6, <2>2 DEF r
  <2>3. CASE ~SpreadOver(min, max)
    <3>1. c \in EwramCleared(min, max)
      BY <1>3, <1>6, <2>1, <2>3 DEF SpreadOver, EwramCleared
    <3> QED
      BY <3>1 DEF Cleared
  <2> QED
    BY <2>2, <2>3
<1> QED
  BY <1>1, <1>5, <1>6 DEF Regions

(* So is where a block begins, from any minimum that does not exceed       *)
(* code_min.                                                               *)
LEMMA BlockCleared ==
  ASSUME TypeOK, BlocksWithinBounds, NEW i \in DOMAIN blocks, NEW min,
         min[Region(blocks[i].pc)] \in 0 .. code_min[Region(blocks[i].pc)]
  PROVE  \/ blocks[i].pc \in Cleared(min, code_max)
         \/ Region(blocks[i].pc) = "EWRAM" /\ SpreadOver(min, code_max)
<1> DEFINE pc == blocks[i].pc
           end == blocks[i].end
           r == Region(pc)
           hi == code_max[r]
<1>1. pc \in Cells /\ end \in Cells
  BY BlockFields
<1>2. r \in Regions /\ Start(r) \in Nat /\ Size(r) \in Nat /\ pc \in Int /\ end \in Int
  BY <1>1, RegionOf
<1>3. code_min[r] \in Unset .. Size(r) - 1 /\ hi \in Unset .. Size(r) - 1
  BY <1>2 DEF TypeOK
<1>4. code_min[r] <= pc - Start(r) /\ pc < end /\ end - Start(r) <= hi
      /\ min[r] \in 0 .. code_min[r]
  BY DEF BlocksWithinBounds
<1>5. pc - Start(r) \in 0 .. Size(r) - 1
  BY <1>1, RegionOf
<1> HIDE DEF pc, end, r, hi
<1>6. /\ hi \in 0 .. Size(r) - 1 /\ pc - Start(r) < hi
      /\ min[r] \in Nat /\ min[r] <= pc - Start(r)
  BY <1>2, <1>3, <1>4, <1>5 DEF Unset
<1>7. High(r, code_max) = hi
  BY <1>2, <1>6, Masked DEF High, hi
<1>8. High(r, code_max) \in Int /\ pc - Start(r) < High(r, code_max)
  BY <1>2, <1>6, <1>7
<1> QED
  BY <1>1, <1>6, <1>8, CellCleared DEF r, pc

LEMMA FlushKeeps ==
  ASSUME CacheInv, Idle, Flush, UNCHANGED calls
  PROVE  CacheInv'
<1> USE DEF CacheInv
<1>1. FlushOf(tags, code_min, code_max, aborted) /\ tags \in [Cells -> Tags]
      /\ aborted \subseteq Cells
  BY DEF Flush, TypeOK
<1>2. tags' \in [Cells -> Tags] /\ spread' \in BOOLEAN /\ aborted' \subseteq Cells
  BY <1>1, FlushedTags
<1>3. Emptied /\ CallsTyped' /\ translation_recursion_level' = 0
  BY <1>1 DEF FlushOf, Idle, calls, CallsTyped, TypeOK
<1>4. TypeOK' /\ Guarded' /\ BlocksFound' /\ BlocksWithinBounds' /\ Fresh'
  BY <1>2, <1>3, NoBlocks
<1>5. ASSUME NEW c \in Cells, Astray(c)', c \notin aborted'
      PROVE  spread' /\ Region(c) = "EWRAM"
  <2>1. c \notin Cleared(code_min, code_max) /\ tags[c] = tags'[c] /\ c \notin aborted
    <3>1. tags'[c] = IF c \in Cleared(code_min, code_max) THEN 0 ELSE tags[c]
      BY <1>1 DEF FlushOf
    <3>2. tags'[c] # 0
      BY <1>5, Tagging DEF Astray, IsBlockTag
    <3>3. aborted' = aborted \ Cleared(code_min, code_max)
      BY <1>1 DEF FlushOf
    <3> QED
      BY <1>5, <3>1, <3>2, <3>3
  <2>2. IsBlockTag(tags[c])
    BY <1>5, <2>1 DEF Astray, IsBlockTag
  <2>3. CASE Astray(c)
    BY <1>1, <2>1, <2>3 DEF NoneAstray, FlushOf
  <2>4. CASE ~Astray(c)
    <3>1. PICK i \in DOMAIN blocks : blocks[i].pc = c
      BY <2>2, <2>4 DEF Astray
    <3>2. code_min[Region(c)] \in 0 .. code_min[Region(c)]
      <4>1. code_min[Region(c)] \in Int
        BY RegionOf DEF TypeOK, Unset
      <4> QED
        BY <3>1, <4>1 DEF BlocksWithinBounds
    <3>3. Region(c) = "EWRAM" /\ SpreadOver(code_min, code_max)
      BY <2>1, <3>1, <3>2, BlockCleared
    <3> QED
      BY <1>1, <3>3 DEF FlushOf
  <2> QED
    BY <2>3, <2>4
<1>6. NoneAstray'
  BY <1>5 DEF NoneAstray
<1>7. RedoAfterFlush'
  <2>1. redo' = redo /\ lookup' = None
    BY DEF calls, Idle
  <2>2. ~redo
    BY DEF RedoAfterFlush, Idle
  <2> QED
    BY <2>1, <2>2 DEF RedoAfterFlush
<1> QED
  BY <1>4, <1>6, <1>7

----------------------------------------------------------------------------
(* A translation.                                                          *)

LEMMA MarkedTags ==
  ASSUME TypeOK, NEW end, Translate(end), end \in Ends(lookup)
  PROVE  /\ lookup \in CodeCells /\ lookup \in Cells /\ lookup \in Int
         /\ end \in Cells /\ end \in Int /\ lookup < end /\ Region(end) = Region(lookup)
         /\ Len(blocks) + 1 <= used' /\ used' <= Room /\ used' \in Nat
         /\ IsBlockTag(ram_block_tag_top) /\ ram_block_tag_top = Number(Len(blocks) + 1)
         /\ tags' \in [Cells -> Tags]
         /\ tags'[lookup] = ram_block_tag_top
         /\ \A c \in Cells : c # lookup =>
              tags'[c] = IF c \in lookup .. end - 1 /\ tags[c] = 0 THEN Guard ELSE tags[c]
<1>1. lookup \in CodeCells /\ lookup \in Cells /\ lookup \in Int
  BY CodeCell, RegionOf DEF TypeOK, Translate, Misses
<1>2. end \in Cells /\ end \in Int /\ lookup < end /\ Region(end) = Region(lookup)
  BY RegionOf DEF Ends
<1>3. used \in Int /\ Len(blocks) \in Nat /\ Len(blocks) <= used /\ used' = used + (end - lookup)
      /\ used' <= Room
  BY DEF TypeOK, Translate
<1>4. Len(blocks) + 1 <= used' /\ used' <= Room /\ used' \in Nat
  BY <1>1, <1>2, <1>3
<1>5. ram_block_tag_top = Number(Len(blocks) + 1) /\ ram_block_tag_top = FirstTag + Len(blocks)
  BY <1>3, Tagging DEF ram_block_tag_top, Number
<1>6. IsBlockTag(ram_block_tag_top) /\ ram_block_tag_top \in Tags /\ ram_block_tag_top # 0
  BY <1>3, <1>4, <1>5, Tagging DEF IsBlockTag, Tags
<1>7. /\ Filled(lookup) \in [Cells -> Tags]
      /\ Filled(lookup)[lookup] = ram_block_tag_top
      /\ \A c \in Cells : c # lookup => Filled(lookup)[c] = tags[c]
  BY <1>1, <1>6 DEF Filled, TypeOK
<1>8. tags' = [c \in Cells |-> IF c \in lookup .. end - 1 /\ Filled(lookup)[c] = 0
                                THEN Guard ELSE Filled(lookup)[c]]
  BY DEF Translate, Marked
<1>9. tags' \in [Cells -> Tags]
  BY <1>7, <1>8, Tagging
<1>10. tags'[lookup] = ram_block_tag_top
  BY <1>1, <1>6, <1>7, <1>8
<1>11. \A c \in Cells : c # lookup =>
         tags'[c] = IF c \in lookup .. end - 1 /\ tags[c] = 0 THEN Guard ELSE tags[c]
  BY <1>7, <1>8
<1> QED
  BY <1>1, <1>2, <1>4, <1>5, <1>6, <1>9, <1>10, <1>11

(* The bounds only widen, and take the new block in.                       *)
LEMMA Widened ==
  ASSUME TypeOK, NEW pc \in Cells, NEW end \in Cells, pc < end, Region(end) = Region(pc),
         code_min' = Lower(pc), code_max' = Higher(end)
  PROVE  /\ DOMAIN code_min' = Regions /\ DOMAIN code_max' = Regions
         /\ \A r \in Regions : /\ code_min'[r] \in Unset .. Size(r) - 1
                               /\ code_max'[r] \in Unset .. Size(r) - 1
         /\ \A r \in Regions : 0 <= code_min[r] =>
              0 <= code_min'[r] /\ code_min'[r] <= code_min[r]
         /\ \A r \in Regions : code_max[r] <= code_max'[r]
         /\ 0 <= code_min'[Region(pc)] /\ code_min'[Region(pc)] <= pc - Start(Region(pc))
         /\ end - Start(Region(pc)) <= code_max'[Region(pc)]
<1> DEFINE s == Region(pc)
           lo == pc - Start(s)
           hi == end - Start(s)
<1>1. s \in Regions /\ lo \in 0 .. Size(s) - 1 /\ hi \in 0 .. Size(s) - 1 /\ Size(s) \in Nat
  BY RegionOf
<1>2. /\ DOMAIN code_min = Regions /\ DOMAIN code_max = Regions
      /\ \A r \in Regions : code_min[r] \in Unset .. Size(r) - 1 /\ code_max[r] \in Unset .. Size(r) - 1
  BY DEF TypeOK
<1>3. /\ code_min' = [code_min EXCEPT ![s] = IF @ = Unset \/ lo < @ THEN lo ELSE @]
      /\ code_max' = [code_max EXCEPT ![s] = IF @ = Unset \/ hi > @ THEN hi ELSE @]
  BY DEF Lower, Higher
<1> HIDE DEF s, lo, hi
<1>4. DOMAIN code_min' = Regions /\ DOMAIN code_max' = Regions
  BY <1>2, <1>3
<1>5. /\ code_min'[s] = IF code_min[s] = Unset \/ lo < code_min[s] THEN lo ELSE code_min[s]
      /\ code_max'[s] = IF code_max[s] = Unset \/ hi > code_max[s] THEN hi ELSE code_max[s]
  BY <1>1, <1>2, <1>3
<1>6. \A r \in Regions : r # s => code_min'[r] = code_min[r] /\ code_max'[r] = code_max[r]
  BY <1>2, <1>3
<1>7. /\ code_min[s] \in Unset .. Size(s) - 1 /\ code_max[s] \in Unset .. Size(s) - 1
      /\ Unset = -1
  BY <1>1, <1>2 DEF Unset
<1>8. /\ code_min'[s] \in 0 .. Size(s) - 1 /\ code_max'[s] \in 0 .. Size(s) - 1
      /\ code_min'[s] <= lo /\ hi <= code_max'[s]
      /\ 0 <= code_min[s] => code_min'[s] <= code_min[s]
      /\ code_max[s] <= code_max'[s]
  BY <1>1, <1>5, <1>7
<1>9. ASSUME NEW r \in Regions
      PROVE  /\ code_min'[r] \in Unset .. Size(r) - 1
             /\ code_max'[r] \in Unset .. Size(r) - 1
             /\ 0 <= code_min[r] => 0 <= code_min'[r] /\ code_min'[r] <= code_min[r]
             /\ code_max[r] <= code_max'[r]
  <2>1. CASE r = s
    BY <1>7, <1>8, <2>1
  <2>2. CASE r # s
    BY <1>2, <1>6, <1>7, <2>2
  <2> QED
    BY <2>1, <2>2
<1> QED
  BY <1>1, <1>4, <1>8, <1>9 DEF s, lo, hi

(* The blocks after a translation: those before, as they were, and the new *)
(* one.                                                                    *)
LEMMA Added ==
  ASSUME TypeOK, NEW end, Translate(end), end \in Ends(lookup)
  PROVE  /\ blocks' \in Seq(BlockType)
         /\ Len(blocks') = Len(blocks) + 1 /\ Len(blocks) \in Nat
         /\ DOMAIN blocks \subseteq DOMAIN blocks'
         /\ \A i \in DOMAIN blocks : blocks'[i] = blocks[i]
         /\ Len(blocks) + 1 \in DOMAIN blocks'
         /\ blocks'[Len(blocks) + 1].pc = lookup /\ blocks'[Len(blocks) + 1].end = end
         /\ \A i \in DOMAIN blocks' : i \in DOMAIN blocks \/ i = Len(blocks) + 1
<1> DEFINE b == [pc |-> lookup, end |-> end]
<1>1. b \in BlockType
  BY MarkedTags DEF BlockType
<1>2. b.pc = lookup /\ b.end = end
  OBVIOUS
<1>3. blocks' = Append(blocks, b) /\ blocks \in Seq(BlockType)
  BY DEF Translate, TypeOK
<1> HIDE DEF b
<1> QED
  BY <1>1, <1>2, <1>3

LEMMA TranslateKeeps ==
  ASSUME CacheInv, NEW end, Translate(end), end \in Ends(lookup)
  PROVE  CacheInv'
<1> DEFINE n == Len(blocks) + 1
<1>1. TypeOK /\ RedoAfterFlush /\ Guarded /\ BlocksFound /\ BlocksWithinBounds /\ Fresh /\ NoneAstray
  BY DEF CacheInv
<1>2. /\ code_min' = Lower(lookup) /\ code_max' = Higher(end)
      /\ lookup' = None /\ redo' = FALSE
      /\ translation_recursion_level' = translation_recursion_level + 1
      /\ base' = Outermost
      /\ UNCHANGED history
      /\ Misses
  BY DEF Translate
<1>3. ASSUME NEW i \in DOMAIN blocks'
      PROVE  \/ i \in DOMAIN blocks /\ blocks'[i] = blocks[i]
             \/ i = n /\ blocks'[i].pc = lookup /\ blocks'[i].end = end
  <2>1. CASE i \in DOMAIN blocks
    BY <1>1, <2>1, Added
  <2>2. CASE i = n
    BY <1>1, <2>2, Added
  <2> QED
    BY <1>1, <2>1, <2>2, Added
<1>4. TypeOK'
  <2>1. base' \in CodeCells \cup {None}
    BY <1>1, <1>2, MarkedTags DEF Outermost, TypeOK
  <2>2. translation_recursion_level' \in 0 .. Len(blocks')
    BY <1>1, <1>2, Added DEF TypeOK
  <2>3. outdated' \subseteq DOMAIN blocks'
    BY <1>1, <1>2, Added DEF TypeOK, history
  <2>4. /\ DOMAIN code_min' = Regions /\ DOMAIN code_max' = Regions
        /\ \A r \in Regions : /\ code_min'[r] \in Unset .. Size(r) - 1
                              /\ code_max'[r] \in Unset .. Size(r) - 1
    BY <1>1, <1>2, MarkedTags, Widened
  <2>5. unheeded' \subseteq Cells /\ spread' \in BOOLEAN /\ aborted' \subseteq Cells
    BY <1>1, <1>2 DEF TypeOK, history
  <2>6. blocks' \in Seq(BlockType) /\ tags' \in [Cells -> Tags]
        /\ used' \in Nat /\ Len(blocks') <= used' /\ used' <= Room
    BY <1>1, Added, MarkedTags
  <2> QED
    BY <1>2, <2>1, <2>2, <2>3, <2>4, <2>5, <2>6 DEF TypeOK
<1>5. RedoAfterFlush'
  BY <1>2 DEF RedoAfterFlush
(* No block that is there begins where the new one does.                   *)
<1>6. ASSUME NEW i \in DOMAIN blocks
      PROVE  blocks[i].pc # lookup
  BY <1>1, <1>2, BlockFields DEF RedoAfterFlush, BlocksFound, Misses
<1>7. Guarded'
  <2>1. ASSUME NEW c \in Cells, tags[c] # 0 \/ c \in lookup .. end - 1
        PROVE  tags'[c] # 0
    <3>1. CASE c = lookup
      BY <1>1, <3>1, MarkedTags, Tagging DEF IsBlockTag
    <3>2. CASE c # lookup
      BY <1>1, <2>1, <3>2, MarkedTags, Tagging
    <3> QED
      BY <3>1, <3>2
  <2>2. ASSUME NEW i \in DOMAIN blocks', NEW c \in Body(blocks'[i])
        PROVE  c \in Cells /\ tags'[c] # 0
    <3>1. CASE i \in DOMAIN blocks /\ blocks'[i] = blocks[i]
      BY <1>1, <2>1, <2>2, <3>1 DEF Guarded
    <3>2. CASE blocks'[i].pc = lookup /\ blocks'[i].end = end
      <4>1. c \in lookup .. end - 1
        BY <2>2, <3>2 DEF Body
      <4>2. c \in Cells
        BY <1>1, <4>1, MarkedTags, Sizes
      <4> QED
        BY <2>1, <4>1, <4>2
    <3> QED
      BY <1>3, <3>1, <3>2
  <2> QED
    BY <2>2 DEF Guarded
<1>8. BlocksFound'
  <2>1. ASSUME NEW i \in DOMAIN blocks'
        PROVE  tags'[blocks'[i].pc] = Number(i)
    <3>1. CASE i \in DOMAIN blocks /\ blocks'[i] = blocks[i]
      <4>1. tags[blocks[i].pc] = Number(i) /\ Number(i) # 0 /\ blocks[i].pc \in Cells
        BY <1>1, <3>1, BlockFields DEF BlocksFound
      <4>2. tags'[blocks[i].pc] = tags[blocks[i].pc]
        BY <1>1, <1>6, <3>1, <4>1, MarkedTags
      <4> QED
        BY <3>1, <4>1, <4>2
    <3>2. CASE i = n /\ blocks'[i].pc = lookup
      BY <1>1, <3>2, MarkedTags
    <3> QED
      BY <1>3, <3>1, <3>2
  <2> QED
    BY <2>1 DEF BlocksFound, Number
<1>9. BlocksWithinBounds'
  <2> DEFINE r(i) == Region(blocks'[i].pc)
  <2>1. ASSUME NEW i \in DOMAIN blocks'
        PROVE  /\ Region(blocks'[i].end) = r(i)
               /\ 0 <= code_min'[r(i)] /\ code_min'[r(i)] <= blocks'[i].pc - Start(r(i))
               /\ blocks'[i].pc < blocks'[i].end
               /\ blocks'[i].end - Start(r(i)) <= code_max'[r(i)]
    <3> DEFINE s == Region(blocks[i].pc)
    <3>1. CASE i \in DOMAIN blocks /\ blocks'[i] = blocks[i]
      <4>1. /\ Region(blocks[i].end) = s
            /\ 0 <= code_min[s] /\ code_min[s] <= blocks[i].pc - Start(s)
            /\ blocks[i].pc < blocks[i].end
            /\ blocks[i].end - Start(s) <= code_max[s]
        BY <1>1, <3>1 DEF BlocksWithinBounds
      <4>2. /\ s \in Regions /\ Start(s) \in Nat /\ Size(s) \in Nat
            /\ blocks[i].pc \in Int /\ blocks[i].end \in Int
        BY <1>1, <3>1, BlockFields, RegionOf
      <4>3. /\ 0 <= code_min'[s] /\ code_min'[s] <= code_min[s] /\ code_max[s] <= code_max'[s]
        BY <1>1, <1>2, <4>1, <4>2, MarkedTags, Widened
      <4>4. /\ code_min[s] \in Int /\ code_max[s] \in Int
            /\ code_min'[s] \in Int /\ code_max'[s] \in Int
        BY <1>1, <1>4, <4>2 DEF TypeOK, Unset
      <4>5. code_min'[s] <= blocks[i].pc - Start(s) /\ blocks[i].end - Start(s) <= code_max'[s]
        BY <4>1, <4>2, <4>3, <4>4
      <4> QED
        BY <3>1, <4>1, <4>3, <4>5
    <3>2. CASE blocks'[i].pc = lookup /\ blocks'[i].end = end
      BY <1>1, <1>2, <3>2, MarkedTags, Widened
    <3> QED
      BY <1>3, <3>1, <3>2
  <2> QED
    BY <2>1 DEF BlocksWithinBounds
<1>10. Fresh'
  <2>1. ASSUME NEW i \in outdated
        PROVE  Body(blocks'[i]) \cap unheeded # {}
    BY <1>1, Added DEF Fresh, TypeOK
  <2> QED
    BY <1>2, <2>1 DEF Fresh, history
<1>11. NoneAstray'
  <2>1. ASSUME NEW c \in Cells, Astray(c)'
        PROVE  Astray(c)
    <3>1. IsBlockTag(tags'[c]) /\ \A i \in DOMAIN blocks' : blocks'[i].pc # c
      BY <2>1 DEF Astray, IsBlockTag
    <3>2. c # lookup
      BY <1>1, <3>1, Added
    <3>3. tags'[c] = tags[c]
      BY <1>1, <3>1, <3>2, MarkedTags DEF IsBlockTag
    <3>4. \A i \in DOMAIN blocks : blocks[i].pc # c
      BY <1>1, <3>1, Added
    <3> QED
      BY <3>1, <3>3, <3>4 DEF Astray
  <2> QED
    BY <1>1, <1>2, <2>1 DEF NoneAstray, history
<1> QED
  BY <1>4, <1>5, <1>7, <1>8, <1>9, <1>10, <1>11 DEF CacheInv

----------------------------------------------------------------------------
(* The other steps.                                                        *)

(* A block that is begun only lowers code_min, to where it begins.         *)
LEMMA Lowered ==
  ASSUME TypeOK, NEW pc \in Cells
  PROVE  /\ Lower(pc)[Region(pc)] \in 0 .. pc - Start(Region(pc))
         /\ \A r \in Regions : 0 <= code_min[r] => Lower(pc)[r] \in 0 .. code_min[r]
<1> DEFINE s == Region(pc)
           o == pc - Start(s)
<1>1. s \in Regions /\ o \in 0 .. Size(s) - 1 /\ Size(s) \in Nat
  BY RegionOf
<1>2. DOMAIN code_min = Regions /\ \A r \in Regions : code_min[r] \in Int /\ Unset <= code_min[r]
  <2>1. \A r \in Regions : code_min[r] \in Unset .. Size(r) - 1
    BY DEF TypeOK
  <2> QED
    BY <2>1 DEF TypeOK, Unset
<1>3. Lower(pc) = [code_min EXCEPT ![s] = IF @ = Unset \/ o < @ THEN o ELSE @]
  BY DEF Lower
<1> HIDE DEF s, o
<1>4. Lower(pc)[s] = IF code_min[s] = Unset \/ o < code_min[s] THEN o ELSE code_min[s]
  BY <1>1, <1>2, <1>3
<1>5. \A r \in Regions : r # s => Lower(pc)[r] = code_min[r]
  BY <1>2, <1>3
<1>6. Lower(pc)[s] \in 0 .. o /\ (0 <= code_min[s] => Lower(pc)[s] \in 0 .. code_min[s])
  BY <1>1, <1>2, <1>4 DEF Unset
<1>7. \A r \in Regions : 0 <= code_min[r] => Lower(pc)[r] \in 0 .. code_min[r]
  BY <1>2, <1>5, <1>6
<1> QED
  BY <1>6, <1>7 DEF s, o

LEMMA OverflowKeeps ==
  ASSUME CacheInv, NEW end, Overflow(end), end \in Ends(lookup)
  PROVE  CacheInv'
<1>1. TypeOK
  BY DEF CacheInv
<1>2. /\ FlushOf(Marked(lookup, end), Lower(lookup), code_max, aborted \cup Beyond(lookup))
      /\ lookup' = Outermost /\ redo' = TRUE
      /\ translation_recursion_level' = 0 /\ base' = None
      /\ lookup # None
  BY DEF Overflow, Misses
<1>3. lookup \in CodeCells /\ lookup \in Cells
  BY <1>1, <1>2, CodeCell DEF TypeOK
<1>4. Outermost \in CodeCells
  BY <1>1, <1>3 DEF Outermost, TypeOK
<1>5. Marked(lookup, end) \in [Cells -> Tags]
  <2>1. ram_block_tag_top \in Tags
    <3>1. Len(blocks) \in Nat /\ Len(blocks) <= Room
      BY <1>1, Tagging DEF TypeOK
    <3>2. ram_block_tag_top = FirstTag + Len(blocks)
      BY <3>1, Tagging DEF ram_block_tag_top, Number
    <3> QED
      BY <3>1, <3>2, Tagging DEF Tags
  <2>2. Filled(lookup) \in [Cells -> Tags]
    BY <1>1, <2>1 DEF Filled, TypeOK
  <2> QED
    BY <2>2, Tagging DEF Marked
<1>6. tags' \in [Cells -> Tags] /\ spread' \in BOOLEAN /\ aborted' \subseteq Cells /\ Emptied
  <2>1. aborted \cup Beyond(lookup) \in SUBSET Cells
    BY <1>1, <1>3 DEF TypeOK, Beyond
  <2> QED
    BY <1>2, <1>5, <2>1, FlushedTags DEF FlushOf
<1>7. CallsTyped'
  BY <1>2, <1>4 DEF CallsTyped
<1>8. TypeOK' /\ Guarded' /\ BlocksFound' /\ BlocksWithinBounds' /\ Fresh'
  BY <1>2, <1>6, <1>7, NoBlocks
<1>9. ASSUME NEW c \in Cells, Astray(c)', c \notin aborted'
      PROVE  spread' /\ Region(c) = "EWRAM"
  <2>1. /\ c \notin Cleared(Lower(lookup), code_max)
        /\ tags'[c] = Marked(lookup, end)[c]
        /\ c \notin aborted /\ c \notin Beyond(lookup)
    <3>1. tags'[c] = IF c \in Cleared(Lower(lookup), code_max) THEN 0 ELSE Marked(lookup, end)[c]
      BY <1>2 DEF FlushOf
    <3>2. tags'[c] # 0
      BY <1>9, Tagging DEF Astray, IsBlockTag
    <3>3. aborted' = (aborted \cup Beyond(lookup)) \ Cleared(Lower(lookup), code_max)
      BY <1>2 DEF FlushOf
    <3> QED
      BY <1>9, <3>1, <3>2, <3>3
  <2>2. IsBlockTag(Marked(lookup, end)[c])
    BY <1>9, <2>1 DEF Astray, IsBlockTag
  <2>3. spread' = (spread \/ SpreadOver(Lower(lookup), code_max))
    BY <1>2 DEF FlushOf
  <2>4. CASE c = lookup
    <3> DEFINE r == Region(lookup)
               o == lookup - Start(r)
    <3>1. r \in Regions /\ o \in Nat /\ Size(r) \in Nat /\ 1 < Size(r)
      BY <1>3, RegionOf
    <3>2. code_max[r] \in Int
      BY <1>1, <3>1 DEF TypeOK, Unset
    <3>3. High(r, code_max) \in Int
      BY <3>1, <3>2 DEF High
    <3>4. o < High(r, code_max)
      <4>1. ~(o >= High(r, code_max))
        BY <2>1, <2>4 DEF Beyond
      <4> HIDE DEF o
      <4> QED
        BY <3>1, <3>3, <4>1
    <3>5. Lower(lookup)[r] \in 0 .. o
      BY <1>1, <1>3, Lowered
    <3>6. Lower(lookup)[r] \in Nat /\ Lower(lookup)[r] <= o
      BY <3>1, <3>5
    <3>7. Region(c) = "EWRAM" /\ SpreadOver(Lower(lookup), code_max)
      BY <1>3, <2>1, <2>4, <3>3, <3>4, <3>6, CellCleared
    <3> QED
      BY <2>3, <3>7
  <2>5. CASE c # lookup
    <3>1. IsBlockTag(tags[c])
      BY <1>1, <1>3, <2>2, <2>5 DEF Marked, Filled, TypeOK, IsBlockTag
    <3>2. CASE Astray(c)
      BY <2>1, <2>3, <3>2 DEF CacheInv, NoneAstray
    <3>3. CASE ~Astray(c)
      <4>1. PICK i \in DOMAIN blocks : blocks[i].pc = c
        BY <3>1, <3>3 DEF Astray
      <4>2. Region(c) \in Regions /\ 0 <= code_min[Region(c)]
        BY <4>1, RegionOf DEF CacheInv, BlocksWithinBounds
      <4>3. Lower(lookup)[Region(c)] \in 0 .. code_min[Region(c)]
        BY <1>1, <1>3, <4>2, Lowered
      <4>4. Region(c) = "EWRAM" /\ SpreadOver(Lower(lookup), code_max)
        BY <1>1, <2>1, <4>1, <4>3, BlockCleared DEF CacheInv
      <4> QED
        BY <2>3, <4>4
    <3> QED
      BY <3>2, <3>3
  <2> QED
    BY <2>4, <2>5
<1>10. NoneAstray'
  BY <1>9 DEF NoneAstray
<1>11. RedoAfterFlush'
  BY <1>2, <1>4, <1>6, CodeCell DEF RedoAfterFlush, Emptied
<1> QED
  BY <1>8, <1>10, <1>11 DEF CacheInv

LEMMA OverwriteKeeps ==
  ASSUME CacheInv, NEW written, written \subseteq Cells, Overwrite(written), UNCHANGED calls
  PROVE  CacheInv'
<1>1. TypeOK /\ RedoAfterFlush /\ Guarded /\ BlocksFound /\ BlocksWithinBounds /\ Fresh /\ NoneAstray
  BY DEF CacheInv
<1>2. /\ outdated' = outdated \cup {i \in DOMAIN blocks : Body(blocks[i]) \cap written # {}}
      /\ unheeded' = unheeded \cup {c \in written : tags[c] # 0}
      /\ UNCHANGED <<tags, blocks, used, code_min, code_max, spread, aborted, lookup, redo,
                     translation_recursion_level, base>>
  BY DEF Overwrite, cache, bounds, calls
<1>3. TypeOK'
  <2>1. outdated' \subseteq DOMAIN blocks' /\ unheeded' \subseteq Cells
    BY <1>1, <1>2 DEF TypeOK
  <2> QED
    BY <1>1, <1>2, <2>1 DEF TypeOK
<1>4. RedoAfterFlush' /\ Guarded' /\ BlocksFound' /\ BlocksWithinBounds' /\ NoneAstray'
  BY <1>1, <1>2 DEF RedoAfterFlush, Guarded, BlocksFound, Number, BlocksWithinBounds, NoneAstray,
                    Astray, IsBlockTag
<1>5. Fresh'
  <2>1. ASSUME NEW i \in outdated'
        PROVE  Body(blocks[i]) \cap unheeded' # {}
    <3>1. CASE i \in outdated
      BY <1>1, <1>2, <3>1 DEF Fresh
    <3>2. CASE i \in DOMAIN blocks /\ Body(blocks[i]) \cap written # {}
      <4>1. PICK c \in written : c \in Body(blocks[i])
        BY <3>2
      <4>2. tags[c] # 0
        BY <1>1, <3>2, <4>1 DEF Guarded
      <4> QED
        BY <1>2, <4>1, <4>2
    <3> QED
      BY <1>2, <2>1, <3>1, <3>2
  <2> QED
    BY <1>2, <2>1 DEF Fresh
<1> QED
  BY <1>3, <1>4, <1>5 DEF CacheInv

LEMMA FlushIfKeeps ==
  ASSUME CacheInv, NEW seen, NEW written, written \subseteq Cells, Idle, FlushIf(seen, written)
  PROVE  CacheInv'
<1>1. CASE seen
  BY <1>1, FlushKeeps DEF FlushIf
<1>2. CASE ~seen
  BY <1>2, OverwriteKeeps DEF FlushIf
<1> QED
  BY <1>1, <1>2

(* A lookup that begins, finds a block or ends touches nothing else.       *)
LEMMA CallKeeps ==
  ASSUME CacheInv, UNCHANGED <<tags, cache, bounds, history>>,
         lookup' \in CodeCells \cup {None}, base' \in CodeCells \cup {None},
         redo' = redo, ~redo,
         translation_recursion_level' \in 0 .. Len(blocks)
  PROVE  CacheInv'
<1>1. TypeOK /\ Guarded /\ BlocksFound /\ BlocksWithinBounds /\ Fresh /\ NoneAstray
  BY DEF CacheInv
<1>2. UNCHANGED <<tags, blocks, used, code_min, code_max, outdated, unheeded, spread, aborted>>
  BY DEF cache, bounds, history
<1>3. TypeOK'
  BY <1>1, <1>2 DEF TypeOK
<1>4. RedoAfterFlush'
  BY DEF RedoAfterFlush
<1>5. Guarded' /\ BlocksFound' /\ BlocksWithinBounds' /\ Fresh' /\ NoneAstray'
  BY <1>1, <1>2 DEF Guarded, BlocksFound, Number, BlocksWithinBounds, Fresh, NoneAstray, Astray,
                    IsBlockTag
<1> QED
  BY <1>3, <1>4, <1>5 DEF CacheInv

LEMMA ResetKeeps ==
  ASSUME CacheInv, Reset
  PROVE  CacheInv'
<1>1. /\ Idle /\ tags' = [c \in Cells |-> 0] /\ Emptied
      /\ spread' = FALSE /\ aborted' = {} /\ UNCHANGED calls
  BY DEF Reset
<1>2. TypeOK /\ RedoAfterFlush
  BY DEF CacheInv
<1>3. tags' \in [Cells -> Tags]
  BY <1>1, Tagging
<1>4. CallsTyped' /\ translation_recursion_level' = 0
  BY <1>1, <1>2 DEF CallsTyped, TypeOK, calls, Idle
<1>5. TypeOK' /\ Guarded' /\ BlocksFound' /\ BlocksWithinBounds' /\ Fresh'
  BY <1>1, <1>3, <1>4, NoBlocks
<1>6. NoneAstray'
  <2>1. \A c \in Cells : ~Astray(c)'
    BY <1>1, Tagging DEF Astray, IsBlockTag
  <2> QED
    BY <2>1 DEF NoneAstray
<1>7. RedoAfterFlush'
  BY <1>1, <1>2 DEF RedoAfterFlush, calls, Idle
<1> QED
  BY <1>5, <1>6, <1>7 DEF CacheInv

----------------------------------------------------------------------------

LEMMA CacheInit == Init => CacheInv
<1> SUFFICES ASSUME Init PROVE CacheInv
  OBVIOUS
<1>1. blocks = <<>> /\ DOMAIN blocks = {} /\ Len(blocks) = 0 /\ blocks \in Seq(BlockType)
  BY DEF Init
<1>2. \A r \in Regions : Size(r) \in Nat
  BY Sizes DEF Size
<1>3. tags \in [Cells -> Tags] /\ \A c \in Cells : ~Astray(c)
  BY Tagging DEF Init, Astray, IsBlockTag
<1>4. TypeOK
  <2>1. /\ DOMAIN code_min = Regions /\ DOMAIN code_max = Regions
        /\ \A r \in Regions : code_min[r] \in Unset .. Size(r) - 1 /\ code_max[r] \in Unset .. Size(r) - 1
    BY <1>2 DEF Init, Unset
  <2>2. used = 0 /\ 0 <= Room /\ translation_recursion_level = 0
    BY Tagging DEF Init
  <2>3. /\ lookup \in CodeCells \cup {None} /\ base \in CodeCells \cup {None}
        /\ outdated \subseteq DOMAIN blocks /\ unheeded \subseteq Cells
        /\ redo \in BOOLEAN /\ spread \in BOOLEAN /\ aborted \subseteq Cells
    BY DEF Init
  <2> QED
    BY <1>1, <1>3, <2>1, <2>2, <2>3 DEF TypeOK
<1>5. RedoAfterFlush /\ Guarded /\ BlocksFound /\ BlocksWithinBounds
  BY <1>1 DEF Init, RedoAfterFlush, Guarded, BlocksFound, BlocksWithinBounds
<1>6. Fresh /\ NoneAstray
  BY <1>3 DEF Init, Fresh, NoneAstray
<1> QED
  BY <1>4, <1>5, <1>6 DEF CacheInv

LEMMA CacheStep == CacheInv /\ [Next]_vars => CacheInv'
<1> SUFFICES ASSUME CacheInv, [Next]_vars PROVE CacheInv'
  OBVIOUS
<1> USE DEF CacheInv
<1>1. CASE Jump
  BY <1>1, CallKeeps, EntriesAssumption DEF Jump, Idle, RedoAfterFlush, TypeOK
<1>2. CASE Found
  BY <1>2, CallKeeps DEF Found, TypeOK
<1>3. CASE Return
  <2>1. lookup = None /\ ~redo
    BY <1>3 DEF Return, RedoAfterFlush
  <2>2. translation_recursion_level' \in 0 .. Len(blocks)
    BY <1>3 DEF Return, TypeOK
  <2>3. base' \in CodeCells \cup {None}
    BY <1>3 DEF Return, TypeOK
  <2> QED
    BY <1>3, <2>1, <2>2, <2>3, CallKeeps DEF Return
<1>4. ASSUME NEW target \in Entries, Link(target)
      PROVE  CacheInv'
  BY <1>4, CallKeeps, EntriesAssumption DEF Link, RedoAfterFlush, TypeOK
<1>5. ASSUME NEW end \in Ends(lookup), Translate(end) \/ Overflow(end)
      PROVE  CacheInv'
  BY <1>5, TranslateKeeps, OverflowKeeps
<1>6. ASSUME NEW cell \in Cells, NEW upper \in BOOLEAN, StoreByte(cell, upper)
      PROVE  CacheInv'
  BY <1>6, FlushIfKeeps DEF StoreByte
<1>7. ASSUME NEW cell \in Cells, Store(cell, 1)
      PROVE  CacheInv'
  <2>1. cell .. cell + 1 - 1 \subseteq Cells
    BY <1>7, Sizes
  <2> QED
    BY <1>7, <2>1, FlushIfKeeps DEF Store
<1>8. ASSUME NEW cell \in Words, Store(cell, 2) \/ StoreSafe(cell)
      PROVE  CacheInv'
  <2>1. cell .. cell + 2 - 1 \subseteq Cells /\ cell .. cell + 1 \subseteq Cells
    BY <1>8, Sizes DEF Words
  <2>2. CASE Store(cell, 2)
    BY <2>1, <2>2, FlushIfKeeps DEF Store
  <2>3. CASE StoreSafe(cell)
    BY <2>1, <2>3, OverwriteKeeps DEF StoreSafe
  <2> QED
    BY <1>8, <2>2, <2>3
<1>9. ASSUME NEW first \in Cells, NEW irq \in BOOLEAN, NEW immediate \in BOOLEAN,
             NEW count \in 1 .. MaxDma, first + count - 1 \in Cells,
             Dma(first, count, irq, immediate)
      PROVE  CacheInv'
  <2>1. first .. first + count - 1 \subseteq Cells
    BY <1>9, Sizes
  <2> QED
    BY <1>9, <2>1, FlushIfKeeps DEF Dma
<1>10. CASE LoadState
  BY <1>10, FlushKeeps DEF LoadState
<1>11. CASE Reset
  BY <1>11, ResetKeeps
<1>12. CASE UNCHANGED vars
  <2>1. UNCHANGED <<tags, blocks, used, code_min, code_max, lookup, redo,
                    translation_recursion_level, base, outdated, unheeded, spread, aborted>>
    BY <1>12 DEF vars, cache, bounds, calls, history
  <2> QED
    BY <2>1 DEF TypeOK, RedoAfterFlush, Guarded, BlocksFound, Number, BlocksWithinBounds, Fresh,
                NoneAstray, Astray, IsBlockTag
<1> QED
  <2>1. CASE Calls
    BY <1>1, <1>2, <1>3, <1>4, <1>5, <2>1 DEF Calls
  <2>2. CASE Stores
    BY <1>6, <1>7, <1>8, <1>9, <2>2 DEF Stores
  <2> QED
    BY <1>10, <1>11, <1>12, <2>1, <2>2 DEF Next

(* The strengthened invariant of the cache, of every instance.             *)
THEOREM CacheInvariant == Spec => []CacheInv
<1> QED
  BY CacheInit, CacheStep, PTL DEF Spec

(* The type invariant (block numbers never reach the Guard).               *)
THEOREM TypeCorrect == Spec => []TypeOK
<1>1. CacheInv => TypeOK
  BY DEF CacheInv
<1> QED
  BY <1>1, CacheInvariant, PTL

(* Every block is found again where it begins (block_lookup_address).      *)
THEOREM BlocksAreFound == Spec => []BlocksFound
<1>1. CacheInv => BlocksFound
  BY DEF CacheInv
<1> QED
  BY <1>1, CacheInvariant, PTL

(* A flush clears as much as it must, and never a negative length.         *)
THEOREM BlocksAreWithinBounds == Spec => []BlocksWithinBounds
<1>1. CacheInv => BlocksWithinBounds
  BY DEF CacheInv
<1> QED
  BY <1>1, CacheInvariant, PTL

(* No block outlives its code, but by a store that nobody checked.         *)
THEOREM BlocksAreFresh == Spec => []Fresh
<1>1. CacheInv => Fresh
  BY DEF CacheInv
<1> QED
  BY <1>1, CacheInvariant, PTL

(* No tag outlives its block, but by a flush over EWRAM pages, or where an *)
(* abandoned translation began beyond code_max (translate_block).          *)
THEOREM NoTagAstray == Spec => []NoneAstray
<1>1. CacheInv => NoneAstray
  BY DEF CacheInv
<1> QED
  BY <1>1, CacheInvariant, PTL
=============================================================================
