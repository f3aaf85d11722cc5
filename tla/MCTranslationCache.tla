------------------------- MODULE MCTranslationCache -------------------------
(***************************************************************************)
(* Three pages of EWRAM and one of IWRAM, of two halfwords each, and a     *)
(* cache for three instructions; the second block's number has a zero      *)
(* byte.  Blocks begin in the first page, where they may overlap, in all   *)
(* others and in IWRAM.                                                    *)
(***************************************************************************)
EXTENDS TranslationCache, FiniteSets

MCEntries == {0, 1, 3, 4, 6}

CONSTANT MaxLeft   \* cells that keep a tag and are in no block

FewLeft ==
  Cardinality({c \in Cells : /\ tags[c] # 0
                             /\ \A i \in DOMAIN blocks : c \notin Body(blocks[i])}) <= MaxLeft
=============================================================================
