--------------------------- MODULE GamepakPaging ---------------------------
(***************************************************************************)
(* How the ROM of the game pak is reached (memory.c): the guest's address  *)
(* space shows it three times, memory_map_read points each 32 KB page of   *)
(* each copy into the buffer gamepak_rom, and a ROM larger than the buffer *)
(* is paged in from its file on demand, evicting the page that was loaded  *)
(* longest ago.                                                            *)
(*                                                                         *)
(* An entry of the map is a page of the buffer (its offset / 32 KB).       *)
(***************************************************************************)
EXTENDS Integers

CONSTANTS
  SpacePages,   \* pages in one copy of the ROM's address space (32 MB)
  BufferPages,  \* gamepak_ram_pages
  TimeModulus,  \* page_time is a u32: 2^32
  Games,        \* the game paks that can be loaded
  RomPages,     \* gamepak_size of each, in pages
  NULL

Pages   == 0 .. SpacePages - 1
Slots   == 0 .. BufferPages - 1
Mirrors == {"8", "A", "C"}   \* the copies start at 8000000, A000000, C000000

ASSUME PagingAssumption ==
  /\ SpacePages \in Nat
  /\ BufferPages \in Nat \ {0}
  /\ TimeModulus \in Nat \ {0}
  /\ RomPages \in [Games -> 1 .. SpacePages]
  /\ NULL \notin Slots

VARIABLES
  game,                \* the game pak loaded last
  memory_map_read,     \* its part for the game pak, by copy and page
  gamepak_memory_map,  \* what load_gamepak_page put into each page of the buffer
  gamepak_rom,         \* what each page of the buffer holds
  page_time,
  seen                 \* pages loaded since init_memory (history)

vars == <<game, memory_map_read, gamepak_memory_map, gamepak_rom, page_time, seen>>

gamepak_size == RomPages[game]
IsLarge(g)   == RomPages[g] > BufferPages

(* The upper half of the last copy, from D000000 on.                       *)
UpperC(m, p) == m = "C" /\ 2 * p >= SpacePages

(* A page of the buffer that holds only the header, or nothing yet.        *)
Header == SpacePages

----------------------------------------------------------------------------
(* The whole ROM is in the buffer, or only its header is.                  *)
Loaded(g, rom) ==
  IF IsLarge(g) THEN [rom EXCEPT ![0] = <<g, Header>>]
  ELSE [s \in Slots |-> IF s < RomPages[g] THEN <<g, s>> ELSE rom[s]]

(* init_memory_gamepak.  For a large ROM it empties the map up to D000000  *)
(* only; page_time goes on.                                                *)
InitMemoryGamepak(g) ==
  /\ gamepak_memory_map' =
       IF IsLarge(g) THEN [s \in Slots |-> [page_timestamp |-> 0, physical_index |-> 0]]
       ELSE gamepak_memory_map
  /\ memory_map_read' =
       [m \in Mirrors |-> [p \in Pages |->
         IF IsLarge(g) THEN IF UpperC(m, p) THEN memory_map_read[m][p] ELSE NULL
         ELSE IF p < RomPages[g] THEN p ELSE NULL]]
  /\ seen' = {}
  /\ UNCHANGED page_time

(* load_gamepak succeeds and reset_gba follows.                            *)
LoadROM ==
  \E g \in Games :
    /\ game' = g
    /\ gamepak_rom' = Loaded(g, gamepak_rom)
    /\ InitMemoryGamepak(g)

(* reset_gba: init_memory.                                                 *)
Reset == InitMemoryGamepak(game) /\ UNCHANGED <<game, gamepak_rom>>

(* After the first game pak has been loaded: nothing was mapped before.    *)
Init ==
  /\ game \in Games
  /\ gamepak_rom = Loaded(game, [s \in Slots |-> <<game, Header>>])
  /\ gamepak_memory_map = [s \in Slots |-> [page_timestamp |-> 0, physical_index |-> 0]]
  /\ memory_map_read =
       [m \in Mirrors |-> [p \in Pages |->
         IF ~IsLarge(game) /\ p < gamepak_size THEN p ELSE NULL]]
  /\ page_time = 0
  /\ seen = {}

----------------------------------------------------------------------------
(* evict_gamepak_page: the last of the pages with the smallest time stamp. *)
Evicted(s) ==
  \A t \in Slots :
    LET a == gamepak_memory_map[s].page_timestamp
        b == gamepak_memory_map[t].page_timestamp
    IN a < b \/ (a = b /\ t <= s)

NextTime == (page_time + 1) % TimeModulus

MutMapKept(s, p) ==
  [m \in Mirrors |-> [memory_map_read[m] EXCEPT ![p] = s]]

MutMapFirst(s, p) ==
  [m \in Mirrors |->
    [memory_map_read[m] EXCEPT ![gamepak_memory_map[s].physical_index] = NULL,
                               ![p] = IF m = "8" THEN s ELSE @]]

MutMapOrder(s, p) ==
  [m \in Mirrors |->
    [memory_map_read[m] EXCEPT ![p] = s,
                               ![gamepak_memory_map[s].physical_index] = NULL]]

(* The map when page p replaces what page s of the buffer held.            *)
MapWith(s, p) ==
  [m \in Mirrors |->
    [memory_map_read[m] EXCEPT ![gamepak_memory_map[s].physical_index] = NULL,
                               ![p] = s]]

(* load_gamepak_page(p), and what it notes of the page.                    *)
Record(s, p) ==
  [gamepak_memory_map EXCEPT ![s] =
    [page_timestamp |-> page_time, physical_index |-> p]]

LoadGamepakPage(p) ==
  \E s \in Slots :
    /\ Evicted(s)
    /\ gamepak_memory_map' = Record(s, p)
    /\ page_time' = NextTime
    /\ gamepak_rom' = [gamepak_rom EXCEPT ![s] = <<game, p>>]
    /\ memory_map_read' = MapWith(s, p)
    /\ seen' = seen \cup {p}

(* The guest reads, executes or copies from page p of copy m: every such   *)
(* access loads a page of the ROM that is not mapped.  (Beyond the end of  *)
(* the ROM load_gamepak_page changes nothing, and is rarely called.)       *)
Access(m, p) ==
  /\ p < gamepak_size
  /\ IF memory_map_read[m][p] = NULL
       THEN LoadGamepakPage(p) /\ UNCHANGED game
       ELSE UNCHANGED vars

Next ==
  \/ LoadROM \/ Reset
  \/ \E m \in Mirrors, p \in Pages : Access(m, p)

Spec == Init /\ [][Next]_vars

----------------------------------------------------------------------------
(* The page map, the slots' notes and page_time keep their types: every    *)
(* entry is NULL or a page that the ROM buffer has.                        *)
TypeOK ==
  /\ game \in Games
  /\ memory_map_read \in [Mirrors -> [Pages -> Slots \cup {NULL}]]
  /\ gamepak_memory_map \in
       [Slots -> [page_timestamp : 0 .. TimeModulus - 1, physical_index : Pages]]
  /\ gamepak_rom \in [Slots -> Games \X (Pages \cup {Header})]
  /\ page_time \in 0 .. TimeModulus - 1
  /\ seen \in SUBSET Pages

(* init_memory_gamepak leaves out the upper half of the last copy, so a    *)
(* page there may still be mapped as the game pak before had it.           *)
Forgotten(m, p) == IsLarge(game) /\ UpperC(m, p) /\ p \notin seen

(* The buffer holds the right page wherever the map points, in every copy  *)
(* and through every eviction, also when time stamps are equal or page_time *)
(* has wrapped.                                                            *)
MapCoherent ==
  \A m \in Mirrors, p \in Pages :
    memory_map_read[m][p] # NULL /\ ~Forgotten(m, p) =>
      /\ p < gamepak_size
      /\ gamepak_rom[memory_map_read[m][p]] = <<game, p>>

(* The copies of the ROM show the same: an eviction takes a page out of    *)
(* all of them.                                                            *)
CopiesAgree ==
  \A m, n \in Mirrors, p \in Pages :
    ~Forgotten(m, p) /\ ~Forgotten(n, p) => memory_map_read[m][p] = memory_map_read[n][p]

(* gamepak_memory_map names every page that is mapped: an eviction finds   *)
(* the entries it has to clear.                                            *)
SlotsKnown ==
  IsLarge(game) =>
    \A m \in Mirrors, p \in Pages :
      memory_map_read[m][p] # NULL /\ ~Forgotten(m, p) =>
        gamepak_memory_map[memory_map_read[m][p]].physical_index = p

(* A ROM that fits is mapped as a whole and never paged.                   *)
SmallMapped ==
  ~IsLarge(game) =>
    \A m \in Mirrors, p \in Pages :
      memory_map_read[m][p] = IF p < gamepak_size THEN p ELSE NULL

PagingInv == TypeOK /\ MapCoherent /\ CopiesAgree /\ SlotsKnown /\ SmallMapped

(* An access to a page that is not mapped finds it afterwards, also when   *)
(* the page evicted for it is the page itself.                             *)
LoadsRight ==
  [][\A m \in Mirrors, p \in Pages :
       Access(m, p) =>
         /\ memory_map_read'[m][p] # NULL
         /\ gamepak_rom'[memory_map_read'[m][p]] = <<game, p>>]_vars
=============================================================================
