------------------------ MODULE GamepakPagingProofs ------------------------
(***************************************************************************)
(* Proofs about the paging of the ROM, for every size of the address space *)
(* and of the buffer, every set of game paks and every width of page_time. *)
(* PagingInv is inductive; that the map is coherent is a part of it.       *)
(***************************************************************************)
EXTENDS GamepakPaging, TLAPS

LEMMA Sizes == \A g \in Games : RomPages[g] \in Nat /\ 0 < RomPages[g] /\ RomPages[g] <= SpacePages
BY PagingAssumption

LEMMA SmallFits ==
  ASSUME NEW g \in Games, ~IsLarge(g)
  PROVE  RomPages[g] <= BufferPages
BY Sizes, PagingAssumption DEF IsLarge

(* What the buffer holds after a game pak has been loaded.                 *)
LEMMA LoadedType ==
  ASSUME NEW g \in Games, NEW rom \in [Slots -> Games \X (Pages \cup {Header})]
  PROVE  /\ Loaded(g, rom) \in [Slots -> Games \X (Pages \cup {Header})]
         /\ ~IsLarge(g) => \A p \in Pages : p < RomPages[g] => Loaded(g, rom)[p] = <<g, p>>
<1>1. CASE IsLarge(g)
  BY <1>1, PagingAssumption DEF Loaded, Slots
<1>2. CASE ~IsLarge(g)
  <2>1. ASSUME NEW s \in Slots, s < RomPages[g]
        PROVE  s \in Pages
    BY <2>1, Sizes, PagingAssumption DEF Slots, Pages
  <2>2. ASSUME NEW p \in Pages, p < RomPages[g]
        PROVE  p \in Slots
    BY <1>2, <2>2, SmallFits, Sizes, PagingAssumption DEF Slots, Pages
  <2> QED
    BY <1>2, <2>1, <2>2 DEF Loaded
<1> QED
  BY <1>1, <1>2

(* init_memory establishes the invariant for the game pak in the buffer.   *)
LEMMA InitialisedMap ==
  ASSUME TypeOK, game' \in Games, InitMemoryGamepak(game'),
         gamepak_rom' \in [Slots -> Games \X (Pages \cup {Header})],
         ~IsLarge(game') => \A p \in Pages : p < RomPages[game'] => gamepak_rom'[p] = <<game', p>>
  PROVE  PagingInv'
<1> DEFINE g == game'
<1>1. \A m \in Mirrors, p \in Pages :
        memory_map_read'[m][p] =
          IF IsLarge(g) THEN IF UpperC(m, p) THEN memory_map_read[m][p] ELSE NULL
          ELSE IF p < RomPages[g] THEN p ELSE NULL
  BY DEF InitMemoryGamepak
<1>2. seen' = {} /\ page_time' = page_time
  BY DEF InitMemoryGamepak
<1>3. ASSUME ~IsLarge(g), NEW p \in Pages, p < RomPages[g]
      PROVE  p \in Slots
  BY <1>3, SmallFits, Sizes, PagingAssumption DEF Slots, Pages
<1>4. \A m \in Mirrors, p \in Pages : memory_map_read'[m][p] \in Slots \cup {NULL}
  BY <1>1, <1>3 DEF TypeOK
<1>5. memory_map_read' \in [Mirrors -> [Pages -> Slots \cup {NULL}]]
  BY <1>4 DEF InitMemoryGamepak
<1>6. gamepak_memory_map' \in
        [Slots -> [page_timestamp : 0 .. TimeModulus - 1, physical_index : Pages]]
  <2>1. 0 \in 0 .. TimeModulus - 1 /\ 0 \in Pages
    BY Sizes, PagingAssumption DEF Pages
  <2> QED
    BY <2>1 DEF InitMemoryGamepak, TypeOK
<1>7. TypeOK'
  BY <1>2, <1>5, <1>6 DEF TypeOK
<1>8. \A m \in Mirrors, p \in Pages :
        memory_map_read'[m][p] # NULL /\ ~Forgotten(m, p)' => ~IsLarge(g) /\ p < RomPages[g]
  BY <1>1, <1>2 DEF Forgotten, IsLarge
<1>9. MapCoherent'
  BY <1>1, <1>8 DEF MapCoherent, gamepak_size
<1>10. CopiesAgree'
  BY <1>1, <1>2 DEF CopiesAgree, Forgotten, IsLarge
<1>11. SlotsKnown'
  BY <1>8 DEF SlotsKnown, IsLarge
<1>12. SmallMapped'
  BY <1>1 DEF SmallMapped, IsLarge, gamepak_size
<1> QED
  BY <1>7, <1>9, <1>10, <1>11, <1>12 DEF PagingInv

(* Paging in: the page evicted disappears from every copy.                 *)
LEMMA PagedIn ==
  ASSUME PagingInv, NEW q \in Mirrors, NEW p \in Pages, p < gamepak_size,
         memory_map_read[q][p] = NULL, LoadGamepakPage(p), game' = game
  PROVE  /\ PagingInv'
         /\ \A m \in Mirrors : /\ memory_map_read'[m][p] # NULL
                               /\ gamepak_rom'[memory_map_read'[m][p]] = <<game, p>>
<1>1. IsLarge(game)
  BY PagingAssumption DEF PagingInv, SmallMapped, Slots, Pages, TypeOK, IsLarge, gamepak_size
<1>2. PICK s \in Slots :
        /\ gamepak_memory_map' = Record(s, p)
        /\ page_time' = NextTime
        /\ gamepak_rom' = [gamepak_rom EXCEPT ![s] = <<game, p>>]
        /\ memory_map_read' = MapWith(s, p)
        /\ seen' = seen \cup {p}
  BY DEF LoadGamepakPage
<1> DEFINE old == gamepak_memory_map[s].physical_index
<1>3. TypeOK /\ old \in Pages /\ s # NULL /\ s \notin {NULL}
  BY PagingAssumption DEF PagingInv, TypeOK
<1>4. \A m \in Mirrors, r \in Pages :
        memory_map_read'[m][r] = IF r = p THEN s ELSE IF r = old THEN NULL ELSE memory_map_read[m][r]
  BY <1>2, <1>3 DEF MapWith, TypeOK
<1>5. \A t \in Slots : gamepak_memory_map'[t] =
        IF t = s THEN [page_timestamp |-> page_time, physical_index |-> p] ELSE gamepak_memory_map[t]
  BY <1>2, <1>3 DEF Record, TypeOK
<1>6. \A t \in Slots : gamepak_rom'[t] = IF t = s THEN <<game, p>> ELSE gamepak_rom[t]
  BY <1>2, <1>3 DEF TypeOK
<1>7. TypeOK'
  <2>1. memory_map_read' \in [Mirrors -> [Pages -> Slots \cup {NULL}]]
    BY <1>2, <1>3 DEF MapWith, TypeOK
  <2>2. gamepak_memory_map' \in
          [Slots -> [page_timestamp : 0 .. TimeModulus - 1, physical_index : Pages]]
    BY <1>2, <1>3 DEF Record, TypeOK
  <2>3. gamepak_rom' \in [Slots -> Games \X (Pages \cup {Header})]
    BY <1>2, <1>3 DEF TypeOK
  <2>4. page_time' \in 0 .. TimeModulus - 1
    BY <1>2, <1>3, PagingAssumption DEF NextTime, TypeOK
  <2>5. seen' \in SUBSET Pages
    BY <1>2, <1>3 DEF TypeOK
  <2> QED
    BY <1>3, <2>1, <2>2, <2>3, <2>4, <2>5 DEF TypeOK
(* An entry left as it was does not point to the page that was replaced.   *)
<1>8. ASSUME NEW m \in Mirrors, NEW r \in Pages, r # p,
             memory_map_read'[m][r] # NULL, ~Forgotten(m, r)'
      PROVE  /\ memory_map_read'[m][r] = memory_map_read[m][r]
             /\ memory_map_read[m][r] \in Slots \ {s}
             /\ ~Forgotten(m, r)
  <2>1. r # old /\ memory_map_read'[m][r] = memory_map_read[m][r]
    BY <1>4, <1>8
  <2>2. ~Forgotten(m, r)
    BY <1>2, <1>8 DEF Forgotten, IsLarge
  <2>3. memory_map_read[m][r] \in Slots
    BY <1>3, <1>8, <2>1 DEF TypeOK
  <2>4. gamepak_memory_map[memory_map_read[m][r]].physical_index = r
    BY <1>1, <1>8, <2>1, <2>2 DEF PagingInv, SlotsKnown
  <2> QED
    BY <2>1, <2>2, <2>3, <2>4
<1>9. MapCoherent'
  <2> SUFFICES ASSUME NEW m \in Mirrors, NEW r \in Pages,
                      memory_map_read'[m][r] # NULL, ~Forgotten(m, r)'
               PROVE  /\ r < gamepak_size'
                      /\ gamepak_rom'[memory_map_read'[m][r]] = <<game', r>>
    BY DEF MapCoherent
  <2>1. CASE r = p
    BY <2>1, <1>4, <1>6 DEF gamepak_size
  <2>2. CASE r # p
    BY <2>2, <1>6, <1>8 DEF PagingInv, MapCoherent, gamepak_size
  <2> QED
    BY <2>1, <2>2
<1>10. SlotsKnown'
  <2> SUFFICES ASSUME NEW m \in Mirrors, NEW r \in Pages,
                      memory_map_read'[m][r] # NULL, ~Forgotten(m, r)'
               PROVE  gamepak_memory_map'[memory_map_read'[m][r]].physical_index = r
    BY DEF SlotsKnown
  <2>1. CASE r = p
    BY <2>1, <1>4, <1>5
  <2>2. CASE r # p
    BY <2>2, <1>1, <1>5, <1>8 DEF PagingInv, SlotsKnown
  <2> QED
    BY <2>1, <2>2
<1>11. CopiesAgree'
  <2> SUFFICES ASSUME NEW m \in Mirrors, NEW n \in Mirrors, NEW r \in Pages,
                      ~Forgotten(m, r)', ~Forgotten(n, r)'
               PROVE  memory_map_read'[m][r] = memory_map_read'[n][r]
    BY DEF CopiesAgree
  <2>1. CASE r \in {p, old}
    BY <2>1, <1>4
  <2>2. CASE r \notin {p, old}
    <3>1. ~Forgotten(m, r) /\ ~Forgotten(n, r)
      BY <2>2, <1>2 DEF Forgotten, IsLarge
    <3> QED
      BY <2>2, <3>1, <1>4 DEF PagingInv, CopiesAgree
  <2> QED
    BY <2>1, <2>2
<1>12. SmallMapped'
  BY <1>1 DEF SmallMapped, IsLarge
<1> QED
  BY <1>3, <1>4, <1>6, <1>7, <1>9, <1>10, <1>11, <1>12 DEF PagingInv

LEMMA Initially == Init => PagingInv
<1> SUFFICES ASSUME Init PROVE PagingInv
  OBVIOUS
<1> DEFINE rom0 == [s \in Slots |-> <<game, Header>>]
<1>1. game \in Games /\ gamepak_rom = Loaded(game, rom0) /\ seen = {} /\ page_time = 0
  BY DEF Init
<1>2. rom0 \in [Slots -> Games \X (Pages \cup {Header})]
  BY <1>1
<1>3. /\ gamepak_rom \in [Slots -> Games \X (Pages \cup {Header})]
      /\ ~IsLarge(game) => \A p \in Pages : p < RomPages[game] => gamepak_rom[p] = <<game, p>>
  BY <1>1, <1>2, LoadedType
<1>4. \A m \in Mirrors, p \in Pages :
        memory_map_read[m][p] = IF ~IsLarge(game) /\ p < gamepak_size THEN p ELSE NULL
  BY DEF Init
<1>5. ASSUME ~IsLarge(game), NEW p \in Pages, p < RomPages[game]
      PROVE  p \in Slots
  BY <1>1, <1>5, SmallFits, Sizes, PagingAssumption DEF Slots, Pages
<1>6. memory_map_read \in [Mirrors -> [Pages -> Slots \cup {NULL}]]
  BY <1>5 DEF Init, gamepak_size
<1>7. 0 \in 0 .. TimeModulus - 1 /\ 0 \in Pages
  BY <1>1, Sizes, PagingAssumption DEF Pages
<1>8. gamepak_memory_map \in
        [Slots -> [page_timestamp : 0 .. TimeModulus - 1, physical_index : Pages]]
  BY <1>7 DEF Init
<1>9. TypeOK
  BY <1>1, <1>3, <1>6, <1>7, <1>8 DEF TypeOK
<1>10. MapCoherent /\ CopiesAgree /\ SlotsKnown /\ SmallMapped
  BY <1>3, <1>4 DEF MapCoherent, CopiesAgree, SlotsKnown, SmallMapped, gamepak_size
<1> QED
  BY <1>9, <1>10 DEF PagingInv

LEMMA EachStep == PagingInv /\ [Next]_vars => PagingInv'
<1> SUFFICES ASSUME PagingInv, [Next]_vars PROVE PagingInv'
  OBVIOUS
<1>1. CASE LoadROM
  <2>1. PICK g \in Games : /\ game' = g
                           /\ gamepak_rom' = Loaded(g, gamepak_rom)
                           /\ InitMemoryGamepak(g)
    BY <1>1 DEF LoadROM
  <2>2. TypeOK /\ gamepak_rom \in [Slots -> Games \X (Pages \cup {Header})]
    BY DEF PagingInv, TypeOK
  <2> QED
    BY <2>1, <2>2, LoadedType, InitialisedMap
<1>2. CASE Reset
  <2>1. game' = game /\ gamepak_rom' = gamepak_rom /\ InitMemoryGamepak(game')
    BY <1>2 DEF Reset
  <2>2. TypeOK /\ game' \in Games /\ gamepak_rom' \in [Slots -> Games \X (Pages \cup {Header})]
    BY <2>1 DEF PagingInv, TypeOK
  <2>3. ~IsLarge(game) => \A p \in Pages : p < RomPages[game] => gamepak_rom[p] = <<game, p>>
    <3> SUFFICES ASSUME ~IsLarge(game), NEW p \in Pages, p < RomPages[game]
                 PROVE  gamepak_rom[p] = <<game, p>>
      OBVIOUS
    <3>1. p # NULL
      BY <2>2, <2>1, SmallFits, Sizes, PagingAssumption DEF Slots, Pages
    <3>2. "8" \in Mirrors /\ ~Forgotten("8", p)
      BY DEF Mirrors, Forgotten
    <3>3. memory_map_read["8"][p] = p
      BY <3>2 DEF PagingInv, SmallMapped, gamepak_size
    <3> QED
      BY <3>1, <3>2, <3>3 DEF PagingInv, MapCoherent
  <2> QED
    BY <2>1, <2>2, <2>3, InitialisedMap
<1>3. ASSUME NEW m \in Mirrors, NEW p \in Pages, Access(m, p)
      PROVE  PagingInv'
  <2>1. CASE memory_map_read[m][p] = NULL
    BY <1>3, <2>1, PagedIn DEF Access
  <2>2. CASE memory_map_read[m][p] # NULL
    <3>1. UNCHANGED vars
      BY <1>3, <2>2 DEF Access
    <3> QED
      BY <3>1 DEF vars, PagingInv, TypeOK, MapCoherent, CopiesAgree, SlotsKnown, SmallMapped,
                  Forgotten, gamepak_size
  <2> QED
    BY <2>1, <2>2
<1>4. CASE UNCHANGED vars
  BY <1>4 DEF vars, PagingInv, TypeOK, MapCoherent, CopiesAgree, SlotsKnown, SmallMapped,
              Forgotten, gamepak_size
<1> QED
  BY <1>1, <1>2, <1>3, <1>4 DEF Next

(* The invariant of the paging holds throughout, however the ROMs and the  *)
(* buffer are sized.                                                       *)
THEOREM Paging == Spec => []PagingInv
BY Initially, EachStep, PTL DEF Spec

(* Wherever the map points, the buffer holds the page that was addressed   *)
(* (load_gamepak_page and evict_gamepak_page of memory.c).                 *)
THEOREM CoherentMap == Spec => []MapCoherent
<1>1. PagingInv => MapCoherent
  BY DEF PagingInv
<1> QED
  BY <1>1, Paging, PTL

(* The three copies of the ROM show the same pages.                        *)
THEOREM AgreeingCopies == Spec => []CopiesAgree
<1>1. PagingInv => CopiesAgree
  BY DEF PagingInv
<1> QED
  BY <1>1, Paging, PTL

(* Every access that has to load its page finds it in the map afterwards.  *)
THEOREM PagesArrive == Spec => LoadsRight
<1> DEFINE Arrives ==
      \A m \in Mirrors, p \in Pages :
        Access(m, p) => /\ memory_map_read'[m][p] # NULL
                        /\ gamepak_rom'[memory_map_read'[m][p]] = <<game, p>>
<1>1. PagingInv /\ [Next]_vars => [Arrives]_vars
  <2> SUFFICES ASSUME PagingInv, NEW m \in Mirrors, NEW p \in Pages, Access(m, p),
                      vars' # vars
               PROVE  /\ memory_map_read'[m][p] # NULL
                      /\ gamepak_rom'[memory_map_read'[m][p]] = <<game, p>>
    OBVIOUS
  <2>1. memory_map_read[m][p] = NULL /\ p < gamepak_size /\ LoadGamepakPage(p) /\ game' = game
    BY DEF Access
  <2> QED
    BY <2>1, PagedIn
<1> QED
  BY <1>1, Paging, PTL DEF Spec, LoadsRight
=============================================================================
