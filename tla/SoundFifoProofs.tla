------------------------- MODULE SoundFifoProofs -------------------------
(***************************************************************************)
(* The FIFOs of direct sound for every block size: samples stay in order,  *)
(* a channel with its DMA does not starve, and the DMA registers agree     *)
(* with what will be transferred.  TypeOK, InOrder, NeverStarves and       *)
(* DmaCoherent are inductive together.                                     *)
(***************************************************************************)
EXTENDS SoundFifo, TLAPS

Inv == TypeOK /\ InOrder /\ NeverStarves /\ DmaCoherent

Places == 0 .. FifoSize - 1

----------------------------------------------------------------------------
(* The ring.                                                               *)

LEMMA SizeFacts == Block \in Nat /\ Block > 0 /\ FifoSize = 2 * Block /\ FifoSize \in Nat
BY FifoAssumption DEF FifoSize

LEMMA MovedType ==
  ASSUME NEW p \in Places, NEW k \in 0 .. FifoSize
  PROVE  Moved(p, k) \in Places
BY SizeFacts DEF Moved, Places

LEMMA FilledType ==
  ASSUME NEW b \in Places, NEW t \in Places
  PROVE  /\ Filled(b, t) \in 1 .. FifoSize
         /\ Queued(b, t) \in 0 .. FifoSize - 1
BY SizeFacts DEF Filled, Queued, Places

(* What is left when a sample was taken.                                   *)
LEMMA LeftBehind ==
  ASSUME NEW b \in Places, NEW t \in Places
  PROVE  Queued(Moved(b, 1), t) = Filled(b, t) - 1
BY SizeFacts DEF Filled, Queued, Moved, Places

(* A ring with something in it, and one that is given a block.             *)
LEMMA FilledAgain ==
  ASSUME NEW b \in Places, NEW t \in Places
  PROVE  /\ Queued(b, t) > 0 => Filled(b, t) = Queued(b, t)
         /\ Queued(b, t) <= Block => Filled(b, Moved(t, Block)) = Queued(b, t) + Block
BY SizeFacts DEF Filled, Queued, Moved, Places

----------------------------------------------------------------------------
(* DMA.                                                                    *)

LEMMA TransferredKeeps ==
  ASSUME TypeOK, DmaCoherent, NEW ns \in SUBSET Dmas, Transferred(ns)
  PROVE  /\ dma' \in [Dmas -> Dma]
         /\ enabled' \in [Dmas -> BOOLEAN]
         /\ astray' \in [Dmas -> BOOLEAN]
         /\ DmaCoherent'
<1>1. \A n \in Dmas : dma[n] \in Dma /\ Ended(dma[n]) \in Dma
  BY DEF TypeOK, Dma, Ended
<1>2. dma' \in [Dmas -> Dma]
  BY <1>1 DEF Transferred
<1>3. enabled' \in [Dmas -> BOOLEAN] /\ astray' \in [Dmas -> BOOLEAN]
  BY Zenon DEF Transferred, TypeOK
<1>4. ASSUME NEW n \in Dmas
      PROVE  /\ enabled'[n] <=> dma'[n].start # "INACTIVE"
             /\ dma'[n].direct_sound_channel # NONE =>
                  astray'[n] \/ (dma'[n].start = "SPECIAL" /\ dma'[n].sound)
  <2>1. /\ enabled[n] <=> dma[n].start # "INACTIVE"
        /\ dma[n].direct_sound_channel # NONE =>
             astray[n] \/ (dma[n].start = "SPECIAL" /\ dma[n].sound)
    BY DEF DmaCoherent
  <2>2. CASE n \in ns /\ Ends(dma[n])
    <3>1. /\ dma'[n] = Ended(dma[n])
          /\ enabled'[n] = FALSE
          /\ astray'[n] = (astray[n] \/ dma[n].direct_sound_channel # NONE)
      BY <2>2 DEF Transferred
    <3>2. /\ dma'[n].start = "INACTIVE"
          /\ dma'[n].direct_sound_channel = dma[n].direct_sound_channel
      BY <1>1, <3>1 DEF Ended, Dma
    <3>3. QED
      BY <3>1, <3>2
  <2>3. CASE ~(n \in ns /\ Ends(dma[n]))
    <3>1. dma'[n] = dma[n] /\ enabled'[n] = enabled[n] /\ astray'[n] = astray[n]
      BY <2>3 DEF Transferred, TypeOK
    <3>2. QED
      BY <2>1, <3>1
  <2>4. QED
    BY <2>2, <2>3
<1>5. QED
  BY <1>2, <1>3, <1>4 DEF DmaCoherent

----------------------------------------------------------------------------
(* A sample is taken.                                                      *)

(* The bytes that the DMA brings, and their number when it is supplied.    *)
LEMMA BytesBrought ==
  ASSUME NEW c \in Channels, TypeOK
  PROVE  /\ Filling(c) \in SUBSET Dmas
         /\ Supplied(c) => Filling(c) # {} /\ Filling(c) # Dmas /\ global_enable_audio
BY DEF Filling, Served, Supplied, Dmas

(* The values of the sample's channel after the step.                      *)
LEMMA SoundTimerStep ==
  ASSUME Inv, NEW c \in Channels, SoundTimer(c)
  PROVE  /\ fifo_base'[c] \in Places /\ fifo_top'[c] \in Places
         /\ fresh'[c] \in 0 .. FifoSize
         /\ crowded'[c] \in BOOLEAN /\ fed'[c] \in BOOLEAN
         /\ crowded'[c] \/ fresh'[c] <= Filled(fifo_base'[c], fifo_top'[c])
         /\ fed'[c] => fresh'[c] = Filled(fifo_base'[c], fifo_top'[c])
<1> DEFINE b == fifo_base[c]
           t == fifo_top[c]
           filled == Filled(b, t)
           base == IF global_enable_audio THEN Moved(b, 1) ELSE b
           q == Queued(base, t)
           bytes == IF ~(q <= Block) \/ Filling(c) = {} THEN 0
                    ELSE IF Filling(c) = Dmas THEN 2 * Block ELSE Block
           top == Moved(t, bytes)
           left == IF global_enable_audio /\ fresh[c] >= filled THEN filled - 1 ELSE fresh[c]
           excuse == bytes > 0 /\ (~global_enable_audio \/ bytes > Block)
           some == IF excuse \/ crowded[c] THEN Smaller(left + bytes, FifoSize) ELSE left + bytes
<1>0. /\ b \in Places /\ t \in Places /\ fresh[c] \in 0 .. FifoSize
      /\ crowded[c] \in BOOLEAN /\ fed[c] \in BOOLEAN
      /\ crowded[c] \/ fresh[c] <= filled
      /\ fed[c] => fresh[c] = filled
      /\ global_enable_audio \in BOOLEAN
  BY DEF Inv, TypeOK, InOrder, NeverStarves, Places
<1>1. /\ fifo_base'[c] = base /\ fifo_top'[c] = top /\ fresh'[c] = some
      /\ crowded'[c] = ((crowded[c] /\ left > 0) \/ excuse)
      /\ fed'[c] = (Supplied(c) /\ ~crowded'[c] /\ (fed[c] \/ fresh[c] >= filled))
  BY DEF SoundTimer, Asks, Inv, TypeOK
<1>2. base \in Places /\ bytes \in {0, Block, 2 * Block} /\ bytes \in 0 .. FifoSize
  BY <1>0, MovedType, SizeFacts
<1>3. top \in Places
  BY <1>0, <1>2, MovedType
<1>4. filled \in 1 .. FifoSize /\ q \in 0 .. FifoSize - 1 /\ left \in 0 .. FifoSize
  BY <1>0, <1>2, FilledType, SizeFacts
<1>5. /\ q > 0 => Filled(base, t) = q
      /\ q <= Block => Filled(base, Moved(t, Block)) = q + Block
      /\ Moved(t, 0) = t
      /\ Filled(base, t) \in 1 .. FifoSize /\ Filled(base, top) \in 1 .. FifoSize
      /\ q = 0 => Filled(base, t) = FifoSize
  <2>1. /\ q > 0 => Filled(base, t) = q
        /\ q <= Block => Filled(base, Moved(t, Block)) = q + Block
        /\ Filled(base, t) \in 1 .. FifoSize /\ Filled(base, top) \in 1 .. FifoSize
    <3> HIDE DEF base, top
    <3> QED
      BY <1>0, <1>2, <1>3, FilledAgain, FilledType DEF q
  <2>2. Moved(t, 0) = t
    BY <1>0, SizeFacts DEF Moved, Places
  <2>3. q = 0 => Filled(base, t) = FifoSize
    <3> HIDE DEF base
    <3> QED
      BY <1>0, <1>2, SizeFacts DEF q, Filled, Queued, Places
  <2>4. QED
    BY <2>1, <2>2, <2>3
<1>6. global_enable_audio => q = filled - 1
  BY <1>0, LeftBehind
<1>7. CASE crowded'[c]
  <2>1. some \in 0 .. FifoSize
    <3>1. excuse \/ crowded[c]
      BY <1>0, <1>1, <1>7
    <3>2. QED
      BY <1>2, <1>4, <3>1, SizeFacts DEF Smaller
  <2>2. ~fed'[c]
    BY <1>1, <1>7
  <2>3. QED
    BY <1>0, <1>1, <1>2, <1>3, <1>7, <2>1, <2>2
<1>8. CASE ~crowded'[c]
  <2>1. ~excuse /\ (crowded[c] => left = 0)
    <3>1. ~excuse /\ ~(crowded[c] /\ left > 0)
      BY <1>1, <1>8, Zenon
    <3>2. left > 0 \/ left = 0
      BY <1>4, SizeFacts
    <3>3. QED
      BY <3>1, <3>2, Zenon
  <2>2. some = left + bytes
    <3>1. CASE crowded[c]
      BY <1>2, <2>1, <3>1, SizeFacts DEF Smaller
    <3>2. CASE ~crowded[c]
      BY <2>1, <3>2
    <3>3. QED
      BY <1>0, <3>1, <3>2
  <2>3. bytes = 0 \/ (bytes = Block /\ global_enable_audio /\ q <= Block)
    BY <1>2, <2>1, SizeFacts
  <2>4. global_enable_audio => left <= q
    BY <1>0, <1>4, <1>6, <2>1
  <2>5. left + bytes <= Filled(base, top)
    <3>1. CASE bytes = Block /\ global_enable_audio /\ q <= Block
      BY <1>4, <1>5, <2>4, <3>1, SizeFacts
    <3>2. CASE bytes = 0 /\ global_enable_audio
      BY <1>4, <1>5, <2>4, <3>2, SizeFacts
    <3>3. CASE bytes = 0 /\ ~global_enable_audio
      <4>1. base = b /\ left = fresh[c] /\ top = t
        BY <1>5, <3>3
      <4>2. QED
        BY <1>0, <1>4, <2>1, <3>3, <4>1
    <3>4. QED
      BY <1>0, <2>3, <3>1, <3>2, <3>3
  <2>6. some \in 0 .. FifoSize
    BY <1>2, <1>4, <1>5, <2>2, <2>5, SizeFacts
  <2>7. fed'[c] => some = Filled(base, top)
    <3> HAVE fed'[c]
    <3>0. Supplied(c) /\ (fed[c] \/ fresh[c] >= filled)
      BY <1>1, Zenon
    <3>1. Supplied(c) /\ fresh[c] >= filled
      BY <1>0, <1>4, <3>0
    <3>2. global_enable_audio /\ Filling(c) # {} /\ Filling(c) # Dmas
      BY <3>1, BytesBrought DEF Inv
    <3>3. left = q
      BY <1>6, <3>1, <3>2
    <3>4. CASE q <= Block
      BY <1>5, <2>2, <3>2, <3>3, <3>4
    <3>5. CASE ~(q <= Block)
      <4>1. bytes = 0 /\ q > 0
        BY <1>4, <3>5, SizeFacts
      <4>2. QED
        BY <1>4, <1>5, <2>2, <3>3, <4>1
    <3>6. QED
      BY <3>4, <3>5
  <2>8. fed'[c] \in BOOLEAN
    BY <1>0, <1>1, Zenon DEF Supplied
  <2>9. QED
    BY <1>1, <1>2, <1>3, <1>8, <2>2, <2>5, <2>6, <2>7, <2>8
<1>9. QED
  BY <1>7, <1>8

(* The other channel keeps what it has.                                    *)
LEMMA SoundTimerKeeps ==
  ASSUME Inv, NEW c \in Channels, SoundTimer(c)
  PROVE  Inv'
<1>1. global_enable_audio' \in BOOLEAN /\ c \in Channels
  BY DEF SoundTimer, Inv, TypeOK
<1>2. \A o \in Channels \ {c} :
        /\ fifo_base'[o] = fifo_base[o] /\ fifo_top'[o] = fifo_top[o]
        /\ fresh'[o] = fresh[o] /\ crowded'[o] = crowded[o] /\ fed'[o] = fed[o]
  BY DEF SoundTimer, Inv, TypeOK
<1>3. /\ fifo_base' = [fifo_base EXCEPT ![c] = fifo_base'[c]]
      /\ fifo_top' = [fifo_top EXCEPT ![c] = fifo_top'[c]]
      /\ fresh' = [fresh EXCEPT ![c] = fresh'[c]]
      /\ crowded' = [crowded EXCEPT ![c] = crowded'[c]]
      /\ fed' = [fed EXCEPT ![c] = fed'[c]]
  BY DEF SoundTimer, Inv, TypeOK
<1>4. /\ dma' \in [Dmas -> Dma] /\ enabled' \in [Dmas -> BOOLEAN]
      /\ astray' \in [Dmas -> BOOLEAN] /\ DmaCoherent'
  <2>1. Transferred(Served(c)) \/ UNCHANGED <<control, astray>>
    BY DEF SoundTimer
  <2>2. CASE Transferred(Served(c))
    BY <2>2, TransferredKeeps DEF Served, Inv
  <2>3. CASE UNCHANGED <<control, astray>>
    BY <2>3 DEF control, Inv, TypeOK, DmaCoherent
  <2>4. QED
    BY <2>1, <2>2, <2>3
<1>5. TypeOK'
  BY <1>1, <1>3, <1>4, SoundTimerStep DEF TypeOK, Inv, Places
<1>6. InOrder' /\ NeverStarves'
  BY <1>2, SoundTimerStep DEF InOrder, NeverStarves, Inv
<1>7. QED
  BY <1>4, <1>5, <1>6 DEF Inv

----------------------------------------------------------------------------
(* The other steps.                                                        *)

LEMMA BlankDmaKeeps ==
  ASSUME Inv, BlankDma
  PROVE  Inv'
<1>1. /\ dma' \in [Dmas -> Dma] /\ enabled' \in [Dmas -> BOOLEAN]
      /\ astray' \in [Dmas -> BOOLEAN] /\ DmaCoherent'
  BY TransferredKeeps DEF BlankDma, Inv
<1>2. QED
  BY <1>1 DEF BlankDma, fifos, history, Inv, TypeOK, InOrder, NeverStarves

LEMMA TriggerDmaKeeps ==
  ASSUME Inv, NEW n \in Dmas, NEW start \in {"IMMEDIATELY", "BLANK", "SPECIAL"},
         NEW repeat \in BOOLEAN, NEW dest \in {"A", "B", "MEM"},
         TriggerDma(n, start, repeat, dest)
  PROVE  Inv'
<1> DEFINE d == [start |-> start, repeat |-> repeat, sound |-> start = "SPECIAL", dest |-> dest,
                 direct_sound_channel |->
                   IF start # "SPECIAL" THEN dma[n].direct_sound_channel
                   ELSE IF dest = "B" THEN "B" ELSE "A"]
           new == IF start = "IMMEDIATELY" THEN Ended(d) ELSE d
<1>1. /\ dma[n] \in Dma /\ dma[n].start = "INACTIVE" /\ enabled[n] = FALSE
      /\ dma[n].direct_sound_channel # NONE => astray[n]
  <2>1. dma[n] \in Dma /\ dma[n].start = "INACTIVE" /\ enabled[n] \in BOOLEAN
    BY DEF TriggerDma, Inv, TypeOK
  <2>2. /\ enabled[n] <=> dma[n].start # "INACTIVE"
        /\ dma[n].direct_sound_channel # NONE =>
             astray[n] \/ (dma[n].start = "SPECIAL" /\ dma[n].sound)
    BY DEF Inv, DmaCoherent
  <2>3. QED
    BY <2>1, <2>2
<1>2. /\ dma' = [dma EXCEPT ![n] = new]
      /\ enabled' = [enabled EXCEPT ![n] = start # "IMMEDIATELY"]
      /\ astray' = [astray EXCEPT ![n] = @ /\ ~(start = "SPECIAL")]
      /\ fed' = [c \in Channels |-> FALSE]
      /\ UNCHANGED <<fifos, global_enable_audio, fresh, crowded>>
  BY DEF TriggerDma
<1>3. d \in [start : {"IMMEDIATELY", "INACTIVE", "BLANK", "SPECIAL"}, repeat : BOOLEAN,
            sound : BOOLEAN, dest : {"A", "B", "MEM"}, direct_sound_channel : {"A", "B", NONE}]
  <2>1. dma[n].direct_sound_channel \in {"A", "B", NONE}
    BY <1>1 DEF Dma
  <2>2. d.direct_sound_channel \in {"A", "B", NONE}
    BY <2>1
  <2>3. (start = "SPECIAL") \in BOOLEAN
    OBVIOUS
  <2>4. ASSUME NEW x \in {"A", "B", NONE}, NEW y \in BOOLEAN
        PROVE  [start |-> start, repeat |-> repeat, sound |-> y, dest |-> dest,
                direct_sound_channel |-> x] \in
               [start : {"IMMEDIATELY", "INACTIVE", "BLANK", "SPECIAL"}, repeat : BOOLEAN,
                sound : BOOLEAN, dest : {"A", "B", "MEM"},
                direct_sound_channel : {"A", "B", NONE}]
    OBVIOUS
  <2>5. QED
    BY <2>2, <2>3, <2>4
<1>4. new \in Dma
  BY <1>3 DEF Dma, Ended
<1>5. TypeOK'
  <2>1. dma' \in [Dmas -> Dma]
    BY <1>2, <1>4 DEF Inv, TypeOK
  <2>2. enabled' \in [Dmas -> BOOLEAN] /\ astray' \in [Dmas -> BOOLEAN]
    BY <1>2, Zenon DEF Inv, TypeOK
  <2>3. QED
    BY <1>2, <2>1, <2>2 DEF fifos, Inv, TypeOK
<1>6. DmaCoherent'
  <2>1. \A m \in Dmas \ {n} :
          dma'[m] = dma[m] /\ enabled'[m] = enabled[m] /\ astray'[m] = astray[m]
    BY <1>2 DEF Inv, TypeOK
  <2>2. /\ dma'[n] = new /\ enabled'[n] = (start # "IMMEDIATELY")
        /\ astray'[n] = (astray[n] /\ ~(start = "SPECIAL"))
    BY <1>2 DEF Inv, TypeOK
  <2>3. enabled'[n] <=> dma'[n].start # "INACTIVE"
    BY <1>3, <2>2 DEF Ended, Dma
  <2>4. dma'[n].direct_sound_channel # NONE =>
          astray'[n] \/ (dma'[n].start = "SPECIAL" /\ dma'[n].sound)
    <3>1. CASE start = "SPECIAL"
      <4>1. new = d /\ d.start = start /\ d.sound = (start = "SPECIAL")
        BY <3>1
      <4>2. dma'[n].start = "SPECIAL" /\ dma'[n].sound = (start = "SPECIAL")
        <5> HIDE DEF new, d
        <5> QED
          BY <2>2, <3>1, <4>1
      <4>3. QED
        BY <3>1, <4>2
    <3>2. CASE start # "SPECIAL"
      <4>1. new.direct_sound_channel = dma[n].direct_sound_channel
        BY <1>3, <3>2 DEF Ended
      <4>2. astray'[n] = astray[n]
        BY <2>2, <3>2, Zenon DEF Inv, TypeOK
      <4>3. QED
        BY <1>1, <2>2, <4>1, <4>2
    <3>3. QED
      BY <3>1, <3>2
  <2>5. QED
    BY <2>1, <2>3, <2>4 DEF Inv, DmaCoherent
<1>7. InOrder' /\ NeverStarves'
  BY <1>2 DEF fifos, Inv, InOrder, NeverStarves
<1>8. QED
  BY <1>5, <1>6, <1>7 DEF Inv

LEMMA StopDmaKeeps ==
  ASSUME Inv, NEW n \in Dmas, StopDma(n)
  PROVE  Inv'
<1>1. dma[n] \in Dma /\ [dma[n] EXCEPT !.start = "INACTIVE", !.direct_sound_channel = NONE] \in Dma
  BY DEF Inv, TypeOK, Dma
<1>2. dma' = [dma EXCEPT ![n] =
                [@ EXCEPT !.start = "INACTIVE", !.direct_sound_channel = NONE]]
  BY DEF StopDma
<1>3. dma' \in [Dmas -> Dma]
  BY <1>1, <1>2 DEF Inv, TypeOK
<1>4. enabled' \in [Dmas -> BOOLEAN] /\ astray' \in [Dmas -> BOOLEAN]
  BY Zenon DEF StopDma, Inv, TypeOK
<1>5. TypeOK'
  BY <1>3, <1>4 DEF StopDma, fifos, Inv, TypeOK
<1>6. DmaCoherent'
  <2>1. \A m \in Dmas \ {n} :
          dma'[m] = dma[m] /\ enabled'[m] = enabled[m] /\ astray'[m] = astray[m]
    BY <1>2 DEF StopDma, Inv, TypeOK
  <2>2. enabled'[n] = FALSE /\ dma'[n].start = "INACTIVE" /\ dma'[n].direct_sound_channel = NONE
    BY <1>1, <1>2 DEF StopDma, Inv, TypeOK, Dma
  <2>3. QED
    BY <2>1, <2>2 DEF Inv, DmaCoherent
<1>7. InOrder' /\ NeverStarves'
  BY DEF StopDma, fifos, Inv, InOrder, NeverStarves
<1>8. QED
  BY <1>5, <1>6, <1>7 DEF Inv

LEMMA SoundTimerQueueKeeps ==
  ASSUME Inv, NEW c \in Channels, NEW k \in Widths, SoundTimerQueue(c, k)
  PROVE  Inv'
<1> DEFINE top == Moved(fifo_top[c], k)
           crowds == crowded[c] \/ fresh[c] + k > Filled(fifo_base[c], top)
<1>1. /\ fifo_top' = [fifo_top EXCEPT ![c] = top]
      /\ fresh' = [fresh EXCEPT ![c] = Smaller(@ + k, FifoSize)]
      /\ crowded' = [crowded EXCEPT ![c] = crowds]
      /\ fed' = [fed EXCEPT ![c] = FALSE]
      /\ UNCHANGED <<fifo_base, global_enable_audio, control, astray>>
  BY DEF SoundTimerQueue
<1>2. /\ fifo_base[c] \in Places /\ fifo_top[c] \in Places /\ fresh[c] \in 0 .. FifoSize
      /\ k \in 1 .. FifoSize
  BY FifoAssumption DEF Inv, TypeOK, Places
<1>3. top \in Places /\ Filled(fifo_base[c], top) \in 1 .. FifoSize
  <2>1. k \in 0 .. FifoSize
    BY <1>2, SizeFacts
  <2>2. top \in Places
    BY <1>2, <2>1, MovedType
  <2>3. QED
    BY <1>2, <2>2, FilledType
<1>4. Smaller(fresh[c] + k, FifoSize) \in 0 .. FifoSize
  BY <1>2, SizeFacts DEF Smaller
<1>5. ~crowds => Smaller(fresh[c] + k, FifoSize) <= Filled(fifo_base[c], top)
  BY <1>2, <1>3, SizeFacts DEF Smaller
<1>6. TypeOK'
  <2>1. crowded' \in [Channels -> BOOLEAN] /\ fed' \in [Channels -> BOOLEAN]
    BY <1>1, Zenon DEF Inv, TypeOK
  <2>2. fifo_top' \in [Channels -> Places] /\ fresh' \in [Channels -> 0 .. FifoSize]
    BY <1>1, <1>3, <1>4 DEF Inv, TypeOK, Places
  <2>3. QED
    BY <1>1, <2>1, <2>2 DEF control, Inv, TypeOK, Places
<1>7. InOrder' /\ NeverStarves'
  <2>1. \A o \in Channels \ {c} :
          /\ fifo_top'[o] = fifo_top[o] /\ fresh'[o] = fresh[o]
          /\ crowded'[o] = crowded[o] /\ fed'[o] = fed[o]
    BY <1>1 DEF Inv, TypeOK
  <2>2. /\ fifo_top'[c] = top /\ fresh'[c] = Smaller(fresh[c] + k, FifoSize)
        /\ crowded'[c] = crowds /\ fed'[c] = FALSE /\ fifo_base' = fifo_base
    BY <1>1 DEF Inv, TypeOK
  <2>3. QED
    BY <1>5, <2>1, <2>2 DEF Inv, InOrder, NeverStarves
<1>8. DmaCoherent'
  BY <1>1 DEF control, Inv, DmaCoherent
<1>9. QED
  BY <1>6, <1>7, <1>8 DEF Inv

LEMMA SoundResetFifoKeeps ==
  ASSUME Inv, SoundResetFifo
  PROVE  Inv'
<1>1. /\ crowded' \in [Channels -> BOOLEAN] /\ fed' \in [Channels -> BOOLEAN]
  BY Zenon DEF SoundResetFifo, Inv, TypeOK
<1>2. TypeOK'
  BY <1>1, SizeFacts DEF SoundResetFifo, fifos, control, Inv, TypeOK
<1>3. ASSUME NEW c \in Channels
      PROVE  /\ crowded'[c] \/ fresh'[c] <= Filled(fifo_base[c], fifo_top[c])
             /\ fed'[c] => fresh'[c] = Filled(fifo_base[c], fifo_top[c])
  <2>1. Filled(fifo_base[c], fifo_top[c]) \in 1 .. FifoSize
    BY FilledType DEF Inv, TypeOK, Places
  <2>2. CASE c = "A"
    BY <2>1, <2>2, SizeFacts DEF SoundResetFifo, Inv, TypeOK
  <2>3. CASE c # "A"
    BY <2>3 DEF SoundResetFifo, Inv, TypeOK, InOrder, NeverStarves
  <2>4. QED
    BY <2>2, <2>3
<1>4. QED
  BY <1>2, <1>3 DEF SoundResetFifo, fifos, control, Inv, InOrder, NeverStarves, DmaCoherent

LEMMA ResetGbaKeeps ==
  ASSUME Inv, ResetGba
  PROVE  Inv'
<1>1. \A n \in Dmas : dma[n] \in Dma
        /\ [dma[n] EXCEPT !.start = "INACTIVE", !.direct_sound_channel = NONE] \in Dma
  BY DEF Inv, TypeOK, Dma
<1>2. dma' \in [Dmas -> Dma]
  BY <1>1 DEF ResetGba
<1>3. \A n \in Dmas : dma'[n].start = "INACTIVE" /\ dma'[n].direct_sound_channel = NONE
  BY <1>1 DEF ResetGba, Dma
<1>4. TypeOK'
  <2>1. 0 \in 0 .. FifoSize - 1 /\ 0 \in 0 .. FifoSize
    BY SizeFacts
  <2>2. /\ fifo_base' \in [Channels -> 0 .. FifoSize - 1]
        /\ fifo_top' \in [Channels -> 0 .. FifoSize - 1]
        /\ fresh' \in [Channels -> 0 .. FifoSize]
    BY <2>1 DEF ResetGba
  <2>3. QED
    BY <1>2, <2>2 DEF ResetGba, Inv, TypeOK
<1>5. \A c \in Channels : fresh'[c] = 0 /\ fed'[c] = FALSE
        /\ Filled(fifo_base'[c], fifo_top'[c]) \in 1 .. FifoSize
  BY <1>4, FilledType DEF ResetGba, TypeOK, Places
<1>6. InOrder' /\ NeverStarves'
  BY <1>5, SizeFacts DEF InOrder, NeverStarves
<1>7. DmaCoherent'
  BY <1>3 DEF ResetGba, DmaCoherent
<1>8. QED
  BY <1>4, <1>6, <1>7 DEF Inv

LEMMA SoundEnabledKeeps ==
  ASSUME Inv, SoundEnabled
  PROVE  Inv'
BY DEF SoundEnabled, fifos, control, Inv, TypeOK, InOrder, NeverStarves, DmaCoherent

----------------------------------------------------------------------------
(* The theorems.                                                           *)

LEMMA InitialInv == Init => Inv
<1> SUFFICES ASSUME Init PROVE Inv
  OBVIOUS
<1>1. Idle \in Dma /\ Idle.start = "INACTIVE" /\ Idle.direct_sound_channel = NONE
  BY DEF Idle, Dma
<1>2. TypeOK
  BY <1>1, SizeFacts DEF Init, TypeOK
<1>3. \A c \in Channels : Filled(fifo_base[c], fifo_top[c]) \in 1 .. FifoSize
  BY <1>2, FilledType DEF TypeOK, Places
<1>4. InOrder /\ NeverStarves
  BY <1>3, SizeFacts DEF Init, InOrder, NeverStarves
<1>5. DmaCoherent
  BY <1>1 DEF Init, DmaCoherent
<1>6. QED
  BY <1>2, <1>4, <1>5 DEF Inv

(* The four properties are inductive together, for every block size.       *)
THEOREM FifoInvariant == Spec => []Inv
<1>1. Init => Inv
  BY InitialInv
<1>2. Inv /\ [Next]_vars => Inv'
  <2> SUFFICES ASSUME Inv, [Next]_vars PROVE Inv'
    OBVIOUS
  <2>1. CASE Next
    BY <2>1, SoundTimerKeeps, SoundTimerQueueKeeps, BlankDmaKeeps, StopDmaKeeps,
       TriggerDmaKeeps, SoundResetFifoKeeps, ResetGbaKeeps, SoundEnabledKeeps DEF Next
  <2>2. CASE UNCHANGED vars
    BY <2>2 DEF vars, fifos, control, history, Inv, TypeOK, InOrder, NeverStarves, DmaCoherent
  <2>3. QED
    BY <2>1, <2>2
<1>3. QED
  BY <1>1, <1>2, PTL DEF Spec

(* Every pointer stays inside its ring, and every field has its type.      *)
THEOREM FifoTypes == Spec => []TypeOK
BY FifoInvariant, PTL DEF Inv

(* A block asked for by sound_timer never lands on what is to be played.   *)
THEOREM SamplesInOrder == Spec => []InOrder
BY FifoInvariant, PTL DEF Inv

(* A channel supplied by its own repeating DMA plays a new sample each     *)
(* time once it has caught up.                                             *)
THEOREM DmaKeepsUp == Spec => []NeverStarves
BY FifoInvariant, PTL DEF Inv

(* The control register tells whether a DMA is still to come, and what     *)
(* sound_timer starts was set up for it, unless it had ended by itself.    *)
THEOREM ControlTellsDma == Spec => []DmaCoherent
BY FifoInvariant, PTL DEF Inv
=============================================================================
