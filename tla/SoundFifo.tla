----------------------------- MODULE SoundFifo -----------------------------
(***************************************************************************)
(* Direct sound: the two FIFOs (sound.c), the timers that take samples     *)
(* from them and the DMA channels 1 and 2 that fill them (memory.c).       *)
(*                                                                         *)
(* A FIFO is a ring of two blocks without a count: what is in it is the    *)
(* difference of top and base, which cannot tell a full ring from an empty *)
(* one.  Nothing checks a store or a sample taken; the order of the        *)
(* samples rests on when sound_timer asks for a block.                     *)
(*                                                                         *)
(* Left out: which timer drives which channel (any may overflow at any     *)
(* time), volumes and mixing, saved states, the words a DMA moves to other *)
(* places than the FIFOs, its interrupt, the FIFOs as the destination of   *)
(* ordinary DMA, and the source direction that moves nothing.              *)
(***************************************************************************)
EXTENDS Integers

CONSTANTS
  Channels,    \* "A", "B"
  Block,       \* the bytes of a sound DMA: 16
  Widths,      \* the bytes of the guest's own stores: 1, 2, 4
  NONE         \* DMA_NO_DIRECT_SOUND

Dmas == {1, 2}
FifoSize == 2 * Block

ASSUME FifoAssumption ==
  /\ Channels \subseteq {"A", "B"} /\ "A" \in Channels
  /\ Block \in Nat \ {0}
  /\ Widths \subseteq 1 .. FifoSize
  /\ NONE \notin {"A", "B", "MEM"}

VARIABLES
  fifo_base,            \* of each channel
  fifo_top,
  global_enable_audio,  \* the setting "soundEnabled"
  dma,                  \* its settings and state
  enabled,              \* bit 15 of its control register, as the guest reads it
  fresh,                \* the bytes before fifo_top that were not played (history)
  crowded,              \* the guest's own stores ran past the base, or those of two
                        \* DMA channels or without sound; not yet all played (history)
  fed,                  \* the last sample was fresh, from the one repeating DMA (history)
  astray                \* the DMA ended without repeat while it had a channel (history)

fifos   == <<fifo_base, fifo_top>>
control == <<dma, enabled>>
history == <<fresh, crowded, fed>>
vars    == <<fifos, global_enable_audio, control, history, astray>>

(* sound: four words into a fixed address, as trigger_dma insists.         *)
Dma == [start : {"INACTIVE", "BLANK", "SPECIAL"}, repeat : BOOLEAN, sound : BOOLEAN,
        dest : {"A", "B", "MEM"}, direct_sound_channel : {"A", "B", NONE}]
Idle == [start |-> "INACTIVE", repeat |-> FALSE, sound |-> FALSE, dest |-> "MEM",
         direct_sound_channel |-> NONE]

Init ==
  /\ fifo_base = [c \in Channels |-> 0]
  /\ fifo_top = [c \in Channels |-> 0]
  /\ global_enable_audio \in BOOLEAN
  /\ dma = [n \in Dmas |-> Idle]
  /\ enabled = [n \in Dmas |-> FALSE]
  /\ fresh = [c \in Channels |-> 0]
  /\ crowded = [c \in Channels |-> FALSE]
  /\ fed = [c \in Channels |-> FALSE]
  /\ astray = [n \in Dmas |-> FALSE]

----------------------------------------------------------------------------
(* The ring.                                                               *)

Moved(p, k)   == IF p + k < FifoSize THEN p + k ELSE p + k - FifoSize
Queued(b, t)  == IF t >= b THEN t - b ELSE t - b + FifoSize
(* How far the ring is taken to be filled when a sample is taken from it.  *)
Filled(b, t)  == IF t = b THEN FifoSize ELSE Queued(b, t)

(* "If the DS FIFO is 16 bytes or smaller", after the sample was taken.     *)
MutAsks(b, t) == Queued(b, t) <= Block + 1
Asks(b, t)    == Queued(b, t) <= Block

Smaller(m, n) == IF m < n THEN m ELSE n

----------------------------------------------------------------------------
(* DMA.                                                                    *)

(* The DMA channels that sound_timer starts, whatever their start type.    *)
MutServed(c) == {n \in {1} : dma[n].direct_sound_channel = c}
Served(c)   == {n \in Dmas : dma[n].direct_sound_channel = c}
(* Those of them that fill the FIFO: four bytes for each of four words.    *)
Filling(c)  == {n \in Served(c) : dma[n].sound /\ dma[n].dest = c}
Ends(d)     == ~d.repeat
Ended(d)    == [d EXCEPT !.start = "INACTIVE"]

(* dma_transfer, for all of ns: the end of a channel that does not repeat. *)
Transferred(ns) ==
  /\ dma' = [n \in Dmas |-> IF n \in ns /\ Ends(dma[n]) THEN Ended(dma[n]) ELSE dma[n]]
  /\ enabled' = [n \in Dmas |-> enabled[n] /\ ~(n \in ns /\ Ends(dma[n]))]
  /\ astray' = [n \in Dmas |->
       astray[n] \/ (n \in ns /\ Ends(dma[n]) /\ dma[n].direct_sound_channel # NONE)]

(* One DMA channel alone is set up for the FIFO.                           *)
Supplied(c) ==
  /\ global_enable_audio
  /\ \E n \in Dmas :
       /\ dma[n].direct_sound_channel = c /\ dma[n].dest = c /\ dma[n].sound /\ dma[n].repeat
       /\ \A o \in Dmas \ {n} : dma[o].direct_sound_channel # c

(* sound_timer: a sample is taken, if there is sound at all, and the DMA   *)
(* channels are started when a block or less is left.                      *)
SoundTimer(c) ==
  LET filled == Filled(fifo_base[c], fifo_top[c])
      base   == IF global_enable_audio THEN Moved(fifo_base[c], 1) ELSE fifo_base[c]
      asks   == Asks(base, fifo_top[c])
      bytes  == IF ~asks \/ Filling(c) = {} THEN 0
                ELSE IF Filling(c) = Dmas THEN 2 * Block ELSE Block
      left   == IF global_enable_audio /\ fresh[c] >= filled THEN filled - 1 ELSE fresh[c]
      excuse == bytes > 0 /\ (~global_enable_audio \/ bytes > Block)
  IN /\ fifo_base' = [fifo_base EXCEPT ![c] = base]
     /\ fifo_top' = [fifo_top EXCEPT ![c] = Moved(@, bytes)]
     /\ fresh' = [fresh EXCEPT ![c] =
          IF excuse \/ crowded[c] THEN Smaller(left + bytes, FifoSize) ELSE left + bytes]
     /\ crowded' = [crowded EXCEPT ![c] = (crowded[c] /\ left > 0) \/ excuse]
     /\ fed' = [fed EXCEPT ![c] =
          Supplied(c) /\ ~crowded'[c] /\ (fed[c] \/ fresh[c] >= filled)]
     /\ IF asks THEN Transferred(Served(c)) ELSE UNCHANGED <<control, astray>>
     /\ UNCHANGED global_enable_audio

(* update_gba at the end of a line or of the visible screen.               *)
BlankDma ==
  /\ Transferred({n \in Dmas : dma[n].start = "BLANK"})
  /\ UNCHANGED <<fifos, global_enable_audio, history>>

(* trigger_dma, with the enable bit: only a channel that is not active     *)
(* takes the settings, and only the special start those of a FIFO.         *)
TriggerDma(n, start, repeat, dest) ==
  LET special == start = "SPECIAL"
      d == [start |-> start, repeat |-> repeat, sound |-> special, dest |-> dest,
            direct_sound_channel |->
              IF ~special THEN dma[n].direct_sound_channel ELSE IF dest = "B" THEN "B" ELSE "A"]
  IN /\ dma[n].start = "INACTIVE"
     /\ ~special => dest = "MEM"
     /\ dma' = [dma EXCEPT ![n] = IF start = "IMMEDIATELY" THEN Ended(d) ELSE d]
     /\ enabled' = [enabled EXCEPT ![n] = start # "IMMEDIATELY"]
     /\ astray' = [astray EXCEPT ![n] = @ /\ ~special]
     /\ fed' = [c \in Channels |-> FALSE]
     /\ UNCHANGED <<fifos, global_enable_audio, fresh, crowded>>

(* Without the enable bit.                                                 *)
MutStopDma(n) ==
  /\ dma' = [dma EXCEPT ![n].start = "INACTIVE"]
  /\ enabled' = [enabled EXCEPT ![n] = FALSE]
  /\ astray' = [astray EXCEPT ![n] = FALSE]
  /\ fed' = [c \in Channels |-> FALSE]
  /\ UNCHANGED <<fifos, global_enable_audio, fresh, crowded>>

StopDma(n) ==
  /\ dma' = [dma EXCEPT ![n].start = "INACTIVE", ![n].direct_sound_channel = NONE]
  /\ enabled' = [enabled EXCEPT ![n] = FALSE]
  /\ astray' = [astray EXCEPT ![n] = FALSE]
  /\ fed' = [c \in Channels |-> FALSE]
  /\ UNCHANGED <<fifos, global_enable_audio, fresh, crowded>>

----------------------------------------------------------------------------
(* The guest's own stores, and the host.                                   *)

(* sound_timer_queue8, 16, 32: k bytes, whatever is there.                 *)
SoundTimerQueue(c, k) ==
  LET top     == Moved(fifo_top[c], k)
      crowds  == crowded[c] \/ fresh[c] + k > Filled(fifo_base[c], top)
  IN /\ fifo_top' = [fifo_top EXCEPT ![c] = top]
     /\ fresh' = [fresh EXCEPT ![c] = Smaller(@ + k, FifoSize)]
     /\ crowded' = [crowded EXCEPT ![c] = crowds]
     /\ fed' = [fed EXCEPT ![c] = FALSE]
     /\ UNCHANGED <<fifo_base, global_enable_audio, control, astray>>

(* sound_reset_fifo: the samples of A become silence, and the pointers     *)
(* stay, whichever channel it is called for.                               *)
SoundResetFifo ==
  /\ fresh' = [fresh EXCEPT !["A"] = 0]
  /\ crowded' = [crowded EXCEPT !["A"] = FALSE]
  /\ fed' = [fed EXCEPT !["A"] = FALSE]
  /\ UNCHANGED <<fifos, global_enable_audio, control, astray>>

(* reset_gba: init_main, init_memory, reset_sound.                         *)
ResetGba ==
  /\ fifo_base' = [c \in Channels |-> 0]
  /\ fifo_top' = [c \in Channels |-> 0]
  /\ dma' = [n \in Dmas |-> [dma[n] EXCEPT !.start = "INACTIVE", !.direct_sound_channel = NONE]]
  /\ enabled' = [n \in Dmas |-> FALSE]
  /\ fresh' = [c \in Channels |-> 0]
  /\ crowded' = [c \in Channels |-> FALSE]
  /\ fed' = [c \in Channels |-> FALSE]
  /\ astray' = [n \in Dmas |-> FALSE]
  /\ UNCHANGED global_enable_audio

(* Emulator_setOption.                                                     *)
SoundEnabled ==
  /\ global_enable_audio' = ~global_enable_audio
  /\ fed' = [c \in Channels |-> FALSE]
  /\ UNCHANGED <<fifos, control, fresh, crowded, astray>>

Next ==
  \/ \E c \in Channels : SoundTimer(c) \/ \E k \in Widths : SoundTimerQueue(c, k)
  \/ BlankDma
  \/ \E n \in Dmas :
       \/ StopDma(n)
       \/ \E start \in {"IMMEDIATELY", "BLANK", "SPECIAL"}, repeat \in BOOLEAN,
             dest \in {"A", "B", "MEM"} : TriggerDma(n, start, repeat, dest)
  \/ SoundResetFifo \/ ResetGba \/ SoundEnabled

Spec == Init /\ [][Next]_vars

----------------------------------------------------------------------------
(* Properties.                                                             *)

TypeOK ==
  /\ fifo_base \in [Channels -> 0 .. FifoSize - 1]
  /\ fifo_top \in [Channels -> 0 .. FifoSize - 1]
  /\ global_enable_audio \in BOOLEAN
  /\ dma \in [Dmas -> Dma]
  /\ enabled \in [Dmas -> BOOLEAN]
  /\ fresh \in [Channels -> 0 .. FifoSize]
  /\ crowded \in [Channels -> BOOLEAN]
  /\ fed \in [Channels -> BOOLEAN]
  /\ astray \in [Dmas -> BOOLEAN]

(* A block that is asked for never lands on samples that are still to be   *)
(* played, and none is passed over: the ring, as sound_timer takes it to   *)
(* be filled, holds all of them (sound.c, "If the DS FIFO is 16 bytes or   *)
(* smaller").                                                              *)
InOrder ==
  \A c \in Channels : crowded[c] \/ fresh[c] <= Filled(fifo_base[c], fifo_top[c])

(* Once the one DMA of a channel has caught up, each sample is a new one.  *)
NeverStarves ==
  \A c \in Channels : fed[c] => fresh[c] = Filled(fifo_base[c], fifo_top[c])

(* The guest reads in the control register whether a DMA is still to come, *)
(* and what sound_timer starts is a DMA of four words to a fixed address,  *)
(* unless the guest let it end by itself (trigger_dma, dma_transfer).      *)
DmaCoherent ==
  \A n \in Dmas :
    /\ enabled[n] <=> dma[n].start # "INACTIVE"
    /\ dma[n].direct_sound_channel # NONE =>
         astray[n] \/ (dma[n].start = "SPECIAL" /\ dma[n].sound)
=============================================================================
