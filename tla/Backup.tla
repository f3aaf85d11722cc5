------------------------------- MODULE Backup -------------------------------
(***************************************************************************)
(* The game pak's battery-backed memory (memory.c): an SRAM or flash chip  *)
(* whose kind the emulator guesses from what the guest does, kept in the   *)
(* buffer gamepak_backup, and its .sav file, which update_backup writes    *)
(* some frames after the last write of the guest.  (EEPROM paks use a      *)
(* protocol of their own and are not part of this module.)                 *)
(*                                                                         *)
(* The buffer is four units of 32 KB: 0 and 1 are the first 64 KB (flash   *)
(* bank 0), 2 and 3 the second (bank 1).  Sizes are counted in units too.  *)
(* The bytes are not kept, only which units hold bytes that the guest      *)
(* wrote and the file lacks.                                               *)
(***************************************************************************)
EXTENDS Integers

CONSTANTS
  Delay,       \* write_backup_delay, in frames
  SavesStates  \* whether states are saved: a bound for TLC

ASSUME DelayAssumption == Delay \in Nat \ {0}

VARIABLES
  chip,           \* the guessed kind, its sizes and the flash command state
  backup_update,  \* frames until the file is written
  slots,          \* the chip part of the game's saved state, if it has one
  dirty,          \* units the guest changed and the file lacks (history)
  excused         \* since they were clean, something happened that may keep
                  \* the dirty units out of the file: a byte of an SRAM at
                  \* 5555, a reset, a loaded state, a file that did not open
                  \* (history)

vars == <<chip, backup_update, slots, dirty, excused>>

Units     == 0..3
Types     == {"NONE", "SRAM", "FLASH"}
Modes     == {"BASE", "ERASE", "ID", "WRITE", "BANKSWITCH"}
Chips     == [type : Types, sram : {1, 2}, flash : {2, 4}, mode : Modes,
              pos : 0..2, bank : {0, 1}]

(* The addresses, and the values at each, that write_backup tells apart    *)
(* (0000 stands for the lower half of a bank, high for the upper).         *)
Addresses == {"0000", "2AAA", "5555", "high"}
Values(a) == CASE a = "5555" -> {"AA", "90", "80", "F0", "A0", "B0", "10", "other"}
               [] a = "2AAA" -> {"55", "30", "other"}
               [] a = "0000" -> {"30", "even", "odd"}
               [] OTHER      -> {"30", "other"}

(* backup_update starts at 0, so the first frame wraps it to 2^32 - 1: it  *)
(* then needs two years of frames to come down, which Far stands for.      *)
Idle == Delay + 1
Far  == Delay + 2

(* What init_memory leaves: nothing is known of the chip.                  *)
NoChip == [type |-> "NONE", sram |-> 1, flash |-> 2, mode |-> "BASE",
           pos |-> 0, bank |-> 0]

(* The first access makes an unknown chip an SRAM.                         *)
Guessed == [chip EXCEPT !.type = IF @ = "NONE" THEN "SRAM" ELSE @]

(* How much of the buffer save_backup writes.                              *)
Size(c) == CASE c.type = "NONE" -> 0 [] c.type = "SRAM" -> c.sram
             [] OTHER -> c.flash
Saved(c) == {u \in Units : u < Size(c)}

Half(a)   == IF a = "high" THEN 1 ELSE 0
Banked(a) == Half(a) + 2 * chip.bank

(* After the first game has been loaded.                                   *)
Init ==
  /\ chip = NoChip
  /\ backup_update = 0
  /\ slots = {}
  /\ dirty = {}
  /\ excused = FALSE

----------------------------------------------------------------------------
(* write_backup(a, v): what the guest may write, and the branches of the   *)
(* code in their order (the middle four exclude each other).               *)

Touch(units) ==
  /\ backup_update' = Delay
  /\ dirty' = dirty \cup units
  /\ UNCHANGED excused

Untouched == UNCHANGED <<backup_update, dirty, excused>>

(* The mode after the command v, the last write of an unlocked sequence.   *)
CommandMode(mode, v) ==
  CASE mode = "BASE"  /\ v = "90" -> "ID"
    [] mode = "BASE"  /\ v = "80" -> "ERASE"
    [] mode = "BASE"  /\ v = "A0" -> "WRITE"
    [] mode = "BASE"  /\ v = "B0" -> "BANKSWITCH"
    [] mode = "ID"    /\ v = "F0" -> "BASE"
    [] mode = "ERASE" /\ v = "10" -> "BASE"
    [] OTHER                      -> mode

AtCommandPort(a) == a = "5555" /\ chip.mode # "WRITE"

(* The first write of a sequence, which is what makes the chip a flash.    *)
StartSequence(v) ==
  /\ chip.pos = 0 /\ v = "AA"
  /\ chip' = [chip EXCEPT !.type = "FLASH", !.pos = 1]
  /\ Untouched

(* A byte of an SRAM at the command port is stored but not scheduled.      *)
StoreUnscheduled(c) ==
  IF c.type # "SRAM" THEN Untouched
  ELSE /\ dirty' = dirty \cup {0}
       /\ excused' = TRUE
       /\ UNCHANGED backup_update

Command(v) ==
  /\ chip.pos = 2
  /\ chip' = [Guessed EXCEPT !.mode = CommandMode(@, v), !.pos = 0,
                             !.flash = IF v = "B0" THEN 4 ELSE @]
  /\ IF v = "10" /\ chip.mode = "ERASE"
       THEN Touch({u \in Units : u < chip.flash})
       ELSE StoreUnscheduled(chip')

AtPortOnly(v) ==
  /\ chip.pos = 1 \/ (chip.pos = 0 /\ v # "AA")
  /\ chip' = Guessed
  /\ StoreUnscheduled(chip')

IsUnlock(a, v) == a = "2AAA" /\ v = "55" /\ chip.pos = 1
IsErase(v)     == v = "30" /\ chip.pos = 2 /\ chip.mode = "ERASE"
IsSwitch(a)    == a = "0000" /\ chip.pos = 0 /\ chip.mode = "BANKSWITCH" /\ chip.flash = 4
IsProgram      == chip.pos = 0 /\ chip.mode = "WRITE"

Unlock(a, v) ==
  /\ IsUnlock(a, v)
  /\ chip' = [Guessed EXCEPT !.pos = 2]
  /\ Untouched

EraseSector(a, v) ==
  /\ IsErase(v)
  /\ chip' = [Guessed EXCEPT !.mode = "BASE", !.pos = 0]
  /\ Touch({Banked(a)})

SwitchBank(a, v) ==
  /\ IsSwitch(a)
  /\ chip' = [Guessed EXCEPT !.mode = "BASE", !.bank = IF v = "odd" THEN 1 ELSE 0]
  /\ Untouched

Program(a) ==
  /\ IsProgram
  /\ chip' = [Guessed EXCEPT !.mode = "BASE"]
  /\ Touch({Banked(a)})

MutStore(a, v) ==
  /\ ~IsUnlock(a, v) /\ ~IsErase(v) /\ ~IsSwitch(a) /\ ~IsProgram
  /\ chip' = Guessed
  /\ IF Guessed.type = "SRAM" THEN Touch({Half(a)}) ELSE Untouched

(* Anything else: an SRAM stores it, a flash ignores it.                   *)
Store(a, v) ==
  /\ ~IsUnlock(a, v) /\ ~IsErase(v) /\ ~IsSwitch(a) /\ ~IsProgram
  /\ IF Guessed.type = "SRAM"
       THEN /\ chip' = [Guessed EXCEPT !.sram = IF a = "high" THEN 2 ELSE @]
            /\ Touch({Half(a)})
       ELSE chip' = Guessed /\ Untouched

WriteBackup ==
  /\ \E a \in Addresses : \E v \in Values(a) :
       \/ AtCommandPort(a) /\ (StartSequence(v) \/ Command(v) \/ AtPortOnly(v))
       \/ /\ ~AtCommandPort(a)
          /\ \/ Unlock(a, v) \/ EraseSector(a, v) \/ SwitchBank(a, v)
             \/ Program(a) \/ Store(a, v)
  /\ UNCHANGED slots

(* read_backup: only its guess matters here, not the byte it returns.      *)
ReadBackup ==
  /\ chip' = Guessed
  /\ UNCHANGED <<backup_update, slots, dirty, excused>>

----------------------------------------------------------------------------
(* The write-out, once a frame.                                            *)

MutCountDownStop == CASE backup_update = 0             -> Far
                      [] backup_update \in 2..Delay    -> backup_update - 1
                      [] OTHER                         -> backup_update

CountDown == CASE backup_update = 0             -> Far
               [] backup_update \in 1..Delay    -> backup_update - 1
               [] OTHER                         -> backup_update

(* save_backup, which writes nothing for an unknown chip and may fail to   *)
(* open the file.                                                          *)
SaveBackup ==
  \/ /\ chip.type # "NONE"
     /\ dirty' = dirty \ Saved(chip)
     /\ excused' = (excused /\ dirty' # {})
  \/ /\ excused' = (excused \/ (chip.type # "NONE" /\ dirty # {}))
     /\ UNCHANGED dirty

UpdateBackup ==
  /\ IF CountDown = 0
       THEN SaveBackup /\ backup_update' = Idle
       ELSE backup_update' = CountDown /\ UNCHANGED <<dirty, excused>>
  /\ UNCHANGED <<chip, slots>>

----------------------------------------------------------------------------
(* The host, between two frames.                                           *)

(* load_gamepak, whose load_backup fills the buffer from the new file and  *)
(* guesses the chip from its size, then reset_gba, whose init_memory       *)
(* forgets that guess.                                                     *)
(* The states saved of the new game in earlier sessions are left out.      *)
LoadROM ==
  /\ chip' = NoChip
  /\ slots' = {}
  /\ dirty' = {}
  /\ excused' = FALSE
  /\ UNCHANGED backup_update

Excuse == excused' = (excused \/ dirty # {})

MutReset ==
  /\ chip' = [NoChip EXCEPT !.bank = chip.bank]
  /\ Excuse
  /\ UNCHANGED <<backup_update, slots, dirty>>

Reset ==
  /\ chip' = NoChip
  /\ Excuse
  /\ UNCHANGED <<backup_update, slots, dirty>>

(* The saved state holds the chip, not the buffer.                         *)
SaveState ==
  /\ SavesStates
  /\ slots' = {chip}
  /\ UNCHANGED <<chip, backup_update, dirty, excused>>

(* flash_bank_ptr is saved as a pointer; one that is no longer inside the  *)
(* buffer becomes bank 0.                                                  *)
LoadState ==
  /\ \E c \in slots, moved \in BOOLEAN :
       chip' = IF moved THEN [c EXCEPT !.bank = 0] ELSE c
  /\ Excuse
  /\ UNCHANGED <<backup_update, slots, dirty>>

Next == \/ WriteBackup \/ ReadBackup \/ UpdateBackup
        \/ LoadROM \/ Reset \/ SaveState \/ LoadState

(* Frames keep coming; nobody is obliged to do anything else.              *)
Spec == Init /\ [][Next]_vars /\ WF_vars(UpdateBackup)

----------------------------------------------------------------------------
ChipOK(c) ==
  /\ c \in Chips
  /\ c.bank = 1 => c.flash = 4
  /\ c.pos # 0 \/ c.mode # "BASE" => c.type = "FLASH"

(* The chip's variables keep their types, and backup_update is 0 .. Delay  *)
(* or one of the values its wrap through 0 stands for.                     *)
TypeOK ==
  /\ chip \in Chips
  /\ backup_update \in 0..Far
  /\ slots \in SUBSET Chips
  /\ dirty \in SUBSET Units
  /\ excused \in BOOLEAN

(* A command sequence only ever runs on a chip known to be a flash, and    *)
(* the second bank is only selected on one known to have it, whatever was  *)
(* reset and restored in between.                                          *)
ChipCoherent == ChipOK(chip) /\ \A c \in slots : ChipOK(c)

(* What the guest wrote and the file lacks is due within Delay frames, in  *)
(* a write-out that covers it, whatever the chip was taken for at each of  *)
(* the writes and however its kind and sizes were guessed since.           *)
Scheduled == dirty # {} => backup_update \in 1..Delay
Covered   == dirty # {} /\ backup_update \in 1..Delay => dirty \subseteq Saved(chip)
OnTime    == ~excused => Scheduled /\ Covered

(* If the guest stops writing, everything gets into the file.              *)
QuietIsWrittenOut ==
  []<>(dirty = {} \/ excused) \/ []<><<WriteBackup>>_vars

(* What that rests on, short of fairness: until the guest writes again,    *)
(* each frame brings the write-out nearer, nothing else moves it, and the  *)
(* last one leaves nothing that the file lacks.                            *)
WriteOutNears ==
  [][~excused /\ dirty # {} /\ ~WriteBackup =>
       \/ dirty' = {} \/ excused'
       \/ /\ dirty' = dirty
          /\ backup_update' = backup_update - (IF UpdateBackup THEN 1 ELSE 0)
          /\ backup_update' \in 1..Delay]_vars

----------------------------------------------------------------------------
(* What a comment of memory.c says and the code does not do: "Write out    *)
(* backup file this many cycles after the most recent backup write"        *)
(* (memory.c:117): when the delay is over, what was written is written     *)
(* out.                                                                    *)
DelayEndsInWriteOut ==
  [][UpdateBackup /\ backup_update = 1 => dirty \subseteq Saved(chip)]_vars
=============================================================================
