----------------------------- MODULE BackupProofs -----------------------------
(***************************************************************************)
(* Proofs about Backup, for every write-out delay: whatever the guest      *)
(* writes is due, in a write-out that covers it.                           *)
(***************************************************************************)
EXTENDS Backup, TLAPS

(* The inductive invariant: a write-out only covers what was written       *)
(* because the bank and the command state agree with the guessed chip.     *)
BackupInv == TypeOK /\ ChipCoherent /\ OnTime

(* Guessing an SRAM changes nothing else of the chip.                      *)
LEMMA GuessedOK ==
  ASSUME ChipOK(chip)
  PROVE  /\ ChipOK(Guessed)
         /\ Guessed.flash = chip.flash
         /\ Guessed.sram = chip.sram
         /\ Guessed.mode = chip.mode
         /\ Guessed.bank = chip.bank
         /\ Guessed.pos = chip.pos
         /\ Guessed.type = IF chip.type = "NONE" THEN "SRAM" ELSE chip.type
BY DEF ChipOK, Guessed, Chips, Types, Modes

(* A step that leaves the write-out alone and does not shrink it. *)
LEMMA UntouchedOnTime ==
  ASSUME OnTime, Untouched, Saved(chip) \subseteq Saved(chip')
  PROVE  OnTime'
BY DEF OnTime, Scheduled, Covered, Untouched, Saved

(* A write that schedules a write-out large enough for it. *)
LEMMA TouchOnTime ==
  ASSUME NEW units \in SUBSET Units, TypeOK, OnTime, Touch(units),
         units \subseteq Saved(chip'), Saved(chip) \subseteq Saved(chip')
  PROVE  OnTime' /\ backup_update' \in 0..Far /\ dirty' \in SUBSET Units
<1>1. backup_update' = Delay /\ dirty' = dirty \cup units /\ excused' = excused
  BY DEF Touch
<1>2. backup_update' \in 0..Far /\ backup_update' \in 1..Delay
  BY <1>1, DelayAssumption DEF Far
<1>3. dirty' \in SUBSET Units
  BY <1>1 DEF TypeOK
<1>4. ~excused => dirty' \subseteq Saved(chip')
  BY <1>1 DEF OnTime, Scheduled, Covered
<1> QED
  BY <1>1, <1>2, <1>3, <1>4 DEF OnTime, Scheduled, Covered, Saved, Units

LEMMA InitOK == Init => BackupInv
<1> SUFFICES ASSUME Init PROVE BackupInv
  OBVIOUS
<1>1. ChipOK(chip)
  BY DEF Init, ChipOK, NoChip, Chips, Types, Modes
<1>2. backup_update \in 0..Far
  BY DelayAssumption DEF Init, Far
<1>3. excused \in BOOLEAN
  BY DEF Init
<1> QED
  BY <1>1, <1>2, <1>3 DEF Init, BackupInv, TypeOK, ChipCoherent, OnTime, Scheduled, Covered, ChipOK

(* What a write of the guest has to preserve. *)
LEMMA WriteSuffices ==
  ASSUME BackupInv, ChipOK(chip'), backup_update' \in 0..Far, dirty' \in SUBSET Units,
         excused' \in BOOLEAN, OnTime', UNCHANGED slots
  PROVE  BackupInv'
BY DEF BackupInv, TypeOK, ChipCoherent, ChipOK

(* A write of the guest at the command port. *)
LEMMA CommandPortOK ==
  ASSUME BackupInv, UNCHANGED slots,
         NEW v, StartSequence(v) \/ Command(v) \/ AtPortOnly(v)
  PROVE  BackupInv'
<1> DEFINE g == Guessed
<1>1. ChipOK(chip) /\ TypeOK /\ OnTime
  BY DEF BackupInv, ChipCoherent
<1>2. ChipOK(g) /\ g.flash = chip.flash /\ g.sram = chip.sram /\ g.mode = chip.mode
      /\ g.bank = chip.bank /\ g.pos = chip.pos
      /\ g.type = IF chip.type = "NONE" THEN "SRAM" ELSE chip.type
  BY <1>1, GuessedOK
<1>3. chip.flash \in {2, 4} /\ chip.sram \in {1, 2} /\ chip.type \in Types /\ chip.mode \in Modes
  BY <1>1 DEF ChipOK, Chips
<1>4. CASE StartSequence(v)
  <2>1. chip' = [chip EXCEPT !.type = "FLASH", !.pos = 1] /\ Untouched
    BY <1>4 DEF StartSequence
  <2>9. chip' \in Chips
    <3>1. 1 \in 0..2 /\ "FLASH" \in Types
      BY DEF Types
    <3> QED
      BY <1>1, <2>1, <3>1 DEF ChipOK, Chips
  <2>2. chip'.type = "FLASH" /\ chip'.flash = chip.flash /\ ChipOK(chip')
    BY <1>1, <2>1, <2>9 DEF ChipOK, Chips
  <2>3. Saved(chip) \subseteq Saved(chip')
    BY <1>3, <2>2 DEF Saved, Size, Units, Types
  <2>4. OnTime'
    BY <1>1, <2>1, <2>3, UntouchedOnTime
  <2> QED
    BY <1>1, <2>1, <2>2, <2>4, WriteSuffices DEF Untouched, TypeOK
<1>5. ASSUME StoreUnscheduled(chip'), ChipOK(chip'), Saved(chip) \subseteq Saved(chip')
      PROVE  BackupInv'
  <2>1. CASE chip'.type # "SRAM"
    <3>1. Untouched
      BY <1>5, <2>1 DEF StoreUnscheduled
    <3>2. OnTime'
      BY <1>1, <1>5, <3>1, UntouchedOnTime
    <3> QED
      BY <1>1, <1>5, <3>1, <3>2, WriteSuffices DEF Untouched, TypeOK
  <2>2. CASE chip'.type = "SRAM"
    <3>1. dirty' = dirty \cup {0} /\ excused' = TRUE /\ backup_update' = backup_update
      BY <1>5, <2>2 DEF StoreUnscheduled
    <3>2. OnTime' /\ dirty' \in SUBSET Units
      BY <1>1, <3>1 DEF OnTime, TypeOK, Units
    <3> QED
      BY <1>1, <1>5, <3>1, <3>2, WriteSuffices DEF TypeOK
  <2> QED
    BY <2>1, <2>2
<1>6. CASE Command(v)
  <2>1. chip' = [g EXCEPT !.mode = CommandMode(@, v), !.pos = 0,
                         !.flash = IF v = "B0" THEN 4 ELSE @]
    BY <1>6 DEF Command
  <2>2. chip.type = "FLASH" /\ g.type = "FLASH"
    BY <1>1, <1>2, <1>6 DEF ChipOK, Command
  <2>3. CommandMode(g.mode, v) \in Modes
    BY <1>2, <1>3 DEF CommandMode, Modes
  <2>9. chip' \in Chips
    <3>1. 0 \in 0..2 /\ g.flash \in {2, 4}
      BY <1>2, <1>3
    <3> QED
      BY <1>2, <2>1, <2>3, <3>1 DEF ChipOK, Chips
  <2>4. chip'.type = "FLASH" /\ chip'.flash >= chip.flash /\ ChipOK(chip')
    BY <1>2, <1>3, <2>1, <2>2, <2>9 DEF ChipOK, Chips
  <2>5. Saved(chip) \subseteq Saved(chip') /\ {u \in Units : u < chip.flash} \subseteq Saved(chip')
    BY <1>3, <2>2, <2>4 DEF Saved, Size, Units, ChipOK, Chips
  <2>6. CASE v = "10" /\ chip.mode = "ERASE"
    <3>1. Touch({u \in Units : u < chip.flash})
      BY <1>6, <2>6 DEF Command
    <3>2. OnTime' /\ backup_update' \in 0..Far /\ dirty' \in SUBSET Units
      BY <1>1, <2>5, <3>1, TouchOnTime
    <3> QED
      BY <1>1, <2>4, <3>1, <3>2, WriteSuffices DEF Touch, TypeOK
  <2>7. CASE ~(v = "10" /\ chip.mode = "ERASE")
    BY <1>5, <1>6, <2>4, <2>5, <2>7 DEF Command
  <2> QED
    BY <2>6, <2>7
<1>7. CASE AtPortOnly(v)
  <2>1. chip' = g /\ StoreUnscheduled(chip')
    BY <1>7 DEF AtPortOnly
  <2>2. Saved(chip) \subseteq Saved(chip')
    BY <1>2, <1>3, <2>1 DEF Saved, Size, Units, Types
  <2> QED
    BY <1>2, <1>5, <2>1, <2>2
<1> QED
  BY <1>4, <1>6, <1>7

(* A write of the guest anywhere else. *)
LEMMA ElsewhereOK ==
  ASSUME BackupInv, UNCHANGED slots, NEW a, NEW v,
         Unlock(a, v) \/ EraseSector(a, v) \/ SwitchBank(a, v) \/ Program(a) \/ Store(a, v)
  PROVE  BackupInv'
<1> DEFINE g == Guessed
<1>1. ChipOK(chip) /\ TypeOK /\ OnTime
  BY DEF BackupInv, ChipCoherent
<1>2. ChipOK(g) /\ g.flash = chip.flash /\ g.sram = chip.sram /\ g.mode = chip.mode
      /\ g.bank = chip.bank /\ g.pos = chip.pos
      /\ g.type = IF chip.type = "NONE" THEN "SRAM" ELSE chip.type
  BY <1>1, GuessedOK
<1>3. chip.flash \in {2, 4} /\ chip.sram \in {1, 2} /\ chip.type \in Types
      /\ chip.mode \in Modes /\ chip.bank \in {0, 1} /\ (chip.bank = 1 => chip.flash = 4)
  BY <1>1 DEF ChipOK, Chips
<1>4. ASSUME Untouched, ChipOK(chip'), Saved(chip) \subseteq Saved(chip') PROVE BackupInv'
  <2>1. OnTime'
    BY <1>1, <1>4, UntouchedOnTime
  <2> QED
    BY <1>1, <1>4, <2>1, WriteSuffices DEF Untouched, TypeOK
<1>5. ASSUME NEW unit \in Units, Touch({unit}), ChipOK(chip'), unit \in Saved(chip'),
             Saved(chip) \subseteq Saved(chip')
      PROVE  BackupInv'
  <2>1. OnTime' /\ backup_update' \in 0..Far /\ dirty' \in SUBSET Units
    BY <1>1, <1>5, TouchOnTime
  <2>2. excused' = excused
    BY <1>5 DEF Touch
  <2> QED
    BY <1>1, <1>5, <2>1, <2>2, WriteSuffices DEF TypeOK
<1>6. Half(a) \in {0, 1} /\ Banked(a) \in Units /\ (Banked(a) < chip.flash)
  BY <1>3 DEF Half, Banked, Units
<1>7. CASE Unlock(a, v)
  <2>1. chip' = [g EXCEPT !.pos = 2] /\ Untouched /\ chip.type = "FLASH"
    BY <1>1, <1>7 DEF Unlock, IsUnlock, ChipOK
  <2>2. ChipOK(chip') /\ chip'.type = "FLASH" /\ chip'.flash = chip.flash
    BY <1>2, <2>1 DEF ChipOK, Chips
  <2>3. Saved(chip) \subseteq Saved(chip')
    BY <2>1, <2>2 DEF Saved, Size
  <2> QED
    BY <1>4, <2>1, <2>2, <2>3
<1>8. CASE EraseSector(a, v)
  <2>1. chip' = [g EXCEPT !.mode = "BASE", !.pos = 0] /\ Touch({Banked(a)})
        /\ chip.type = "FLASH"
    BY <1>1, <1>8 DEF EraseSector, IsErase, ChipOK
  <2>9. chip' \in Chips
    <3>1. 0 \in 0..2 /\ "BASE" \in Modes
      BY DEF Modes
    <3> QED
      BY <1>2, <2>1, <3>1 DEF ChipOK, Chips
  <2>2. ChipOK(chip') /\ chip'.type = "FLASH" /\ chip'.flash = chip.flash
    BY <1>2, <2>1, <2>9 DEF ChipOK, Chips
  <2>3. Saved(chip) \subseteq Saved(chip') /\ Banked(a) \in Saved(chip')
    BY <1>6, <2>1, <2>2 DEF Saved, Size
  <2> QED
    BY <1>5, <1>6, <2>1, <2>2, <2>3
<1>9. CASE SwitchBank(a, v)
  <2>1. chip' = [g EXCEPT !.mode = "BASE", !.bank = IF v = "odd" THEN 1 ELSE 0] /\ Untouched
        /\ chip.type = "FLASH" /\ chip.flash = 4
    BY <1>1, <1>9 DEF SwitchBank, IsSwitch, ChipOK
  <2>9. chip' \in Chips
    BY <1>2, <2>1 DEF ChipOK, Chips, Modes
  <2>2. ChipOK(chip') /\ chip'.type = "FLASH" /\ chip'.flash = chip.flash
    BY <1>2, <2>1, <2>9 DEF ChipOK, Chips
  <2>3. Saved(chip) \subseteq Saved(chip')
    BY <2>1, <2>2 DEF Saved, Size
  <2> QED
    BY <1>4, <2>1, <2>2, <2>3
<1>10. CASE Program(a)
  <2>1. chip' = [g EXCEPT !.mode = "BASE"] /\ Touch({Banked(a)}) /\ chip.type = "FLASH"
    BY <1>1, <1>10 DEF Program, IsProgram, ChipOK
  <2>2. ChipOK(chip') /\ chip'.type = "FLASH" /\ chip'.flash = chip.flash
    BY <1>2, <2>1 DEF ChipOK, Chips, Modes
  <2>3. Saved(chip) \subseteq Saved(chip') /\ Banked(a) \in Saved(chip')
    BY <1>6, <2>1, <2>2 DEF Saved, Size
  <2> QED
    BY <1>5, <1>6, <2>1, <2>2, <2>3
<1>11. CASE Store(a, v)
  <2>1. CASE g.type = "SRAM"
    <3>1. chip' = [g EXCEPT !.sram = IF a = "high" THEN 2 ELSE @] /\ Touch({Half(a)})
      BY <1>11, <2>1 DEF Store
    <3>2. ChipOK(chip') /\ chip'.type = "SRAM" /\ chip'.sram >= chip.sram /\ Half(a) < chip'.sram
      BY <1>2, <1>3, <2>1, <3>1 DEF ChipOK, Chips, Half
    <3>3. Saved(chip) \subseteq Saved(chip') /\ Half(a) \in Saved(chip') /\ Half(a) \in Units
      <4>1. chip'.sram \in {1, 2} /\ chip.type \in {"NONE", "SRAM"}
        BY <1>2, <1>3, <2>1, <3>2 DEF ChipOK, Chips, Types
      <4> QED
        BY <1>3, <1>6, <3>2, <4>1 DEF Saved, Size, Units
    <3> QED
      BY <1>5, <3>1, <3>2, <3>3
  <2>2. CASE g.type # "SRAM"
    <3>1. chip' = g /\ Untouched /\ g.type = chip.type
      BY <1>2, <1>11, <2>2 DEF Store
    <3>2. Saved(chip) \subseteq Saved(chip')
      BY <1>2, <3>1 DEF Saved, Size
    <3> QED
      BY <1>2, <1>4, <3>1, <3>2
  <2> QED
    BY <2>1, <2>2
<1> QED
  BY <1>7, <1>8, <1>9, <1>10, <1>11
(* The guess of a read. *)
LEMMA ReadOK == BackupInv /\ ReadBackup => BackupInv'
<1> SUFFICES ASSUME BackupInv, ReadBackup PROVE BackupInv'
  OBVIOUS
<1>1. ChipOK(chip) /\ TypeOK /\ OnTime
  BY DEF BackupInv, ChipCoherent
<1>2. ChipOK(chip') /\ Untouched /\ UNCHANGED slots
  BY <1>1, GuessedOK DEF ReadBackup, Untouched
<1>3. Saved(chip) \subseteq Saved(chip')
  BY <1>1, GuessedOK DEF ReadBackup, Saved, Size, Units, ChipOK, Chips, Types
<1>4. OnTime'
  BY <1>1, <1>2, <1>3, UntouchedOnTime
<1> QED
  BY <1>1, <1>2, <1>4, WriteSuffices DEF Untouched, TypeOK

(* The write-out of a frame. *)
LEMMA UpdateOK == BackupInv /\ UpdateBackup => BackupInv'
<1> SUFFICES ASSUME BackupInv, UpdateBackup PROVE BackupInv'
  OBVIOUS
<1>1. TypeOK /\ ChipCoherent /\ OnTime /\ chip' = chip /\ slots' = slots
  BY DEF BackupInv, UpdateBackup
<1>2. ChipCoherent'
  BY <1>1 DEF ChipCoherent
<1>3. CASE CountDown = 0
  <2>1. SaveBackup /\ backup_update' = Idle
    BY <1>3 DEF UpdateBackup
  <2>2. CASE /\ chip.type # "NONE"
             /\ dirty' = dirty \ Saved(chip)
             /\ excused' = (excused /\ dirty' # {})
    <3>2. OnTime'
      <4>1. CASE excused
        BY <2>2, <4>1 DEF OnTime, Scheduled, Covered
      <4>2. CASE ~excused
        <5>1. dirty \subseteq Saved(chip)
          <6>1. dirty # {} => backup_update \in 1..Delay
            BY <1>1, <4>2 DEF OnTime, Scheduled
          <6> QED
            BY <1>1, <4>2, <6>1 DEF OnTime, Covered
        <5> QED
          BY <2>2, <5>1 DEF OnTime, Scheduled, Covered
      <4> QED
        BY <4>1, <4>2
    <3>3. excused' \in BOOLEAN
      BY <2>2
    <3>4. backup_update' \in 0..Far /\ dirty' \in SUBSET Units
      BY <1>1, <2>1, <2>2, DelayAssumption DEF TypeOK, Idle, Far
    <3> QED
      BY <1>1, <1>2, <2>2, <3>2, <3>3, <3>4 DEF BackupInv, TypeOK
  <2>3. CASE /\ excused' = (excused \/ (chip.type # "NONE" /\ dirty # {}))
             /\ UNCHANGED dirty
    <3>1. OnTime'
      <4>1. CASE excused'
        BY <4>1 DEF OnTime
      <4>2. CASE ~excused'
        <5>1. ~excused /\ (chip.type = "NONE" \/ dirty = {})
          BY <2>3, <4>2
        <5>2. dirty = {}
          <6>1. chip.type = "NONE" => Saved(chip) = {}
            BY DEF Saved, Size, Units
          <6>2. dirty # {} => backup_update \in 1..Delay /\ dirty \subseteq Saved(chip)
            BY <1>1, <5>1 DEF OnTime, Scheduled, Covered
          <6> QED
            BY <5>1, <6>1, <6>2
        <5> QED
          BY <2>3, <5>2 DEF OnTime, Scheduled, Covered
      <4> QED
        BY <4>1, <4>2
    <3>2. excused' \in BOOLEAN
      BY <2>3
    <3>3. backup_update' \in 0..Far
      BY <2>1, DelayAssumption DEF Idle, Far
    <3> QED
      BY <1>1, <1>2, <2>3, <3>1, <3>2, <3>3 DEF BackupInv, TypeOK
  <2> QED
    BY <2>1, <2>2, <2>3 DEF SaveBackup
<1>4. CASE CountDown # 0
  <2>1. backup_update' = CountDown /\ UNCHANGED <<dirty, excused>>
    BY <1>4 DEF UpdateBackup
  <2>2. backup_update \in 0..Far /\ Far \in Nat /\ Delay \in Nat
    BY <1>1, DelayAssumption DEF TypeOK, Far
  <2>3. CountDown \in 0..Far /\ (backup_update \in 1..Delay => CountDown \in 1..Delay)
    BY <1>4, <2>2 DEF CountDown, Far
  <2>4. OnTime'
    BY <1>1, <2>1, <2>3 DEF OnTime, Scheduled, Covered
  <2> QED
    BY <1>1, <1>2, <2>1, <2>3, <2>4 DEF BackupInv, TypeOK
<1> QED
  BY <1>3, <1>4

(* What the host does between two frames. *)
LEMMA HostOK == BackupInv /\ (LoadROM \/ Reset \/ SaveState \/ LoadState) => BackupInv'
<1> SUFFICES ASSUME BackupInv, LoadROM \/ Reset \/ SaveState \/ LoadState PROVE BackupInv'
  OBVIOUS
<1>1. TypeOK /\ ChipCoherent /\ OnTime /\ ChipOK(NoChip)
  BY DEF BackupInv, ChipOK, NoChip, Chips, Types, Modes
<1>2. ASSUME Excuse, dirty' = dirty, backup_update' = backup_update, slots' = slots,
             ChipOK(chip')
      PROVE  BackupInv'
  <2>1. excused' = (excused \/ dirty # {})
    BY <1>2 DEF Excuse
  <2>2. excused' \in BOOLEAN
    BY <2>1
  <2>3. OnTime'
    BY <1>2, <2>1 DEF OnTime, Scheduled, Covered
  <2> QED
    BY <1>1, <1>2, <2>2, <2>3, WriteSuffices DEF TypeOK
<1>3. CASE LoadROM
  <2>1. excused' \in BOOLEAN
    BY <1>3 DEF LoadROM
  <2> QED
    BY <1>1, <1>3, <2>1 DEF LoadROM, BackupInv, TypeOK, ChipCoherent, ChipOK, OnTime,
       Scheduled, Covered
<1>4. CASE Reset
  BY <1>1, <1>2, <1>4 DEF Reset
<1>5. CASE SaveState
  BY <1>1, <1>5 DEF SaveState, BackupInv, TypeOK, ChipCoherent, ChipOK, OnTime,
     Scheduled, Covered
<1>6. CASE LoadState
  <2>1. PICK c \in slots, moved \in BOOLEAN :
          chip' = IF moved THEN [c EXCEPT !.bank = 0] ELSE c
    BY <1>6 DEF LoadState
  <2>2. ChipOK(c) /\ ChipOK([c EXCEPT !.bank = 0])
    BY <1>1 DEF ChipCoherent, ChipOK, Chips
  <2> QED
    BY <1>2, <1>6, <2>1, <2>2 DEF LoadState
<1> QED
  BY <1>3, <1>4, <1>5, <1>6

LEMMA StepOK == BackupInv /\ [Next]_vars => BackupInv'
<1> SUFFICES ASSUME BackupInv, [Next]_vars PROVE BackupInv'
  OBVIOUS
<1>1. CASE WriteBackup
  <2>1. UNCHANGED slots
    BY <1>1 DEF WriteBackup
  <2>2. PICK a \in Addresses : \E v \in Values(a) :
          \/ AtCommandPort(a) /\ (StartSequence(v) \/ Command(v) \/ AtPortOnly(v))
          \/ /\ ~AtCommandPort(a)
             /\ \/ Unlock(a, v) \/ EraseSector(a, v) \/ SwitchBank(a, v)
                \/ Program(a) \/ Store(a, v)
    BY <1>1 DEF WriteBackup
  <2> QED
    BY <2>1, <2>2, CommandPortOK, ElsewhereOK
<1>2. CASE UNCHANGED vars
  BY <1>2 DEF vars, BackupInv, TypeOK, ChipCoherent, ChipOK, OnTime, Scheduled, Covered
<1> QED
  BY <1>1, <1>2, ReadOK, UpdateOK, HostOK DEF Next

(* Every write, read, frame and event of the host keeps the invariant.     *)
THEOREM BackupInvariant == Spec => []BackupInv
BY InitOK, StepOK, PTL DEF Spec

(* The variables keep their types, for every delay of the write-out.       *)
THEOREM BackupTypes == Spec => []TypeOK
<1>1. BackupInv => TypeOK
  BY DEF BackupInv
<1> QED
  BY <1>1, BackupInvariant, PTL

(* The command state and the bank agree with the guessed chip, the one in  *)
(* the machine and the ones in saved states: flash_mode never leaves its   *)
(* base on a chip that is not a flash, nor the bank 0 on one without a     *)
(* second (write_backup, read_backup, memory_read_savestate).              *)
THEOREM ChipStaysCoherent == Spec => []ChipCoherent
<1>1. BackupInv => ChipCoherent
  BY DEF BackupInv
<1> QED
  BY <1>1, BackupInvariant, PTL

(* What the guest wrote (write_backup) is due in a write-out of            *)
(* update_backup that covers it, unless the host or the file system        *)
(* interfered since.                                                       *)
THEOREM WrittenOnTime == Spec => []OnTime
<1>1. BackupInv => OnTime
  BY DEF BackupInv
<1> QED
  BY <1>1, BackupInvariant, PTL

(* As long as the guest writes nothing, the countdown of update_backup     *)
(* goes on by one a frame, and when it ends all of it is in the file       *)
(* unless save_backup failed or the host interfered.                       *)
THEOREM EveryFrameNears == Spec => WriteOutNears
<1>1. ASSUME BackupInv, [Next]_vars, ~excused, dirty # {}, ~WriteBackup, dirty' # {}, ~excused'
      PROVE  /\ dirty' = dirty
             /\ backup_update' = backup_update - (IF UpdateBackup THEN 1 ELSE 0)
             /\ backup_update' \in 1..Delay
  <2>1. backup_update \in 1..Delay /\ Delay \in Nat /\ dirty \subseteq Saved(chip)
    BY <1>1, DelayAssumption DEF BackupInv, OnTime, Scheduled, Covered
  <2>2. CASE UpdateBackup
    <3>1. CountDown = backup_update - 1
      BY <2>1 DEF CountDown
    <3>2. CASE CountDown = 0
      <4>1. SaveBackup
        BY <2>2, <3>2 DEF UpdateBackup
      <4>2. chip.type # "NONE"
        BY <1>1, <2>1 DEF Saved, Size, Units
      <4>3. dirty' = dirty \ Saved(chip) \/ excused' = (excused \/ dirty # {})
        BY <4>1, <4>2 DEF SaveBackup
      <4> QED
        BY <1>1, <2>1, <4>3
    <3>3. CASE CountDown # 0
      <4>1. backup_update' = CountDown /\ dirty' = dirty
        BY <2>2, <3>3 DEF UpdateBackup
      <4> QED
        BY <2>1, <2>2, <3>1, <3>3, <4>1
    <3> QED
      BY <3>2, <3>3
  <2>3. CASE ~UpdateBackup
    <3>1. ReadBackup \/ SaveState \/ UNCHANGED vars
      BY <1>1, <2>3 DEF Next, LoadROM, Reset, LoadState, Excuse
    <3>2. dirty' = dirty /\ backup_update' = backup_update
      BY <3>1 DEF ReadBackup, Untouched, SaveState, vars
    <3> QED
      BY <2>1, <2>3, <3>2
  <2> QED
    BY <2>2, <2>3
<1>2. BackupInv /\ [Next]_vars =>
        [~excused /\ dirty # {} /\ ~WriteBackup =>
           \/ dirty' = {} \/ excused'
           \/ /\ dirty' = dirty
              /\ backup_update' = backup_update - (IF UpdateBackup THEN 1 ELSE 0)
              /\ backup_update' \in 1..Delay]_vars
  BY <1>1
<1> QED
  BY <1>2, BackupInvariant, PTL DEF Spec, WriteOutNears
=============================================================================
