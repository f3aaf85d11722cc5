------------------------------ MODULE CpuModes ------------------------------
(***************************************************************************)
(* The banked registers of the CPU: where each register of each mode is    *)
(* kept, by set_cpu_mode (cpu.c), by the translated code, which holds six  *)
(* of them in registers of the host (gp2x/arm_stub.S, arm_emit.h), and by  *)
(* an interrupt that is raised in update_gba or by a DMA.                  *)
(*                                                                         *)
(* A register of a mode is a slot, <<bank, number>>.  Instead of numbers,  *)
(* every place holds the slot whose last value it is, or OLD: a value that *)
(* was overwritten elsewhere since.                                        *)
(*                                                                         *)
(* Left out: the flags, SPSR (a return goes to any mode, as the guest may  *)
(* put any into it), the modes that behave like the supervisor's, invalid  *)
(* mode bits, saved states; and a DMA whose interrupt is raised by a word  *)
(* of a block transfer that is not its last: that store returns into the   *)
(* block whatever it raised (execute_store_u32_safe), so the code of the   *)
(* mode it interrupted goes on in the bank of the other.                   *)
(***************************************************************************)
EXTENDS Integers, FiniteSets

CONSTANTS
  Modes,       \* "USER", "IRQ", "SUPERVISOR", "FIQ"
  Regs,        \* 3 and 5: cached in Thumb; 9: banked for FIQ; 9, 14: cached in ARM; 13
  OLD

ASSUME ModesAssumption ==
  /\ {"USER", "IRQ", "SUPERVISOR"} \subseteq Modes
  /\ Modes \subseteq {"USER", "IRQ", "SUPERVISOR", "FIQ"}
  /\ Regs \subseteq 0 .. 14 /\ {3, 5, 9, 14} \subseteq Regs

Banked == {r \in Regs : r >= 8}               \* the columns of reg_mode
Slots  == (Modes \cup {"ALL"}) \X Regs

(* The slot that a mode's register is, as the comment at set_cpu_mode has  *)
(* it: 13 and 14 of each mode, 8 to 12 of FIQ and of the others.           *)
Own(m, r) ==
  << IF r >= 13 \/ (r >= 8 /\ m = "FIQ") THEN m ELSE "ALL", r >>

VARIABLES
  reg,         \* [Regs -> place]
  reg_mode,    \* [Modes -> [Banked -> place]]
  cpu_mode,    \* reg[CPU_MODE]
  host,        \* the host's registers x3 and x5
  mode, irqs, thumb,   \* of CPSR; irqs: bit 7 is clear
  asking,      \* IE & IF, and IME
  origin,      \* in FIQ, the mode it was entered from (history)
  lost,        \* the slots that the code is known to lose, until written (history)
  late         \* asking since the guest wrote IE, IME or IF (history)

cpsr == <<mode, irqs, thumb>>
modeVars == <<reg, reg_mode, cpu_mode, host, cpsr, asking, origin, lost, late>>

----------------------------------------------------------------------------
(* The register file, as a record that the steps of an action hand on.     *)

File == [reg |-> reg, bank |-> reg_mode, mode |-> cpu_mode, lost |-> lost, origin |-> origin]

(* The host's registers, and the guest's that they hold.                   *)
Arm   == [x3 |-> 9, x5 |-> 14]
Thumb == [x3 |-> 3, x5 |-> 5]
Cache == IF thumb THEN Thumb ELSE Arm

(* store_registers_arm, store_registers_thumb.                             *)
Stored(file, map) ==
  [file EXCEPT !.reg = [r \in Regs |-> IF r = map.x3 THEN host.x3
                                       ELSE IF r = map.x5 THEN host.x5 ELSE @[r]]]
(* load_registers_arm, load_registers_thumb.                               *)
Loaded(file, map) == [x3 |-> file.reg[map.x3], x5 |-> file.reg[map.x5]]

(* set_cpu_mode.                                                           *)
Retired(file, new) ==
  [file.bank EXCEPT ![file.mode] =
     [i \in Banked |-> IF i >= 13 \/ new = "FIQ" THEN file.reg[i] ELSE @[i]]]
SetCpuMode(file, new) ==
  IF file.mode = new THEN file
  ELSE LET bank == Retired(file, new)
       IN [reg |-> [r \in Regs |->
                      IF r >= 13 \/ (r >= 8 /\ file.mode = "FIQ") THEN bank[new][r]
                      ELSE file.reg[r]],
           bank |-> bank, mode |-> new,
           origin |-> IF new = "FIQ" THEN file.mode ELSE new,
           lost |-> file.lost
             \cup IF new = "FIQ" THEN {Own("FIQ", r) : r \in Banked \ {13, 14}} ELSE {}
             \cup IF file.mode = "FIQ" /\ new # file.origin
                  THEN {Own(new, r) : r \in Banked \ {13, 14}} ELSE {}]

(* A place that held the slot's last value no longer does.                 *)
Outdated(file, s) ==
  [file EXCEPT !.reg = [r \in Regs |-> IF @[r] = s THEN OLD ELSE @[r]],
               !.bank = [m \in Modes |-> [i \in Banked |->
                           IF @[m][i] = s THEN OLD ELSE @[m][i]]],
               !.lost = @ \ {s}]

(* An exception: reg_mode[m][6] is the return address, then the mode.      *)
Entered(file, m) ==
  LET s == Own(m, 14)
      linked == [Outdated(file, s) EXCEPT !.bank[m][14] = s]
  IN IF file.mode = m THEN [linked EXCEPT !.lost = @ \cup {s}] ELSE SetCpuMode(linked, m)

Become(file) ==
  /\ reg' = file.reg /\ reg_mode' = file.bank /\ cpu_mode' = file.mode
  /\ lost' = file.lost /\ origin' = file.origin

----------------------------------------------------------------------------
ModesInit ==
  /\ reg = [r \in Regs |-> Own("USER", r)]
  /\ reg_mode = [m \in Modes |-> [i \in Banked |->
                   IF Own(m, i)[1] = m /\ m # "USER" THEN Own(m, i) ELSE OLD]]
  /\ cpu_mode = "USER" /\ mode = "USER" /\ irqs = TRUE /\ thumb = FALSE
  /\ host = [x3 |-> Own("USER", 9), x5 |-> Own("USER", 14)]
  /\ asking = FALSE /\ origin = "USER" /\ lost = {} /\ late = FALSE

(* An instruction writes a register: of the host, if it is held there.     *)
Write(r) ==
  LET s == Own(mode, r)
      file == Outdated(File, s)
  IN /\ IF \E x \in {"x3", "x5"} : Cache[x] = r
        THEN /\ host' = [x \in {"x3", "x5"} |->
                           IF Cache[x] = r THEN s ELSE IF host[x] = s THEN OLD ELSE host[x]]
             /\ Become(file)
        ELSE /\ host' = [x \in {"x3", "x5"} |-> IF host[x] = s THEN OLD ELSE host[x]]
             /\ Become([file EXCEPT !.reg[r] = s])
     /\ UNCHANGED <<cpsr, asking, late>>

(* arm_indirect_branch_dual, to the other instruction set.                 *)
Bx ==
  LET file == Stored(File, Cache)
  IN /\ thumb' = ~thumb
     /\ Become(file)
     /\ host' = Loaded(file, IF thumb THEN Arm ELSE Thumb)
     /\ UNCHANGED <<mode, irqs, asking, late>>

MutResume(file, m, i, t) ==
  /\ mode' = m /\ irqs' = i /\ thumb' = t
  /\ Become(file)
  /\ host' = Loaded(file, IF t THEN Thumb ELSE Arm)
  /\ late' = FALSE
  /\ UNCHANGED asking

(* The mode bits m and the interrupt bit i are in CPSR, and the file has   *)
(* followed: check_for_interrupts, then back to the code.                  *)
Resume(file, m, i, t) ==
  LET taken == i /\ asking
      last == IF taken THEN Entered(file, "IRQ") ELSE file
  IN /\ mode' = IF taken THEN "IRQ" ELSE m
     /\ irqs' = (i /\ ~taken)
     /\ thumb' = (t /\ ~taken)
     /\ Become(last)
     /\ host' = Loaded(last, IF t /\ ~taken THEN Thumb ELSE Arm)
     /\ late' = FALSE
     /\ UNCHANGED asking

(* execute_store_cpsr, with the control bits.                              *)
StoreCpsr(m, i) ==
  /\ ~thumb
  /\ Resume(SetCpuMode(Stored(File, Arm), m), m, i, FALSE)

(* execute_spsr_restore.                                                   *)
SpsrRestore(m, i, t) ==
  /\ ~thumb
  /\ mode # "USER"
  /\ Resume(SetCpuMode(Stored(File, Arm), m), m, i, t)

MutExecuteSwi ==
  LET file == Stored(Entered(File, "SUPERVISOR"), Cache)
  IN /\ mode' = "SUPERVISOR" /\ thumb' = FALSE
     /\ Become(file)
     /\ host' = Loaded(file, Arm)
     /\ UNCHANGED <<irqs, asking, late>>

(* execute_swi: interrupts stay as they are.                               *)
ExecuteSwi ==
  LET file == Entered(Stored(File, Cache), "SUPERVISOR")
  IN /\ mode' = "SUPERVISOR" /\ thumb' = FALSE
     /\ Become(file)
     /\ host' = Loaded(file, Arm)
     /\ UNCHANGED <<irqs, asking, late>>

(* raise_interrupt, of an interrupt that IE and IME let through or not.    *)
Taken(through)  == through /\ irqs
Raised(through) ==
  /\ asking' = (asking \/ through)
  /\ mode' = IF Taken(through) THEN "IRQ" ELSE mode
  /\ irqs' = (irqs /\ ~Taken(through))
  /\ thumb' = (thumb /\ ~Taken(through))
  /\ late' = (late /\ ~Taken(through))

(* arm_update_gba, in which an interrupt is raised.                        *)
UpdateGba(through) ==
  LET file == Stored(File, Cache)
      last == IF Taken(through) THEN Entered(file, "IRQ") ELSE file
  IN /\ Raised(through)
     /\ Become(last)
     /\ host' = Loaded(last, IF thumb' THEN Thumb ELSE Arm)

(* A store that starts a DMA with an interrupt at its end, and itself ends *)
(* in write_epilogue, as all do but those within a block transfer: it is   *)
(* raised before write_epilogue stores the registers, for the mode it left. *)
StoreOfDma(through) ==
  LET raised == IF Taken(through) THEN Entered(File, "IRQ") ELSE File
      file == Stored(raised, IF thumb' THEN Thumb ELSE Arm)
      spoilt ==
        {Own("IRQ", 14)} \cup
        IF thumb THEN {Own(mode, r) : r \in {3, 5, 9}} \cup {Own("IRQ", 9)}
        ELSE {Own(mode, 14)} \cup IF mode = "FIQ" THEN {Own("FIQ", 9), Own("IRQ", 9)} ELSE {}
  IN /\ Raised(through)
     /\ Become(IF Taken(through) THEN [file EXCEPT !.lost = @ \cup spoilt] ELSE file)
     /\ host' = Loaded(file, IF thumb' THEN Thumb ELSE Arm)

(* The guest writes IE, IF or IME: nothing is checked.                     *)
WriteIe(asks) ==
  /\ asking' = asks
  /\ late' = (asks /\ irqs)
  /\ UNCHANGED <<reg, reg_mode, cpu_mode, host, cpsr, origin, lost>>

ModesNext ==
  \/ \E r \in Regs : Write(r)
  \/ Bx \/ ExecuteSwi
  \/ \E m \in Modes, i \in BOOLEAN :
       StoreCpsr(m, i) \/ \E t \in BOOLEAN : SpsrRestore(m, i, t)
  \/ \E b \in BOOLEAN : UpdateGba(b) \/ StoreOfDma(b) \/ WriteIe(b)

ModesSpec == ModesInit /\ [][ModesNext]_modeVars

----------------------------------------------------------------------------
(* Properties.                                                             *)

Places == Slots \cup {OLD}
ModesTypeOK ==
  /\ reg \in [Regs -> Places]
  /\ reg_mode \in [Modes -> [Banked -> Places]]
  /\ host \in [{"x3", "x5"} -> Places]
  /\ {cpu_mode, mode, origin} \subseteq Modes
  /\ irqs \in BOOLEAN /\ thumb \in BOOLEAN /\ asking \in BOOLEAN /\ late \in BOOLEAN
  /\ lost \subseteq Slots

(* What an instruction that reads the register gets.                       *)
Seen(r) ==
  IF \E x \in {"x3", "x5"} : Cache[x] = r
  THEN host[CHOOSE x \in {"x3", "x5"} : Cache[x] = r] ELSE reg[r]

(* Whatever modes and interrupts came between, each register that the      *)
(* guest reads has the value last written to it in this mode, and the link *)
(* register of a handler its return address ("retire the current reg[13]   *)
(* and reg[14] ... and load", cpu.c), but for the registers of FIQ, for an *)
(* exception into the mode the CPU is in, and for the interrupt of a DMA.  *)
RegistersKept == \A r \in Regs : Seen(r) = Own(mode, r) \/ Own(mode, r) \in lost

(* An interrupt that may be taken is not left waiting, except when writing *)
(* IE, IF or IME made it so: nothing looks at it then.                     *)
NoInterruptWaits == asking /\ irqs => late
=============================================================================
