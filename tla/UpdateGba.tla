------------------------------ MODULE UpdateGba ------------------------------
(***************************************************************************)
(* The clock of the emulated machine (main.c): the guest runs for          *)
(* execute_cycles cycles, then update_gba brings timers, raster and        *)
(* interrupts up to date and chooses the length of the next slice; while   *)
(* the CPU is halted it loops.  At the end of the last line it stops in    *)
(* check_paused, where the host may replace the machine (EmuThread).       *)
(*                                                                         *)
(* The slice is in two places: update_gba keeps its length in the global   *)
(* execute_cycles, the books, and by that advances timers and raster; the  *)
(* CPU counts down its own copy of what update_gba returned.  They part    *)
(* when the guest starts a timer, which shortens only the books.           *)
(*                                                                         *)
(* Left out: sound, DMA, rendering and input, which update_gba calls on    *)
(* the way; the contents of the timer registers; a timer's prescaler       *)
(* (reloads are counted in cycles).  IE and IME are one switch.  A slice   *)
(* lasts as long as it was cut: that the CPU ends one at the end of a      *)
(* block, or before its time to halt, to take an interrupt or to skip an   *)
(* idle loop, is not in the books either.                                  *)
(***************************************************************************)
EXTENDS Integers, FiniteSets

CONSTANTS
  Visible, Lines,   \* 160 visible lines of 228
  Draw, HBlank,     \* 960 and 272 cycles of a line
  EventFrames,      \* event_cycles_trigger, in frames
  Timers,           \* the timers the guest uses, of 0..3
  Reloads,          \* the reload values it gives them, in cycles
  Irqs,             \* the interrupts it asks for
  CountFloor,       \* a count below -CountFloor is not told from it
  SavesStates       \* whether the host saves and loads states

DisplayIrqs == {"VBLANK", "HBLANK", "VCOUNT"}
TimerIrq    == <<"TIMER0", "TIMER1", "TIMER2", "TIMER3">>

ASSUME RasterAssumption ==
  /\ Visible \in Nat /\ Lines \in Nat /\ 0 < Visible /\ Visible < Lines
  /\ Draw \in Nat /\ HBlank \in Nat /\ 0 < HBlank /\ HBlank <= Draw
ASSUME TimerAssumption ==
  /\ Timers \subseteq 0..3 /\ Reloads \subseteq Nat \ {0}
  /\ \E r \in Reloads : \A s \in Reloads : s <= r
  /\ EventFrames \in Nat \ {0} /\ CountFloor \in Nat
ASSUME IrqAssumption == Irqs \subseteq DisplayIrqs \cup {TimerIrq[n + 1] : n \in Timers}
ASSUME SavesAssumption == SavesStates \in BOOLEAN

VARIABLES
  pc,              \* "run": between two passes; inside one, in check_paused,
                   \* "checkPaused", or "restart" if it will return nonzero
  execute_cycles,  \* the length of the slice, in the books
  given,           \* what update_gba returned last: what the CPU runs
  overtaken,       \* the timers started since, that overflow before the CPU
                   \* is done with what it was given (history)
  video_count,     \* cycles to the next change of hblank
  vcount,          \* REG_VCOUNT
  hblank, vblank,  \* bits of REG_DISPSTAT
  dispstat,        \* the interrupts REG_DISPSTAT asks for, and their line
  timer,
  reg_if,          \* REG_IF
  ime,             \* REG_IE and REG_IME let interrupts through
  masked,          \* bit 0x80 of the CPSR
  halted,          \* reg[CPU_HALT_STATE] # CPU_ACTIVE
  irq_raised,      \* kept by the pass from check_paused, or while halted
  changed_pc,      \* reg[CHANGED_PC_STATUS]
  event_cycles,
  slots,           \* the machine of the saved state, if there is one
  elapsed,         \* cycles in the books since line 0, those between two
                   \* ends of the last line not counted (history)
  repeated,        \* the frame in progress left a pass by "continue" (history)
  drifted,         \* timers were running when a pass did (history)
  moved            \* the PC is not where the translated block would go on
                   \* (history)

raster  == <<video_count, vcount, hblank, vblank>>
cpu     == <<ime, masked, halted>>
history == <<elapsed, repeated, drifted>>
slice   == <<execute_cycles, given, overtaken>>
pass    == <<pc, slice, irq_raised, changed_pc, event_cycles, moved>>
vars    == <<raster, cpu, history, pass, dispstat, timer, reg_if, slots>>

Statuses == {"INACTIVE", "PRESCALE", "CASCADE"}
LineTime == Draw + HBlank

(* The largest reload; a timer the guest never set has 0x10000 cycles.     *)
NoReload == CHOOSE r \in Reloads : \A s \in Reloads : s <= r

(* init_main and init_memory, as reset_gba leaves them.                    *)
Init ==
  /\ pc = "run"
  /\ execute_cycles = Draw
  /\ given = Draw
  /\ overtaken = {}
  /\ video_count = Draw
  /\ vcount = 0
  /\ hblank = FALSE
  /\ vblank = FALSE
  /\ dispstat = [irqs |-> {}, line |-> 0]
  /\ timer = [n \in Timers |-> [status |-> "INACTIVE", count |-> 0,
                                reload |-> NoReload, irq |-> FALSE]]
  /\ reg_if = {}
  /\ ime = FALSE
  /\ masked = FALSE
  /\ halted = FALSE
  /\ irq_raised = {}
  /\ changed_pc = FALSE
  /\ event_cycles = 0
  /\ slots = {}
  /\ elapsed = 0
  /\ repeated = FALSE
  /\ drifted = FALSE
  /\ moved = FALSE

----------------------------------------------------------------------------
(* The guest's slice: what it may write to the registers of this module.   *)

Guest == pc = "run" /\ ~halted

(* count_timer: the new reload counts from the next overflow.              *)
SetReload ==
  /\ Guest
  /\ \E n \in Timers, r \in Reloads : timer' = [timer EXCEPT ![n].reload = r]
  /\ UNCHANGED <<raster, cpu, history, pass, dispstat, reg_if, slots>>

MutShortened(c) == execute_cycles

Shortened(c) == IF c < execute_cycles THEN c ELSE execute_cycles

(* trigger_timer: a timer that runs is not started again; one that starts  *)
(* may shorten the slice in the books.  The CPU runs its own to the end,   *)
(* past the overflow of that timer, too.                                   *)
StartTimer ==
  /\ Guest
  /\ \E n \in Timers, status \in {"PRESCALE", "CASCADE"}, irq \in BOOLEAN :
       /\ timer[n].status = "INACTIVE"
       /\ irq => TimerIrq[n + 1] \in Irqs
       /\ timer' = [timer EXCEPT ![n].status = status, ![n].irq = irq,
                                 ![n].count = timer[n].reload]
       /\ execute_cycles' = Shortened(timer[n].reload)
       /\ overtaken' = IF status = "PRESCALE" /\ timer[n].reload < given
                         THEN overtaken \cup {n} ELSE overtaken
  /\ UNCHANGED <<raster, cpu, history, pc, given, irq_raised, changed_pc, event_cycles,
                 moved, dispstat, reg_if, slots>>

StopTimer ==
  /\ Guest
  /\ \E n \in Timers : /\ timer' = [timer EXCEPT ![n].status = "INACTIVE"]
                        /\ overtaken' = overtaken \ {n}
  /\ UNCHANGED <<raster, cpu, history, pc, execute_cycles, given, irq_raised, changed_pc,
                 event_cycles, moved, dispstat, reg_if, slots>>

(* The line is only told apart by the VCOUNT interrupt.                    *)
LineChoices == IF "VCOUNT" \in Irqs THEN {0, Visible} ELSE {0}

SetDispstat ==
  /\ Guest
  /\ \E irqs \in SUBSET (Irqs \cap DisplayIrqs), line \in LineChoices :
       dispstat' = [irqs |-> irqs, line |-> line]
  /\ UNCHANGED <<raster, cpu, history, pass, timer, reg_if, slots>>

(* A write to IE or IME is not checked against a pending interrupt.        *)
SetIme ==
  /\ Guest
  /\ ime' \in BOOLEAN
  /\ UNCHANGED <<raster, masked, halted, history, pass, dispstat, timer, reg_if, slots>>

(* A write to the CPSR is: a pending interrupt is taken at once.           *)
SetMasked ==
  /\ Guest
  /\ \E m \in BOOLEAN : masked' = (m \/ (ime /\ reg_if # {}))
  /\ UNCHANGED <<raster, ime, halted, history, pass, dispstat, timer, reg_if, slots>>

Acknowledge ==
  /\ Guest
  /\ \E i \in reg_if : reg_if' = reg_if \ {i}
  /\ UNCHANGED <<raster, cpu, history, pass, dispstat, timer, slots>>

Halt ==
  /\ Guest
  /\ halted' = TRUE
  /\ UNCHANGED <<raster, ime, masked, history, pass, dispstat, timer, reg_if, slots>>

----------------------------------------------------------------------------
(* update_timer, for the four timers in their order: over is the set of    *)
(* those that overflow, which depends on the one before.                   *)

Running(n) == timer[n].status # "INACTIVE"

Left(n, over) ==
  CASE timer[n].status = "PRESCALE" -> timer[n].count - execute_cycles
    [] timer[n].status = "CASCADE"  -> timer[n].count - IF n - 1 \in over THEN 1 ELSE 0
    [] OTHER                        -> timer[n].count

Overflows(over) ==
  /\ over \subseteq Timers
  /\ \A n \in Timers : n \in over <=> Running(n) /\ Left(n, over) <= 0

Floored(c) == IF c < -CountFloor THEN -CountFloor ELSE c

Count(n, over) ==
  IF n \in over THEN Floored(Left(n, over) + timer[n].reload) ELSE Left(n, over)

UpdateTimers(over) ==
  timer' = [n \in Timers |-> [timer[n] EXCEPT !.count = Count(n, over)]]

TimerIrqs(over) == {TimerIrq[n + 1] : n \in {k \in over : timer[k].irq}}

MutNextSlice ==
  LET counts == {video_count'} \cup {timer'[n].count : n \in {k \in Timers : timer'[k].count >= 0}}
  IN execute_cycles' \in {c \in counts : \A d \in counts : c <= d}

(* check_timer compares unsigned: a negative count does not shorten.       *)
NextSlice ==
  LET counts == {video_count'} \cup
                {timer'[n].count : n \in {k \in Timers : timer'[k].status = "PRESCALE"
                                                         /\ timer'[k].count >= 0}}
  IN execute_cycles' \in {c \in counts : \A d \in counts : c <= d}

(* update_gba returns the length of the slice: the CPU runs that from now. *)
CpuGets == given' = execute_cycles' /\ overtaken' = {}

MutFinish(irqs, wasHalted, wasMoved) ==
  LET taken == irqs \ reg_if # {} /\ ime /\ ~masked
  IN /\ reg_if' = reg_if \cup irqs
     /\ masked' = (masked \/ taken)
     /\ halted' = (wasHalted /\ ~taken)
     /\ changed_pc' = taken
     /\ moved' = ((wasHalted /\ wasMoved) \/ taken)
     /\ irq_raised' = IF halted' THEN irqs ELSE {}
     /\ NextSlice
     /\ CpuGets

(* The end of a pass: raise_interrupt(irqs), then the next slice, or the   *)
(* next pass if the CPU is still halted.                                   *)
Finish(irqs, wasHalted, wasMoved) ==
  LET taken == irqs # {} /\ ime /\ ~masked
  IN /\ reg_if' = reg_if \cup irqs
     /\ masked' = (masked \/ taken)
     /\ halted' = (wasHalted /\ ~taken)
     /\ changed_pc' = taken
     /\ moved' = ((wasHalted /\ wasMoved) \/ taken)
     /\ irq_raised' = IF halted' THEN irqs ELSE {}
     /\ NextSlice
     /\ CpuGets

Carried == IF halted THEN irq_raised ELSE {}

MutSpan(blank) == IF blank THEN Draw ELSE HBlank

Span(blank) == IF blank THEN HBlank ELSE Draw

EndsFrame == vcount + 1 = Lines

(* A pass between two changes of the raster.                               *)
MidLine ==
  /\ pc = "run"
  /\ video_count > execute_cycles
  /\ video_count' = video_count - execute_cycles
  /\ \E over \in SUBSET Timers :
       /\ Overflows(over)
       /\ UpdateTimers(over)
       /\ Finish(Carried \cup TimerIrqs(over), halted, moved)
  /\ elapsed' = elapsed + execute_cycles
  /\ UNCHANGED <<pc, vcount, hblank, vblank, ime, repeated, drifted,
                 event_cycles, dispstat, slots>>

EnterHBlank ==
  /\ pc = "run"
  /\ video_count <= execute_cycles
  /\ ~hblank
  /\ video_count' = video_count - execute_cycles + Span(TRUE)
  /\ \E over \in SUBSET Timers :
       /\ Overflows(over)
       /\ UpdateTimers(over)
       /\ Finish(Carried \cup TimerIrqs(over) \cup (dispstat.irqs \cap {"HBLANK"}),
                 halted, moved)
  /\ hblank' = TRUE
  /\ elapsed' = elapsed + execute_cycles
  /\ UNCHANGED <<pc, vcount, vblank, ime, repeated, drifted, event_cycles,
                 dispstat, slots>>

(* The interrupts due on entering line l.                                  *)
LineIrqs(l) ==
  dispstat.irqs \cap ((IF l = Visible THEN {"VBLANK"} ELSE {})
                      \cup (IF l = dispstat.line THEN {"VCOUNT"} ELSE {}))

BlankedAt(l) == vblank \/ l = Visible

NextLine ==
  /\ pc = "run"
  /\ video_count <= execute_cycles
  /\ hblank
  /\ ~EndsFrame
  /\ video_count' = video_count - execute_cycles + Span(FALSE)
  /\ \E over \in SUBSET Timers :
       /\ Overflows(over)
       /\ UpdateTimers(over)
       /\ Finish(Carried \cup TimerIrqs(over) \cup LineIrqs(vcount + 1), halted, moved)
  /\ hblank' = FALSE
  /\ vblank' = BlankedAt(vcount + 1)
  /\ vcount' = vcount + 1
  /\ elapsed' = elapsed + execute_cycles
  /\ UNCHANGED <<pc, ime, repeated, drifted, event_cycles, dispstat, slots>>

(* The end of the last line, up to check_paused: vcount and the bits of    *)
(* DISPSTAT are still in locals, so a pass that is left here ends the line *)
(* again, after another Draw cycles.                                       *)
LastLine ==
  /\ pc = "run"
  /\ video_count <= execute_cycles
  /\ hblank
  /\ EndsFrame
  /\ \E over \in SUBSET Timers :
       /\ Overflows(over)
       /\ UpdateTimers(over)
       /\ irq_raised' = Carried \cup TimerIrqs(over)
  /\ video_count' = video_count - execute_cycles + Span(FALSE)
  /\ pc' = "checkPaused"
  /\ changed_pc' = FALSE
  /\ moved' = (halted /\ moved)
  /\ elapsed' = elapsed + execute_cycles - Draw
  /\ UNCHANGED <<vcount, hblank, vblank, cpu, slice, event_cycles, repeated, drifted,
                 dispstat, reg_if, slots>>

----------------------------------------------------------------------------
(* In check_paused: the host, and the two ways out.                        *)

Paused == pc # "run"

Machine == [execute_cycles |-> execute_cycles, video_count |-> video_count,
            vcount |-> vcount, hblank |-> hblank, vblank |-> vblank,
            dispstat |-> dispstat, timer |-> timer, reg_if |-> reg_if,
            ime |-> ime, masked |-> masked, halted |-> halted, elapsed |-> elapsed]

SaveState ==
  /\ SavesStates
  /\ Paused
  /\ slots' = {Machine}
  /\ UNCHANGED <<raster, cpu, history, pass, dispstat, timer, reg_if>>

MutRedirect == changed_pc' = FALSE /\ moved' = TRUE

(* The host tells update_gba's caller that the PC is another.              *)
Redirect == changed_pc' = TRUE /\ moved' = TRUE

(* Emulator_reset and Emulator_loadROM.                                    *)
Reset ==
  /\ Paused
  /\ pc' = "restart"
  /\ execute_cycles' = Draw
  /\ video_count' = Draw
  /\ vcount' = 0
  /\ hblank' = FALSE
  /\ vblank' = FALSE
  /\ dispstat' = [irqs |-> {}, line |-> 0]
  /\ timer' = [n \in Timers |-> [timer[n] EXCEPT !.status = "INACTIVE",
                                                !.reload = NoReload]]
  /\ reg_if' = {}
  /\ ime' = FALSE
  /\ masked' = FALSE
  /\ halted' = FALSE
  /\ elapsed' = 0
  /\ Redirect
  /\ UNCHANGED <<given, overtaken, irq_raised, event_cycles, slots, repeated, drifted>>

(* Emulator_loadState: event_cycles and the pass's own irq_raised are not  *)
(* part of a saved state.                                                  *)
LoadState ==
  /\ Paused
  /\ pc' = "restart"
  /\ \E m \in slots :
       /\ execute_cycles' = m.execute_cycles
       /\ video_count' = m.video_count
       /\ vcount' = m.vcount
       /\ hblank' = m.hblank
       /\ vblank' = m.vblank
       /\ dispstat' = m.dispstat
       /\ timer' = m.timer
       /\ reg_if' = m.reg_if
       /\ ime' = m.ime
       /\ masked' = m.masked
       /\ halted' = m.halted
       /\ elapsed' = m.elapsed
  /\ Redirect
  /\ UNCHANGED <<given, overtaken, irq_raised, event_cycles, slots, repeated, drifted>>

(* A state file that cannot be opened changes nothing, but restarts.       *)
LoadStateFail ==
  /\ Paused
  /\ pc' = "restart"
  /\ UNCHANGED <<raster, cpu, history, slice, irq_raised, changed_pc,
                 event_cycles, moved, dispstat, timer, reg_if, slots>>

(* "continue": the length of the slice is not chosen anew, and what was    *)
(* raised in the pass is forgotten unless the CPU is halted.               *)
Continue ==
  /\ pc' = "run"
  /\ irq_raised' = Carried
  /\ repeated' = hblank
  /\ drifted' = \E n \in Timers : Running(n)
  /\ UNCHANGED <<raster, cpu, elapsed, execute_cycles, changed_pc, moved,
                 dispstat, timer, reg_if, slots>>
  /\ CpuGets

Restart == pc = "restart" /\ Continue /\ UNCHANGED event_cycles

CountEvents == IF event_cycles > EventFrames THEN event_cycles ELSE event_cycles + 1

(* trigger_ext_event does nothing, but its frame ends twice.               *)
EventFrame ==
  /\ pc = "checkPaused"
  /\ event_cycles' = CountEvents
  /\ event_cycles' = EventFrames
  /\ Continue

EndFrame ==
  /\ pc = "checkPaused"
  /\ event_cycles' = CountEvents
  /\ event_cycles' # EventFrames
  /\ pc' = "run"
  /\ vcount' = 0
  /\ hblank' = FALSE
  /\ vblank' = FALSE
  /\ elapsed' = 0
  /\ repeated' = FALSE
  /\ UNCHANGED <<video_count, ime, drifted, dispstat, timer, slots>>
  /\ Finish(irq_raised \cup LineIrqs(0), halted, moved)

----------------------------------------------------------------------------
GuestWrites == SetReload \/ StartTimer \/ StopTimer \/ SetDispstat \/ SetIme
               \/ SetMasked \/ Acknowledge \/ Halt
Pass        == MidLine \/ EnterHBlank \/ NextLine \/ LastLine
Host        == SaveState \/ Reset \/ LoadState \/ LoadStateFail
LeavePause  == Restart \/ EventFrame \/ EndFrame

Next == GuestWrites \/ Pass \/ Host \/ LeavePause

(* The CPU ends every slice (it counts cycles down), and a paused game is  *)
(* resumed (the hand-over protocol is EmuThread).                          *)
Spec == Init /\ [][Next]_vars /\ WF_vars(Pass) /\ WF_vars(LeavePause)

----------------------------------------------------------------------------
TimerRecords == [status : Statuses, count : Int, reload : Reloads, irq : BOOLEAN]

(* The registers, timers and positions of update_gba keep their types, in  *)
(* the machine and in the states saved.                                    *)
TypeOK ==
  /\ pc \in {"run", "checkPaused", "restart"}
  /\ execute_cycles \in 0..Draw /\ given \in 0..Draw /\ overtaken \subseteq Timers
  /\ video_count \in 1..Draw
  /\ vcount \in 0..(Lines - 1)
  /\ hblank \in BOOLEAN /\ vblank \in BOOLEAN
  /\ dispstat \in [irqs : SUBSET (Irqs \cap DisplayIrqs), line : LineChoices]
  /\ timer \in [Timers -> TimerRecords]
  /\ reg_if \subseteq Irqs
  /\ ime \in BOOLEAN /\ masked \in BOOLEAN /\ halted \in BOOLEAN
  /\ irq_raised \subseteq Irqs
  /\ changed_pc \in BOOLEAN
  /\ event_cycles \in 0..(EventFrames + 1)
  /\ elapsed \in Int
  /\ repeated \in BOOLEAN /\ drifted \in BOOLEAN /\ moved \in BOOLEAN

(* The raster the guest sees (VCOUNT, the blanking bits) is where the      *)
(* cycles in the books put it, however they were cut into slices, by       *)
(* timers that were started in the middle of one or by a continue, and     *)
(* whatever was restarted.                                                 *)
RasterClock ==
  pc = "run" => elapsed + video_count
                  = vcount * LineTime + (IF hblank THEN LineTime ELSE Draw)

(* The vertical blanking bit belongs to the line, and a horizontal blank   *)
(* has its length unless a continue made the line end again.               *)
BlankFlags ==
  pc = "run" => /\ vblank <=> vcount >= Visible
                /\ hblank /\ ~repeated => video_count <= HBlank

(* What the CPU runs in a slice takes it past no change of the raster and  *)
(* no overflow of a timer that was running when the slice began, after a   *)
(* reset and a loaded state, too.  A timer the guest starts in between may *)
(* overflow while the CPU runs on (trigger_timer cannot stop it), but the  *)
(* books end there, so that no timer is ever counted past its overflow.    *)
(* The slice that a continue leaves behind may run past an overflow.       *)
SliceStopsInTime ==
  pc = "run" =>
    /\ execute_cycles <= given /\ given <= video_count
    /\ ~drifted => /\ execute_cycles > 0
                   /\ \A n \in Timers : timer[n].status = "PRESCALE" =>
                        /\ execute_cycles <= timer[n].count
                        /\ given <= timer[n].count \/ n \in overtaken

(* When update_gba returns with another PC than it was called with (an     *)
(* interrupt, a reset, a loaded state, in any of its passes), it tells the *)
(* translator's stub so.                                                   *)
PcFollowed == pc = "run" /\ ~halted /\ moved => changed_pc

(* A CPU that waits for the vertical blank gets it.                        *)
WaitsForVBlank == halted /\ ime /\ ~masked /\ "VBLANK" \in dispstat.irqs
HaltedWakes == WaitsForVBlank ~> (~halted \/ pc = "restart")

(* Frames keep ending: check_paused is reached again and again, whatever   *)
(* the guest does, so a request to pause is always answered.               *)
PauseAnswered == []<>Paused

(* What that rests on, short of fairness: between two ends of a frame no   *)
(* step takes the guest further from the next, each pass takes it nearer   *)
(* unless a continue left a timer overdue, and there is always some way    *)
(* to go.                                                                  *)
CyclesLeft == Lines * LineTime - elapsed

EndNears ==
  [][pc = "run" => /\ CyclesLeft \in Nat \ {0}
                   /\ GuestWrites => CyclesLeft' = CyclesLeft
                   /\ Pass => \/ pc' = "checkPaused"
                              \/ CyclesLeft' < CyclesLeft
                              \/ drifted /\ CyclesLeft' = CyclesLeft]_vars

----------------------------------------------------------------------------
(* Why the clock is right: the inductive invariant.  The equation of       *)
(* RasterClock survives only because a slice never passes the change of    *)
(* hblank (ClockTypes), so that every frame ends on its cycle; and it has  *)
(* to hold of the machine in a state file too.                             *)

ClockTypes ==
  /\ pc \in {"run", "checkPaused", "restart"}
  /\ execute_cycles \in Nat /\ execute_cycles <= video_count
  /\ video_count \in Nat /\ 0 < video_count /\ video_count <= Draw
  /\ pc # "run" => 0 < execute_cycles /\ video_count = Draw
  /\ vcount \in Nat /\ vcount < Lines
  /\ hblank \in BOOLEAN /\ vblank \in BOOLEAN
  /\ timer \in [Timers -> TimerRecords]
  /\ elapsed \in Int

LineEnd(v, h) == v * LineTime + (IF h THEN LineTime ELSE Draw)

OnTheClock == elapsed + video_count = LineEnd(vcount, hblank)

BlankBits ==
  /\ vblank <=> vcount >= Visible
  /\ pc = "run" /\ hblank /\ ~repeated => video_count <= HBlank

RedirectTold == ~halted /\ moved => changed_pc

TimersAhead ==
  pc # "restart" /\ ~drifted =>
    /\ 0 < execute_cycles
    /\ \A n \in Timers : timer[n].status = "PRESCALE" =>
         0 < timer[n].count /\ (pc = "run" => execute_cycles <= timer[n].count)

(* What the CPU was given is what the books had then.                      *)
SliceGiven ==
  /\ given \in Nat /\ given <= Draw /\ overtaken \subseteq Timers
  /\ pc = "run" => execute_cycles <= given /\ given <= video_count
  /\ pc = "run" /\ ~drifted =>
       \A n \in Timers : timer[n].status = "PRESCALE" =>
         given <= timer[n].count \/ n \in overtaken

SlotsOnTheClock ==
  \A m \in slots :
    /\ m.execute_cycles \in Nat /\ 0 < m.execute_cycles /\ m.execute_cycles <= Draw
    /\ m.video_count = Draw
    /\ m.vcount \in Nat /\ m.vcount < Lines
    /\ m.hblank \in BOOLEAN /\ m.vblank \in BOOLEAN
    /\ m.timer \in [Timers -> TimerRecords]
    /\ m.elapsed \in Int
    /\ m.elapsed + m.video_count = LineEnd(m.vcount, m.hblank)
    /\ m.vblank <=> m.vcount >= Visible

(* The rest of TypeOK, for the machine in a state file too.                *)
IrqTypes(m) ==
  /\ m.dispstat \in [irqs : SUBSET (Irqs \cap DisplayIrqs), line : LineChoices]
  /\ m.reg_if \subseteq Irqs
  /\ m.ime \in BOOLEAN /\ m.masked \in BOOLEAN /\ m.halted \in BOOLEAN
  /\ \A n \in Timers : m.timer[n].irq => TimerIrq[n + 1] \in Irqs

IrqInv ==
  /\ IrqTypes(Machine)
  /\ \A m \in slots : IrqTypes(m)
  /\ irq_raised \subseteq Irqs
  /\ changed_pc \in BOOLEAN
  /\ event_cycles \in Nat /\ event_cycles <= EventFrames + 1
  /\ repeated \in BOOLEAN /\ drifted \in BOOLEAN /\ moved \in BOOLEAN

ClockInv == ClockTypes /\ OnTheClock /\ BlankBits /\ RedirectTold /\ TimersAhead
            /\ SlotsOnTheClock
=============================================================================
