--------------------------- MODULE UpdateGbaProofs ---------------------------
(***************************************************************************)
(* Proofs about the clock of update_gba, for every geometry of the raster, *)
(* every set of timers and reloads, and any interleaving of guest writes,  *)
(* resets and loaded states.  ClockInv is inductive; the properties of the *)
(* clock are parts of it.  IrqInv is inductive beside it, and types the    *)
(* registers of the interrupts.                                            *)
(*                                                                         *)
(* The second part is about the guest that the clock interrupts: the       *)
(* banked registers of CpuModes, for any registers and modes that          *)
(* ModesAssumption allows, with the inductive invariant ModesInv.          *)
(***************************************************************************)
EXTENDS UpdateGba, CpuModes, TLAPS

LEMMA LargestReload == NoReload \in Reloads
BY TimerAssumption DEF NoReload

LEMMA PositiveReloads ==
  ASSUME NEW r \in Reloads
  PROVE  r \in Nat /\ 0 < r
BY TimerAssumption

(* Whatever slice is chosen, it is positive and ends by the next change of *)
(* the raster and of every timer that is not overdue.                      *)
LEMMA ChosenSlice ==
  ASSUME NextSlice, video_count' \in Nat, 0 < video_count',
         timer' \in [Timers -> TimerRecords]
  PROVE  /\ execute_cycles' \in Nat
         /\ execute_cycles' <= video_count'
         /\ \A n \in Timers : timer'[n].status = "PRESCALE" /\ 0 < timer'[n].count
              => execute_cycles' <= timer'[n].count
         /\ (\A n \in Timers : timer'[n].status = "PRESCALE" => 0 < timer'[n].count)
              => 0 < execute_cycles'
<1> DEFINE running == {k \in Timers : timer'[k].status = "PRESCALE" /\ timer'[k].count >= 0}
           counts  == {video_count'} \cup {timer'[n].count : n \in running}
<1>1. execute_cycles' \in counts /\ \A d \in counts : execute_cycles' <= d
  BY DEF NextSlice
<1>2. \A n \in Timers : timer'[n].count \in Int
  BY DEF TimerRecords
<1>3. execute_cycles' <= video_count'
  BY <1>1
<1>4. execute_cycles' = video_count' \/ \E n \in running : execute_cycles' = timer'[n].count
  BY <1>1
<1>5. execute_cycles' \in Nat
  BY <1>2, <1>4
<1>6. ASSUME NEW n \in Timers, timer'[n].status = "PRESCALE", 0 < timer'[n].count
      PROVE  execute_cycles' <= timer'[n].count
  BY <1>1, <1>2, <1>6
<1>7. ASSUME \A n \in Timers : timer'[n].status = "PRESCALE" => 0 < timer'[n].count
      PROVE  0 < execute_cycles'
  BY <1>4, <1>7
<1> QED
  BY <1>3, <1>5, <1>6, <1>7

(* The timers after update_timer: of the right type, and positive if the   *)
(* slice passed no overflow.                                               *)
LEMMA UpdatedTimers ==
  ASSUME NEW over \in SUBSET Timers, Overflows(over), UpdateTimers(over),
         timer \in [Timers -> TimerRecords], execute_cycles \in Nat
  PROVE  /\ timer' \in [Timers -> TimerRecords]
         /\ \A n \in Timers :
              /\ timer'[n].status = timer[n].status
              /\ timer[n].status = "PRESCALE" /\ execute_cycles <= timer[n].count
                   => 0 < timer'[n].count
<1> SUFFICES ASSUME NEW n \in Timers
             PROVE  /\ Count(n, over) \in Int
                    /\ timer[n].status = "PRESCALE" /\ execute_cycles <= timer[n].count
                         => 0 < Count(n, over)
  <2>1. \A k \in Timers : /\ timer[k] \in TimerRecords
                          /\ timer'[k] = [timer[k] EXCEPT !.count = Count(k, over)]
    BY DEF UpdateTimers
  <2>2. timer' = [k \in Timers |-> [timer[k] EXCEPT !.count = Count(k, over)]]
    BY DEF UpdateTimers
  <2> QED
    BY <2>1, <2>2 DEF TimerRecords
<1>1. /\ timer[n].status \in Statuses /\ timer[n].count \in Int
      /\ timer[n].reload \in Nat /\ 0 < timer[n].reload /\ CountFloor \in Nat
  <2>1. timer[n] \in TimerRecords
    OBVIOUS
  <2>2. timer[n].reload \in Reloads
    BY <2>1 DEF TimerRecords
  <2> QED
    BY TimerAssumption, PositiveReloads, <2>1, <2>2 DEF TimerRecords
<1>2. Left(n, over) \in Int
  BY <1>1 DEF Left, Statuses
<1>3. Count(n, over) \in Int
  BY <1>1, <1>2 DEF Count, Floored
<1>4. ASSUME timer[n].status = "PRESCALE", execute_cycles <= timer[n].count
      PROVE  0 < Count(n, over)
  <2>1. Left(n, over) = timer[n].count - execute_cycles
    BY <1>4 DEF Left
  <2>2. n \in over <=> Left(n, over) <= 0
    BY <1>4 DEF Overflows, Running
  <2> QED
    BY <1>1, <1>4, <2>1, <2>2 DEF Count, Floored
<1> QED
  BY <1>3, <1>4

(* One line further, or from the middle of a line to its end, the clock    *)
(* advances by the cycles in between.                                      *)
LEMMA LineSteps ==
  ASSUME NEW v \in Nat
  PROVE  /\ LineEnd(v, TRUE) = LineEnd(v, FALSE) + HBlank
         /\ LineEnd(v + 1, FALSE) = LineEnd(v, TRUE) + Draw
         /\ LineEnd(0, FALSE) = Draw
         /\ LineEnd(v, TRUE) \in Int /\ LineEnd(v, FALSE) \in Int
<1>1. LineTime \in Nat /\ Draw \in Nat /\ HBlank \in Nat /\ LineTime = Draw + HBlank
  BY RasterAssumption DEF LineTime
<1>2. v * LineTime \in Nat /\ (v + 1) * LineTime = v * LineTime + LineTime /\ 0 * LineTime = 0
  BY <1>1
<1> QED
  BY <1>1, <1>2 DEF LineEnd

----------------------------------------------------------------------------
USE RasterAssumption

LEMMA ClockInit == Init => ClockInv
<1> SUFFICES ASSUME Init PROVE ClockInv
  OBVIOUS
<1> USE DEF Init
<1>1. timer \in [Timers -> TimerRecords]
  BY LargestReload DEF TimerRecords, Statuses
<1>2. elapsed = 0 /\ video_count = Draw /\ vcount = 0 /\ hblank = FALSE
  OBVIOUS
<1>3. OnTheClock
  BY <1>2 DEF OnTheClock, LineEnd, LineTime
<1>4. ClockTypes
  <2>1. 0 \in Int /\ 0 < Lines /\ 0 < Draw
    OBVIOUS
  <2>2. pc = "run" /\ execute_cycles = Draw /\ vblank = FALSE
    OBVIOUS
  <2>3. hblank \in BOOLEAN /\ vblank \in BOOLEAN
    BY <1>2, <2>2, Zenon
  <2> QED
    BY ONLY <1>1, <1>2, <2>1, <2>2, <2>3, RasterAssumption DEF ClockTypes
<1>5. BlankBits
  BY DEF BlankBits
<1>6. RedirectTold /\ SlotsOnTheClock
  BY DEF RedirectTold, SlotsOnTheClock
<1>7. TimersAhead
  BY DEF TimersAhead
<1> QED
  BY <1>3, <1>4, <1>5, <1>6, <1>7 DEF ClockInv

(* What the guest writes leaves the clock alone, but for a timer that it   *)
(* starts, whose overflow the slice is shortened to.                       *)
LEMMA GuestSteps ==
  ASSUME ClockInv, GuestWrites
  PROVE  ClockInv'
<1> USE DEF ClockInv, ClockTypes, OnTheClock, BlankBits, RedirectTold, TimersAhead,
            SlotsOnTheClock, raster, cpu, history, pass, slice, Guest
<1>1. CASE SetReload
  <2>1. PICK n \in Timers, r \in Reloads : timer' = [timer EXCEPT ![n].reload = r]
    BY <1>1 DEF SetReload
  <2>2. timer' \in [Timers -> TimerRecords]
    BY <2>1 DEF TimerRecords
  <2>3. \A k \in Timers : timer'[k].status = timer[k].status /\ timer'[k].count = timer[k].count
    BY <2>1
  <2> QED
    BY <1>1, <2>2, <2>3 DEF SetReload
<1>2. CASE StartTimer
  <2>1. PICK n \in Timers, status \in {"PRESCALE", "CASCADE"}, irq \in BOOLEAN :
          /\ timer' = [timer EXCEPT ![n].status = status, ![n].irq = irq,
                                   ![n].count = timer[n].reload]
          /\ execute_cycles' = Shortened(timer[n].reload)
    BY <1>2 DEF StartTimer
  <2>2. timer[n].reload \in Nat /\ 0 < timer[n].reload
    BY PositiveReloads DEF TimerRecords
  <2>3. timer' \in [Timers -> TimerRecords]
    <3>1. status \in Statuses
      BY DEF Statuses
    <3>2. timer[n].reload \in Int
      BY <2>2
    <3> QED
      BY <2>1, <3>1, <3>2 DEF TimerRecords
  <2>4. /\ timer'[n].count = timer[n].reload
        /\ \A k \in Timers \ {n} : timer'[k] = timer[k]
    BY <2>1
  <2>5. /\ execute_cycles' \in Nat
        /\ execute_cycles' <= execute_cycles /\ execute_cycles' <= timer[n].reload
        /\ 0 < execute_cycles => 0 < execute_cycles'
    BY <2>1, <2>2 DEF Shortened
  <2>6. TimersAhead'
    <3> SUFFICES ASSUME ~drifted, NEW k \in Timers, timer'[k].status = "PRESCALE"
                 PROVE  0 < execute_cycles' /\ 0 < timer'[k].count
                        /\ execute_cycles' <= timer'[k].count
      BY <1>2, <2>5 DEF StartTimer
    <3>1. 0 < execute_cycles' /\ timer[k].count \in Int
      BY <1>2, <2>5 DEF StartTimer, TimerRecords
    <3>2. CASE k = n
      BY <2>2, <2>4, <2>5, <3>1, <3>2
    <3>3. CASE k # n
      <4>1. timer[k].status = "PRESCALE" /\ timer'[k].count = timer[k].count
        BY <2>4, <3>3
      <4>2. 0 < timer[k].count /\ execute_cycles <= timer[k].count
        BY <1>2, <4>1 DEF StartTimer
      <4> QED
        BY <2>5, <3>1, <4>1, <4>2
    <3> QED
      BY <3>2, <3>3
  <2> QED
    BY <1>2, <2>3, <2>5, <2>6 DEF StartTimer
<1>3. CASE StopTimer
  <2>1. PICK n \in Timers : timer' = [timer EXCEPT ![n].status = "INACTIVE"]
    BY <1>3 DEF StopTimer
  <2>2. timer' \in [Timers -> TimerRecords]
    BY <2>1 DEF TimerRecords, Statuses
  <2>3. \A k \in Timers : timer'[k].status = "PRESCALE" => timer'[k] = timer[k]
    BY <2>1
  <2> QED
    BY <1>3, <2>2, <2>3 DEF StopTimer
<1>4. CASE SetDispstat \/ SetIme \/ SetMasked \/ Acknowledge \/ Halt
  BY <1>4 DEF SetDispstat, SetIme, SetMasked, Acknowledge, Halt
<1> QED
  BY <1>1, <1>2, <1>3, <1>4 DEF GuestWrites

(* A pass that ends in raise_interrupt: it reports the PC it changed, and  *)
(* the slice it chooses is ahead of every timer.                           *)
LEMMA Finished ==
  ASSUME NEW over \in SUBSET Timers, Overflows(over), UpdateTimers(over),
         NEW raised, Finish(raised, halted, moved),
         ClockInv, pc = "run", pc' = "run", drifted' = drifted,
         video_count' \in Nat, 0 < video_count'
  PROVE  /\ RedirectTold' /\ TimersAhead'
         /\ timer' \in [Timers -> TimerRecords]
         /\ execute_cycles' \in Nat /\ execute_cycles' <= video_count'
<1>1. /\ timer' \in [Timers -> TimerRecords]
      /\ \A n \in Timers :
           /\ timer'[n].status = timer[n].status
           /\ timer[n].status = "PRESCALE" /\ execute_cycles <= timer[n].count
                => 0 < timer'[n].count
  BY UpdatedTimers DEF ClockInv, ClockTypes
<1>2. NextSlice
  BY DEF Finish
<1>3. RedirectTold'
  BY Zenon DEF Finish, RedirectTold
<1>4. TimersAhead'
  <2> SUFFICES ASSUME ~drifted
               PROVE  /\ 0 < execute_cycles'
                      /\ \A n \in Timers : timer'[n].status = "PRESCALE" =>
                           0 < timer'[n].count /\ execute_cycles' <= timer'[n].count
    BY DEF TimersAhead
  <2>1. \A n \in Timers : timer'[n].status = "PRESCALE" => 0 < timer'[n].count
    BY <1>1 DEF ClockInv, TimersAhead
  <2> QED
    BY <1>1, <1>2, <2>1, ChosenSlice
<1> QED
  BY <1>1, <1>2, <1>3, <1>4, ChosenSlice

(* The passes up to check_paused. *)
LEMMA PassSteps ==
  ASSUME ClockInv, Pass
  PROVE  ClockInv'
<1> USE DEF Span
<1>1. CASE MidLine
  <2>1. PICK over \in SUBSET Timers :
          /\ Overflows(over) /\ UpdateTimers(over)
          /\ Finish(Carried \cup TimerIrqs(over), halted, moved)
    BY <1>1 DEF MidLine
  <2>2. video_count' \in Nat /\ 0 < video_count' /\ video_count' <= video_count
    BY <1>1 DEF MidLine, ClockInv, ClockTypes
  <2>3. /\ RedirectTold' /\ TimersAhead'
        /\ timer' \in [Timers -> TimerRecords]
        /\ execute_cycles' \in Nat /\ execute_cycles' <= video_count'
    BY <1>1, <2>1, <2>2, Finished DEF MidLine
  <2>4. ClockTypes' /\ BlankBits'
    BY <1>1, <2>2, <2>3 DEF MidLine, ClockInv, ClockTypes, BlankBits
  <2>5. OnTheClock'
    BY <1>1, LineSteps DEF MidLine, ClockInv, ClockTypes, OnTheClock
  <2>6. SlotsOnTheClock'
    BY <1>1 DEF MidLine, ClockInv, SlotsOnTheClock
  <2> QED
    BY <2>3, <2>4, <2>5, <2>6 DEF ClockInv
<1>2. CASE EnterHBlank
  <2>1. PICK over \in SUBSET Timers :
          /\ Overflows(over) /\ UpdateTimers(over)
          /\ Finish(Carried \cup TimerIrqs(over) \cup (dispstat.irqs \cap {"HBLANK"}),
                    halted, moved)
    BY <1>2 DEF EnterHBlank
  <2>2. video_count' = HBlank /\ elapsed' = elapsed + video_count /\ hblank' = TRUE /\ ~hblank
    BY <1>2 DEF EnterHBlank, ClockInv, ClockTypes
  <2>3. /\ RedirectTold' /\ TimersAhead'
        /\ timer' \in [Timers -> TimerRecords]
        /\ execute_cycles' \in Nat /\ execute_cycles' <= video_count'
    BY <1>2, <2>1, <2>2, Finished DEF EnterHBlank
  <2>4. ClockTypes' /\ BlankBits'
    BY <1>2, <2>2, <2>3 DEF EnterHBlank, ClockInv, ClockTypes, BlankBits
  <2>5. OnTheClock'
    BY <1>2, <2>2, LineSteps DEF EnterHBlank, ClockInv, ClockTypes, OnTheClock
  <2>6. SlotsOnTheClock'
    BY <1>2 DEF EnterHBlank, ClockInv, SlotsOnTheClock
  <2> QED
    BY <2>3, <2>4, <2>5, <2>6 DEF ClockInv
<1>3. CASE NextLine
  <2>1. PICK over \in SUBSET Timers :
          /\ Overflows(over) /\ UpdateTimers(over)
          /\ Finish(Carried \cup TimerIrqs(over) \cup LineIrqs(vcount + 1), halted, moved)
    BY <1>3 DEF NextLine
  <2>2. video_count' = Draw /\ elapsed' = elapsed + video_count /\ hblank' = FALSE /\ hblank
    BY <1>3 DEF NextLine, ClockInv, ClockTypes
  <2>3. /\ RedirectTold' /\ TimersAhead'
        /\ timer' \in [Timers -> TimerRecords]
        /\ execute_cycles' \in Nat /\ execute_cycles' <= video_count'
    BY <1>3, <2>1, <2>2, Finished DEF NextLine
  <2>4. vcount' = vcount + 1 /\ vcount' < Lines
    BY <1>3 DEF NextLine, EndsFrame, ClockInv, ClockTypes
  <2>5. vblank' \in BOOLEAN /\ (vblank' <=> vcount' >= Visible)
    <3>1. vblank' <=> vblank \/ vcount' = Visible
      BY <1>3 DEF NextLine, BlankedAt
    <3>2. vblank' \in BOOLEAN
      BY <1>3, Zenon DEF NextLine, BlankedAt
    <3> QED
      BY <2>4, <3>1, <3>2 DEF ClockInv, ClockTypes, BlankBits
  <2>6. ClockTypes' /\ BlankBits'
    <3>1. hblank' \in BOOLEAN /\ ~hblank'
      BY <2>2, Zenon
    <3>2. pc' = "run" /\ vcount' \in Nat /\ elapsed' \in Int /\ Draw \in Nat /\ 0 < Draw
      BY <1>3, <2>2, <2>4 DEF NextLine, ClockInv, ClockTypes
    <3> QED
      BY <2>2, <2>3, <2>4, <2>5, <3>1, <3>2 DEF ClockTypes, BlankBits
  <2>7. OnTheClock'
    BY <2>2, <2>4, LineSteps DEF ClockInv, ClockTypes, OnTheClock
  <2>8. SlotsOnTheClock'
    BY <1>3 DEF NextLine, ClockInv, SlotsOnTheClock
  <2> QED
    BY <2>3, <2>6, <2>7, <2>8 DEF ClockInv
<1>4. CASE LastLine
  <2>1. PICK over \in SUBSET Timers : Overflows(over) /\ UpdateTimers(over)
    BY <1>4 DEF LastLine
  <2>2. video_count = execute_cycles /\ video_count' = Draw
    BY <1>4 DEF LastLine, ClockInv, ClockTypes
  <2>3. /\ timer' \in [Timers -> TimerRecords]
        /\ \A n \in Timers :
             /\ timer'[n].status = timer[n].status
             /\ timer[n].status = "PRESCALE" /\ execute_cycles <= timer[n].count
                  => 0 < timer'[n].count
    BY <2>1, UpdatedTimers DEF ClockInv, ClockTypes
  <2>4. ClockTypes'
    BY <1>4, <2>2, <2>3 DEF LastLine, ClockInv, ClockTypes, slice
  <2>5. OnTheClock'
    <3>1. vcount' = vcount /\ hblank' = hblank /\ elapsed' = elapsed + execute_cycles - Draw
      BY <1>4 DEF LastLine
    <3>2. elapsed' + video_count' = elapsed + video_count
      BY <2>2, <3>1 DEF ClockInv, ClockTypes
    <3> QED
      BY <3>1, <3>2 DEF ClockInv, OnTheClock
  <2>6. BlankBits' /\ SlotsOnTheClock'
    BY <1>4 DEF LastLine, ClockInv, BlankBits, SlotsOnTheClock
  <2>7. RedirectTold'
    BY <1>4, Zenon DEF LastLine, cpu, RedirectTold
  <2>8. TimersAhead'
    BY <1>4, <2>3 DEF LastLine, ClockInv, TimersAhead, slice
  <2> QED
    BY <2>4, <2>5, <2>6, <2>7, <2>8 DEF ClockInv
<1> QED
  BY <1>1, <1>2, <1>3, <1>4 DEF Pass

(* A machine that is reset or loaded is on the clock; the length of the    *)
(* slice, which is chosen for it elsewhere, is one it was chosen for.      *)
LEMMA HostSteps ==
  ASSUME ClockInv, Host
  PROVE  ClockInv'
<1> USE DEF Paused
<1>1. CASE SaveState
  <2>1. PICK m : m = Machine /\ slots' = {m}
    BY <1>1 DEF SaveState
  <2>2. SlotsOnTheClock'
    BY <1>1, <2>1 DEF SaveState, Machine, ClockInv, ClockTypes, OnTheClock, BlankBits, SlotsOnTheClock
  <2>3. ClockTypes' /\ OnTheClock' /\ BlankBits' /\ RedirectTold' /\ TimersAhead'
    BY <1>1 DEF SaveState, ClockInv, ClockTypes, OnTheClock, BlankBits, RedirectTold,
                TimersAhead, raster, cpu, history, pass, slice
  <2> QED
    BY <2>2, <2>3 DEF ClockInv
<1>2. CASE Reset
  <2> USE <1>2 DEF Reset
  <2>1. timer' \in [Timers -> TimerRecords]
    <3>1. "INACTIVE" \in Statuses
      BY DEF Statuses
    <3> QED
      BY <3>1, LargestReload DEF ClockInv, ClockTypes, TimerRecords
  <2>2. elapsed' = 0 /\ video_count' = Draw /\ vcount' = 0 /\ hblank' = FALSE
    OBVIOUS
  <2>3. OnTheClock'
    BY ONLY <2>2, RasterAssumption DEF OnTheClock, LineEnd, LineTime
  <2>4. ClockTypes'
    <3>1. 0 \in Int /\ 0 < Lines /\ 0 < Draw
      BY ONLY RasterAssumption
    <3>2. pc' = "restart" /\ execute_cycles' = Draw /\ vblank' = FALSE
      OBVIOUS
    <3>3. hblank' \in BOOLEAN /\ vblank' \in BOOLEAN
      BY <2>2, <3>2, Zenon
    <3> QED
      BY ONLY <2>1, <2>2, <3>1, <3>2, <3>3, RasterAssumption DEF ClockTypes
  <2>5. BlankBits' /\ TimersAhead'
    <3>1. pc' = "restart" /\ vblank' = FALSE
      OBVIOUS
    <3> QED
      BY ONLY <2>2, <3>1, RasterAssumption DEF BlankBits, TimersAhead
  <2>6. RedirectTold'
    BY DEF RedirectTold, Redirect
  <2>7. SlotsOnTheClock'
    BY DEF ClockInv, SlotsOnTheClock
  <2> QED
    BY <2>3, <2>4, <2>5, <2>6, <2>7 DEF ClockInv
<1>3. CASE LoadState
  <2>1. PICK m \in slots :
          /\ execute_cycles' = m.execute_cycles /\ video_count' = m.video_count
          /\ vcount' = m.vcount /\ hblank' = m.hblank /\ vblank' = m.vblank
          /\ timer' = m.timer /\ elapsed' = m.elapsed
    BY <1>3 DEF LoadState
  <2>2. pc' = "restart" /\ slots' = slots /\ Redirect
    BY <1>3 DEF LoadState
  <2>3. ClockTypes'
    BY <2>1, <2>2 DEF ClockInv, SlotsOnTheClock, ClockTypes
  <2>4. OnTheClock' /\ BlankBits'
    BY <2>1, <2>2 DEF ClockInv, SlotsOnTheClock, OnTheClock, BlankBits
  <2>5. RedirectTold' /\ TimersAhead' /\ SlotsOnTheClock'
    BY <2>2 DEF ClockInv, SlotsOnTheClock, RedirectTold, Redirect, TimersAhead
  <2> QED
    BY <2>3, <2>4, <2>5 DEF ClockInv
<1>4. CASE LoadStateFail
  BY <1>4 DEF LoadStateFail, ClockInv, ClockTypes, OnTheClock, BlankBits, RedirectTold,
              TimersAhead, SlotsOnTheClock, raster, cpu, history, slice
<1> QED
  BY <1>1, <1>2, <1>3, <1>4 DEF Host

(* "continue" leaves the slice of the pass before: it still ends by the    *)
(* change of hblank, but may be late for a timer (drifted).                *)
LEMMA Continued ==
  ASSUME ClockInv, pc # "run", Continue
  PROVE  ClockInv'
<1>1. ClockTypes' /\ OnTheClock' /\ RedirectTold' /\ SlotsOnTheClock'
  BY DEF Continue, ClockInv, ClockTypes, OnTheClock, RedirectTold, SlotsOnTheClock, raster, cpu
<1>2. BlankBits'
  BY DEF Continue, ClockInv, BlankBits, raster
<1>3. TimersAhead'
  BY DEF Continue, ClockInv, ClockTypes, TimersAhead, Running
<1> QED
  BY <1>1, <1>2, <1>3 DEF ClockInv

LEMMA LeavePauseSteps ==
  ASSUME ClockInv, LeavePause
  PROVE  ClockInv'
<1>1. CASE Restart
  BY <1>1, Continued DEF Restart
<1>2. CASE EventFrame
  BY <1>2, Continued DEF EventFrame
<1>3. CASE EndFrame
  <2>1. pc = "checkPaused" /\ video_count' = Draw /\ timer' = timer
    BY <1>3 DEF EndFrame, ClockInv, ClockTypes
  <2>2. NextSlice /\ Finish(irq_raised \cup LineIrqs(0), halted, moved)
    BY <1>3 DEF EndFrame, Finish
  <2>3. /\ pc' = "run" /\ vcount' = 0 /\ hblank' = FALSE /\ vblank' = FALSE
        /\ elapsed' = 0 /\ drifted' = drifted /\ slots' = slots
    BY <1>3 DEF EndFrame
  <2>4. timer' \in [Timers -> TimerRecords]
    BY <2>1 DEF ClockInv, ClockTypes
  <2>5. /\ execute_cycles' \in Nat /\ execute_cycles' <= Draw
        /\ \A n \in Timers : timer[n].status = "PRESCALE" /\ 0 < timer[n].count
              => execute_cycles' <= timer[n].count
        /\ (\A n \in Timers : timer[n].status = "PRESCALE" => 0 < timer[n].count)
              => 0 < execute_cycles'
    <3>1. video_count' \in Nat /\ 0 < video_count'
      BY <2>1
    <3> QED
      BY <2>1, <2>2, <2>4, <3>1, ChosenSlice
  <2>6. ClockTypes'
    <3>1. 0 \in Int /\ 0 < Lines /\ 0 < Draw
      OBVIOUS
    <3>2. hblank' \in BOOLEAN /\ vblank' \in BOOLEAN
      BY <2>3, Zenon
    <3> QED
      BY ONLY <2>1, <2>3, <2>4, <2>5, <3>1, <3>2, RasterAssumption DEF ClockTypes
  <2>7. OnTheClock'
    BY <2>1, <2>3 DEF OnTheClock, LineEnd, LineTime
  <2>8. BlankBits' /\ SlotsOnTheClock'
    BY <2>3 DEF ClockInv, BlankBits, SlotsOnTheClock
  <2>9. RedirectTold'
    BY <2>2, Zenon DEF Finish, RedirectTold
  <2>10. TimersAhead'
    BY <2>1, <2>3, <2>5 DEF ClockInv, TimersAhead
  <2> QED
    BY <2>6, <2>7, <2>8, <2>9, <2>10 DEF ClockInv
<1> QED
  BY <1>1, <1>2, <1>3 DEF LeavePause

LEMMA ClockStutter ==
  ASSUME ClockInv, UNCHANGED vars
  PROVE  ClockInv'
BY DEF vars, raster, cpu, history, pass, slice, ClockInv, ClockTypes, OnTheClock, BlankBits,
       RedirectTold, TimersAhead, SlotsOnTheClock

LEMMA ClockParts == ClockInv => RasterClock /\ BlankFlags /\ PcFollowed
BY DEF ClockInv, ClockTypes, OnTheClock, BlankBits, RedirectTold, LineEnd,
       RasterClock, BlankFlags, PcFollowed

THEOREM ClockInvariant == Spec => []ClockInv
<1>1. ClockInv /\ [Next]_vars => ClockInv'
  BY GuestSteps, PassSteps, HostSteps, LeavePauseSteps, ClockStutter DEF Next
<1> QED
  BY <1>1, ClockInit, PTL DEF Spec

(* VCOUNT and the blanking bits are always where the elapsed cycles put    *)
(* them (update_gba), for every geometry of the raster.                    *)
THEOREM RasterFollowsCycles == Spec => [](RasterClock /\ BlankFlags)
BY ClockInvariant, ClockParts, PTL

(* Where update_gba returns, the CPU gets what the books have.             *)
LEMMA SliceReturned ==
  ASSUME ClockInv', CpuGets
  PROVE  SliceGiven'
BY DEF CpuGets, ClockInv, ClockTypes, TimersAhead, SliceGiven

(* While the CPU runs what it was given, its time stays the same: only a   *)
(* timer the guest starts now may overflow before the CPU is done.         *)
LEMMA SliceRuns ==
  ASSUME ClockInv, SliceGiven, GuestWrites
  PROVE  SliceGiven'
<1> USE DEF ClockInv, ClockTypes, SliceGiven, raster, cpu, history, pass, slice, Guest
<1>1. CASE SetReload
  <2>1. PICK n \in Timers, r \in Reloads : timer' = [timer EXCEPT ![n].reload = r]
    BY <1>1 DEF SetReload
  <2>2. \A k \in Timers : timer'[k].status = timer[k].status /\ timer'[k].count = timer[k].count
    BY <2>1
  <2> QED
    BY <1>1, <2>2 DEF SetReload
<1>2. CASE StartTimer
  <2>1. PICK n \in Timers, status \in {"PRESCALE", "CASCADE"}, irq \in BOOLEAN :
          /\ timer' = [timer EXCEPT ![n].status = status, ![n].irq = irq,
                                   ![n].count = timer[n].reload]
          /\ execute_cycles' = Shortened(timer[n].reload)
          /\ overtaken' = IF status = "PRESCALE" /\ timer[n].reload < given
                            THEN overtaken \cup {n} ELSE overtaken
    BY <1>2 DEF StartTimer
  <2>2. pc = "run" /\ UNCHANGED <<pc, given, video_count, drifted>>
    BY <1>2 DEF StartTimer
  <2>3. timer[n].reload \in Nat
    BY PositiveReloads DEF TimerRecords
  <2>4. /\ timer'[n].count = timer[n].reload /\ timer'[n].status = status
        /\ \A k \in Timers \ {n} : timer'[k] = timer[k]
    BY <2>1 DEF TimerRecords
  <2>5. execute_cycles' <= given
    BY <2>1, <2>2, <2>3 DEF Shortened
  <2>6. ASSUME ~drifted, NEW k \in Timers, timer'[k].status = "PRESCALE"
        PROVE  given <= timer'[k].count \/ k \in overtaken'
    <3>1. CASE k = n
      BY <2>1, <2>3, <2>4, <2>6, <3>1
    <3>2. CASE k # n
      BY <2>1, <2>2, <2>4, <2>6, <3>2
    <3> QED
      BY <3>1, <3>2
  <2> QED
    BY <2>1, <2>2, <2>5, <2>6
<1>3. CASE StopTimer
  <2>1. PICK n \in Timers : /\ timer' = [timer EXCEPT ![n].status = "INACTIVE"]
                            /\ overtaken' = overtaken \ {n}
    BY <1>3 DEF StopTimer
  <2>2. \A k \in Timers : timer'[k].status = "PRESCALE" => timer'[k] = timer[k] /\ k # n
    BY <2>1
  <2> QED
    BY <1>3, <2>1, <2>2 DEF StopTimer
<1>4. CASE SetDispstat \/ SetIme \/ SetMasked \/ Acknowledge \/ Halt
  BY <1>4 DEF SetDispstat, SetIme, SetMasked, Acknowledge, Halt
<1> QED
  BY <1>1, <1>2, <1>3, <1>4 DEF GuestWrites

LEMMA SliceStep ==
  ASSUME ClockInv, SliceGiven, [Next]_vars, ClockInv'
  PROVE  SliceGiven'
<1>1. CASE Pass \/ LeavePause
  <2>1. CASE LastLine
    BY <2>1 DEF LastLine, SliceGiven, slice
  <2>2. CASE MidLine \/ EnterHBlank \/ NextLine \/ LeavePause
    <3>1. CpuGets
      BY <2>2 DEF MidLine, EnterHBlank, NextLine, LeavePause, Restart, EventFrame, EndFrame,
                  Finish, Continue
    <3> QED
      BY <3>1, SliceReturned
  <2> QED
    BY <1>1, <2>1, <2>2 DEF Pass
<1>2. CASE Host
  BY <1>2 DEF Host, SaveState, Reset, LoadState, LoadStateFail, Paused, SliceGiven, pass, slice
<1>3. CASE UNCHANGED vars
  BY <1>3 DEF vars, raster, cpu, history, pass, slice, SliceGiven
<1> QED
  BY <1>1, <1>2, <1>3, SliceRuns DEF Next

(* SliceGiven holds of every reachable state.                              *)
LEMMA SliceInvariant == Spec => []SliceGiven
<1>1. Init => SliceGiven
  BY DEF Init, SliceGiven
<1>2. ClockInv /\ ClockInv' /\ SliceGiven /\ [Next]_vars => SliceGiven'
  BY SliceStep
<1> QED
  BY <1>1, <1>2, ClockInvariant, PTL DEF Spec

(* What the CPU is given, its own copy that trigger_timer cannot shorten,  *)
(* takes it past no change of the raster and, until a "continue" with      *)
(* timers running, past no overflow of a timer that ran when update_gba    *)
(* returned; one that the guest starts meanwhile may overflow before the   *)
(* CPU is done, and there the books end the slice.                         *)
THEOREM SlicesStopInTime == Spec => []SliceStopsInTime
<1>1. ClockInv /\ SliceGiven => SliceStopsInTime
  BY DEF ClockInv, TimersAhead, SliceGiven, SliceStopsInTime
<1> QED
  BY <1>1, ClockInvariant, SliceInvariant, PTL

(* The stub is told of every PC that update_gba returns with and that is   *)
(* not where the block would go on.                                        *)
THEOREM PcIsFollowed == Spec => []PcFollowed
BY ClockInvariant, ClockParts, PTL

(* The end of a frame is some way off, and each pass takes the guest       *)
(* nearer: update_gba reaches check_paused after a bounded number of       *)
(* passes that move the clock.                                             *)
THEOREM EveryPassNears == Spec => EndNears
<1>1. ASSUME ClockInv, pc = "run" PROVE CyclesLeft \in Nat \ {0}
  <2>1. /\ vcount \in Nat /\ vcount + 1 <= Lines /\ LineTime \in Nat /\ Draw <= LineTime
        /\ video_count \in Nat /\ 0 < video_count /\ elapsed \in Int /\ Lines \in Nat
    BY <1>1, RasterAssumption DEF ClockInv, ClockTypes, LineTime
  <2>2. elapsed + video_count <= vcount * LineTime + LineTime
    BY <1>1, <2>1, RasterAssumption DEF ClockInv, OnTheClock, LineEnd, LineTime
  <2>3. vcount * LineTime + LineTime <= Lines * LineTime
    <3>1. vcount * LineTime + LineTime = (vcount + 1) * LineTime
      BY <2>1
    <3>2. \A a, b, c \in Nat : a <= b => a * c <= b * c
      OBVIOUS
    <3>3. vcount + 1 \in Nat
      BY <2>1
    <3> QED
      BY <2>1, <3>1, <3>2, <3>3
  <2>4. vcount * LineTime \in Int /\ Lines * LineTime \in Int
    BY <2>1
  <2> QED
    BY <2>1, <2>2, <2>3, <2>4 DEF CyclesLeft
<1>2. ASSUME GuestWrites PROVE CyclesLeft' = CyclesLeft
  BY <1>2 DEF GuestWrites, SetReload, StartTimer, StopTimer, SetDispstat, SetIme, SetMasked,
     Acknowledge, Halt, history, CyclesLeft
<1>3. ASSUME ClockInv, pc = "run", Pass
      PROVE  \/ pc' = "checkPaused"
             \/ CyclesLeft' < CyclesLeft
             \/ drifted /\ CyclesLeft' = CyclesLeft
  <2>1. pc' = "checkPaused" \/ elapsed' = elapsed + execute_cycles
    BY <1>3 DEF Pass, MidLine, EnterHBlank, NextLine, LastLine
  <2>2. elapsed \in Int /\ execute_cycles \in Nat /\ (drifted \/ 0 < execute_cycles)
    BY <1>3 DEF ClockInv, ClockTypes, TimersAhead
  <2>3. Lines * LineTime \in Int
    BY RasterAssumption DEF LineTime
  <2> QED
    BY <2>1, <2>2, <2>3 DEF CyclesLeft
<1>4. ClockInv /\ [Next]_vars =>
        [pc = "run" => /\ CyclesLeft \in Nat \ {0}
                       /\ GuestWrites => CyclesLeft' = CyclesLeft
                       /\ Pass => \/ pc' = "checkPaused"
                                  \/ CyclesLeft' < CyclesLeft
                                  \/ drifted /\ CyclesLeft' = CyclesLeft]_vars
  BY <1>1, <1>2, <1>3
<1> QED
  BY <1>4, ClockInvariant, PTL DEF Spec, EndNears

(* What raises and takes an interrupt keeps its types.                     *)
LEMMA FinishTypes ==
  ASSUME IrqInv, NEW raised \in SUBSET Irqs, NEW h \in BOOLEAN, NEW w \in BOOLEAN,
         Finish(raised, h, w)
  PROVE  /\ reg_if' \subseteq Irqs /\ irq_raised' \subseteq Irqs
         /\ masked' \in BOOLEAN /\ halted' \in BOOLEAN
         /\ changed_pc' \in BOOLEAN /\ moved' \in BOOLEAN
<1>1. reg_if \subseteq Irqs /\ ime \in BOOLEAN /\ masked \in BOOLEAN
  BY DEF IrqInv, IrqTypes, Machine
<1>2. reg_if' = reg_if \cup raised /\ irq_raised' = IF halted' THEN raised ELSE {}
  BY DEF Finish
<1> DEFINE taken == raised # {} /\ ime /\ ~masked
<1>3. /\ masked' = (masked \/ taken) /\ halted' = (h /\ ~taken)
      /\ changed_pc' = taken /\ moved' = ((h /\ w) \/ taken)
  BY DEF Finish
<1>4. reg_if' \subseteq Irqs /\ irq_raised' \subseteq Irqs
  BY <1>1, <1>2
<1> QED
  BY <1>1, <1>3, <1>4, Zenon

LEMMA UpdatedIrqs ==
  ASSUME IrqInv, timer \in [Timers -> TimerRecords], NEW over \in SUBSET Timers,
         UpdateTimers(over)
  PROVE  /\ \A n \in Timers : timer'[n].irq => TimerIrq[n + 1] \in Irqs
         /\ TimerIrqs(over) \subseteq Irqs
<1>1. \A n \in Timers : timer[n].irq => TimerIrq[n + 1] \in Irqs
  BY DEF IrqInv, IrqTypes, Machine
<1>2. ASSUME NEW n \in Timers PROVE timer'[n].irq = timer[n].irq
  <2>1. timer'[n] = [timer[n] EXCEPT !.count = Count(n, over)]
    BY DEF UpdateTimers
  <2> QED
    BY <2>1 DEF TimerRecords
<1>3. TimerIrqs(over) \subseteq Irqs
  BY <1>1 DEF TimerIrqs
<1> QED
  BY <1>1, <1>2, <1>3

(* The fields that IrqTypes reads of the machine in a state file.          *)
LEMMA MachineFields ==
  /\ Machine.dispstat = dispstat /\ Machine.reg_if = reg_if /\ Machine.ime = ime
  /\ Machine.masked = masked /\ Machine.halted = halted /\ Machine.timer = timer
BY DEF Machine

LEMMA IrqInit == Init => IrqInv
<1> SUFFICES ASSUME Init PROVE IrqInv
  OBVIOUS
<1>1. IrqTypes(Machine)
  <2>1. dispstat \in [irqs : SUBSET (Irqs \cap DisplayIrqs), line : LineChoices]
    BY DEF Init, LineChoices
  <2>2. \A n \in Timers : timer[n].irq = FALSE
    BY DEF Init
  <2>3. reg_if = {} /\ ime = FALSE /\ masked = FALSE /\ halted = FALSE
    BY DEF Init
  <2> QED
    BY <2>1, <2>2, <2>3, MachineFields DEF IrqTypes
<1>2. event_cycles \in Nat /\ event_cycles <= EventFrames + 1
  BY TimerAssumption DEF Init
<1> QED
  BY <1>1, <1>2 DEF Init, IrqInv

(* The parts of the invariant, as a step has to restore them.              *)
LEMMA IrqSuffices ==
  ASSUME /\ (dispstat \in [irqs : SUBSET (Irqs \cap DisplayIrqs), line : LineChoices])'
         /\ (reg_if \subseteq Irqs)' /\ (irq_raised \subseteq Irqs)'
         /\ (ime \in BOOLEAN)' /\ (masked \in BOOLEAN)' /\ (halted \in BOOLEAN)'
         /\ (changed_pc \in BOOLEAN)' /\ (moved \in BOOLEAN)'
         /\ (repeated \in BOOLEAN)' /\ (drifted \in BOOLEAN)'
         /\ (event_cycles \in Nat /\ event_cycles <= EventFrames + 1)'
         /\ \A n \in Timers : timer'[n].irq => TimerIrq[n + 1] \in Irqs
         /\ \A m \in slots' : IrqTypes(m)
  PROVE  IrqInv'
<1>1. IrqTypes(Machine)'
  BY DEF IrqTypes, Machine
<1> QED
  BY <1>1 DEF IrqInv

LEMMA IrqParts ==
  ASSUME IrqInv
  PROVE  /\ dispstat \in [irqs : SUBSET (Irqs \cap DisplayIrqs), line : LineChoices]
         /\ reg_if \subseteq Irqs /\ irq_raised \subseteq Irqs
         /\ ime \in BOOLEAN /\ masked \in BOOLEAN /\ halted \in BOOLEAN
         /\ changed_pc \in BOOLEAN /\ moved \in BOOLEAN
         /\ repeated \in BOOLEAN /\ drifted \in BOOLEAN
         /\ event_cycles \in Nat /\ event_cycles <= EventFrames + 1
         /\ \A n \in Timers : timer[n].irq => TimerIrq[n + 1] \in Irqs
         /\ \A m \in slots : IrqTypes(m)
BY MachineFields DEF IrqInv, IrqTypes

LEMMA GuestIrqs ==
  ASSUME ClockInv, IrqInv, GuestWrites
  PROVE  IrqInv'
<1> USE IrqParts DEF raster, cpu, history, pass, slice
<1>0. timer \in [Timers -> TimerRecords]
  BY DEF ClockInv, ClockTypes
<1>1. CASE SetReload
  <2>1. PICK n \in Timers, r \in Reloads : timer' = [timer EXCEPT ![n].reload = r]
    BY <1>1 DEF SetReload
  <2>2. \A k \in Timers : timer'[k].irq = timer[k].irq
    BY <1>0, <2>1 DEF TimerRecords
  <2> QED
    BY <1>1, <2>2, IrqSuffices DEF SetReload
<1>2. CASE StartTimer
  <2>1. PICK n \in Timers, s \in {"PRESCALE", "CASCADE"}, i \in BOOLEAN :
          /\ i => TimerIrq[n + 1] \in Irqs
          /\ timer' = [timer EXCEPT ![n].status = s, ![n].irq = i, ![n].count = timer[n].reload]
    BY <1>2 DEF StartTimer
  <2>2. \A k \in Timers : timer'[k].irq => TimerIrq[k + 1] \in Irqs
    BY <1>0, <2>1 DEF TimerRecords
  <2> QED
    BY <1>2, <2>2, IrqSuffices DEF StartTimer
<1>3. CASE StopTimer
  <2>1. PICK n \in Timers : timer' = [timer EXCEPT ![n].status = "INACTIVE"]
    BY <1>3 DEF StopTimer
  <2>2. \A k \in Timers : timer'[k].irq = timer[k].irq
    BY <1>0, <2>1 DEF TimerRecords
  <2> QED
    BY <1>3, <2>2, IrqSuffices DEF StopTimer
<1>4. CASE SetDispstat
  BY <1>4, IrqSuffices DEF SetDispstat
<1>5. CASE SetIme
  BY <1>5, IrqSuffices DEF SetIme
<1>6. CASE SetMasked
  <2>1. masked' \in BOOLEAN
    BY <1>6 DEF SetMasked
  <2> QED
    BY <1>6, <2>1, IrqSuffices DEF SetMasked
<1>7. CASE Acknowledge \/ Halt
  BY <1>7, IrqSuffices DEF Acknowledge, Halt
<1> QED
  BY <1>1, <1>2, <1>3, <1>4, <1>5, <1>6, <1>7 DEF GuestWrites

(* A pass, whichever interrupts it raises.                                 *)
LEMMA PassIrqs ==
  ASSUME ClockInv, IrqInv, Pass
  PROVE  IrqInv'
<1> DEFINE Same == UNCHANGED <<ime, repeated, drifted, event_cycles, dispstat, slots>>
<1>1. Carried \subseteq Irqs /\ \A l : LineIrqs(l) \subseteq Irqs
      /\ dispstat.irqs \cap {"HBLANK"} \subseteq Irqs
  BY IrqParts DEF Carried, LineIrqs
<1>2. CASE MidLine \/ EnterHBlank \/ NextLine
  <2>1. PICK over \in SUBSET Timers, raised \in SUBSET Irqs :
          UpdateTimers(over) /\ (TimerIrqs(over) \subseteq Irqs => Finish(raised, halted, moved))
    <3>1. PICK over \in SUBSET Timers :
            /\ UpdateTimers(over)
            /\ \/ Finish(Carried \cup TimerIrqs(over), halted, moved)
               \/ Finish(Carried \cup TimerIrqs(over) \cup (dispstat.irqs \cap {"HBLANK"}),
                         halted, moved)
               \/ Finish(Carried \cup TimerIrqs(over) \cup LineIrqs(vcount + 1), halted, moved)
      BY <1>2 DEF MidLine, EnterHBlank, NextLine
    <3>2. TimerIrqs(over) \subseteq Irqs
      BY <3>1, UpdatedIrqs DEF ClockInv, ClockTypes
    <3> QED
      BY <1>1, <3>1, <3>2
  <2>2. /\ TimerIrqs(over) \subseteq Irqs
        /\ \A n \in Timers : timer'[n].irq => TimerIrq[n + 1] \in Irqs
    BY <2>1, UpdatedIrqs DEF ClockInv, ClockTypes
  <2>3. /\ reg_if' \subseteq Irqs /\ irq_raised' \subseteq Irqs
        /\ masked' \in BOOLEAN /\ halted' \in BOOLEAN
        /\ changed_pc' \in BOOLEAN /\ moved' \in BOOLEAN
    BY <2>1, <2>2, IrqParts, FinishTypes
  <2>4. Same
    BY <1>2 DEF MidLine, EnterHBlank, NextLine
  <2> QED
    BY <2>2, <2>3, <2>4, IrqParts, IrqSuffices
<1>3. CASE LastLine
  <2>1. PICK over \in SUBSET Timers :
          UpdateTimers(over) /\ irq_raised' = Carried \cup TimerIrqs(over)
    BY <1>3 DEF LastLine
  <2>2. /\ TimerIrqs(over) \subseteq Irqs
        /\ \A n \in Timers : timer'[n].irq => TimerIrq[n + 1] \in Irqs
    BY <2>1, UpdatedIrqs DEF ClockInv, ClockTypes
  <2>3. irq_raised' \subseteq Irqs
    BY <1>1, <2>1, <2>2
  <2>4. /\ Same /\ UNCHANGED cpu /\ reg_if' = reg_if
        /\ changed_pc' = FALSE /\ moved' = (halted /\ moved)
    BY <1>3 DEF LastLine, cpu
  <2>5. moved' \in BOOLEAN /\ changed_pc' \in BOOLEAN
    BY <2>4
  <2> QED
    BY <2>2, <2>3, <2>4, <2>5, IrqParts, IrqSuffices DEF cpu
<1> QED
  BY <1>2, <1>3 DEF Pass

LEMMA HostIrqs ==
  ASSUME ClockInv, IrqInv, Host
  PROVE  IrqInv'
<1> USE IrqParts DEF raster, cpu, history, pass, slice
<1>1. CASE SaveState
  <2>1. \A m \in slots' : IrqTypes(m)
    BY <1>1 DEF SaveState, IrqInv
  <2> QED
    BY <1>1, <2>1, IrqSuffices DEF SaveState
<1>2. CASE Reset
  <2>1. \A n \in Timers : timer'[n].irq = timer[n].irq
    <3>1. timer \in [Timers -> TimerRecords]
      BY DEF ClockInv, ClockTypes
    <3> QED
      BY <1>2, <3>1 DEF Reset, TimerRecords
  <2>2. dispstat' \in [irqs : SUBSET (Irqs \cap DisplayIrqs), line : LineChoices]
    BY <1>2 DEF Reset, LineChoices
  <2> QED
    BY <1>2, <2>1, <2>2, IrqSuffices DEF Reset, Redirect
<1>3. CASE LoadState
  <2>1. PICK m \in slots :
          /\ dispstat' = m.dispstat /\ timer' = m.timer /\ reg_if' = m.reg_if
          /\ ime' = m.ime /\ masked' = m.masked /\ halted' = m.halted
    BY <1>3 DEF LoadState
  <2>2. IrqTypes(m)
    OBVIOUS
  <2> QED
    BY <1>3, <2>1, <2>2, IrqSuffices DEF LoadState, Redirect, IrqTypes
<1>4. CASE LoadStateFail
  BY <1>4, IrqSuffices DEF LoadStateFail
<1> QED
  BY <1>1, <1>2, <1>3, <1>4 DEF Host

LEMMA LeavePauseIrqs ==
  ASSUME ClockInv, IrqInv, LeavePause
  PROVE  IrqInv'
<1>0. LeavePause => (event_cycles \in Nat /\ event_cycles <= EventFrames + 1)'
  BY IrqParts, TimerAssumption DEF LeavePause, Restart, EventFrame, EndFrame, CountEvents
<1>1. CASE Restart \/ EventFrame
  <2>1. Continue
    BY <1>1 DEF Restart, EventFrame
  <2>2. irq_raised' \subseteq Irqs /\ repeated' \in BOOLEAN /\ drifted' \in BOOLEAN
    BY <2>1, IrqParts DEF Continue, Carried, ClockInv, ClockTypes
  <2> QED
    BY <1>0, <2>1, <2>2, IrqParts, IrqSuffices DEF Continue, cpu
<1>2. CASE EndFrame
  <2>1. irq_raised \cup LineIrqs(0) \in SUBSET Irqs
    BY IrqParts DEF LineIrqs
  <2>2. /\ reg_if' \subseteq Irqs /\ irq_raised' \subseteq Irqs
        /\ masked' \in BOOLEAN /\ halted' \in BOOLEAN
        /\ changed_pc' \in BOOLEAN /\ moved' \in BOOLEAN
    BY <1>2, <2>1, IrqParts, FinishTypes DEF EndFrame
  <2>3. repeated' = FALSE /\ UNCHANGED <<ime, drifted, dispstat, timer, slots>>
    BY <1>2 DEF EndFrame
  <2> QED
    BY <1>0, <2>2, <2>3, IrqParts, IrqSuffices
<1> QED
  BY <1>1, <1>2 DEF LeavePause

(* The registers of the interrupts, in the machine and in a state file,    *)
(* only hold what the guest asked for, and every variable of the clock     *)
(* keeps its type (main.c, update_gba).                                    *)
THEOREM ClockTypeCorrect == Spec => []TypeOK
<1>1. ClockInv /\ IrqInv /\ [Next]_vars => IrqInv'
  <2> SUFFICES ASSUME ClockInv, IrqInv, UNCHANGED vars PROVE IrqInv'
    BY GuestIrqs, PassIrqs, HostIrqs, LeavePauseIrqs DEF Next
  <2> QED
    BY IrqParts, IrqSuffices DEF vars, raster, cpu, history, pass, slice
<1>2. ClockInv /\ SliceGiven /\ IrqInv => TypeOK
  BY IrqParts, RasterAssumption, TimerAssumption DEF ClockInv, ClockTypes, SliceGiven, TypeOK
<1> QED
  BY <1>1, <1>2, IrqInit, ClockInvariant, SliceInvariant, PTL DEF Spec

-----------------------------------------------------------------------------
(***************************************************************************)
(* The banked registers (CpuModes).                                        *)
(***************************************************************************)

Files == [reg : [Regs -> Places], bank : [Modes -> [Banked -> Places]],
          mode : Modes, lost : SUBSET Slots, origin : Modes]

(* The registers of the mode the file is in are at hand, *)
AtHand(F) == \A r \in Regs : F.reg[r] = Own(F.mode, r) \/ Own(F.mode, r) \in F.lost

(* 13 and 14 of the other modes are banked,                                *)
InBank(F) ==
  \A m \in Modes \ {F.mode} : \A r \in Banked :
    r >= 13 => F.bank[m][r] = Own(m, r) \/ Own(m, r) \in F.lost

(* and in FIQ the others' 8 to 12 in the bank of the mode it came from.    *)
OfFiq(F) ==
  F.mode = "FIQ" =>
    /\ F.origin # "FIQ"
    /\ \A r \in Banked :
         r < 13 => F.bank[F.origin][r] = Own(F.origin, r) \/ Own(F.origin, r) \in F.lost

Sound(F) == F \in Files /\ AtHand(F) /\ InBank(F) /\ OfFiq(F)

(* The file, with the registers that the host holds put back.              *)
Whole == Stored(File, Cache)

ModesInv ==
  /\ ModesTypeOK
  /\ mode = cpu_mode
  /\ Sound(Whole)

LEMMA Owners ==
  ASSUME NEW m \in Modes, NEW r \in Regs
  PROVE  /\ Own(m, r) \in Slots
         /\ \A n \in Modes, q \in Regs : q # r => Own(n, q) # Own(m, r)
         /\ r >= 13 => \A n \in Modes, q \in Regs : n # m => Own(n, q) # Own(m, r)
         /\ r < 8 => \A n \in Modes : Own(n, r) = Own(m, r)
         /\ r < 13 => \A n \in Modes : n # "FIQ" /\ m # "FIQ" => Own(n, r) = Own(m, r)
         /\ r \in Int
BY ModesAssumption DEF Own, Slots

LEMMA Apart ==
  ASSUME NEW m, NEW n, NEW r, NEW q, q # r
  PROVE  Own(n, q) # Own(m, r)
BY DEF Own

LEMMA BanksApart ==
  ASSUME NEW m \in Modes, NEW n \in Modes, n # m, NEW r \in Regs,
         r >= 13 \/ (r >= 8 /\ m = "FIQ")
  PROVE  Own(n, r) # Own(m, r)
BY ModesAssumption DEF Own

LEMMA SetCpuModeFile ==
  ASSUME NEW F \in Files, NEW m \in Modes, F.mode # m
  PROVE  SetCpuMode(F, m) \in Files
<1> DEFINE G == SetCpuMode(F, m)
           B == Retired(F, m)
           old == [i \in Banked |-> IF i >= 13 \/ m = "FIQ" THEN F.reg[i] ELSE F.bank[F.mode][i]]
<1>1. G.reg = [r \in Regs |-> IF r >= 13 \/ (r >= 8 /\ F.mode = "FIQ") THEN B[m][r] ELSE F.reg[r]]
  BY DEF SetCpuMode
<1>2. B = [F.bank EXCEPT ![F.mode] = old]
  BY DEF Retired
<1> HIDE DEF G, B
<1>3. /\ F.bank \in [Modes -> [Banked -> Places]] /\ F.mode \in Modes
      /\ F.reg \in [Regs -> Places] /\ Banked \subseteq Regs
  BY DEF Files, Banked
<1>4. old \in [Banked -> Places]
  BY <1>3
<1> HIDE DEF old
<1>5. B \in [Modes -> [Banked -> Places]]
  BY <1>2, <1>3, <1>4
<1>6. G.reg \in [Regs -> Places]
  <2>1. \A r \in Regs : (r >= 8 => r \in Banked) /\ (r >= 13 => r >= 8)
    BY ModesAssumption DEF Banked
  <2>. QED BY <1>1, <1>3, <1>5, <2>1
<1>7. G.lost \in SUBSET Slots
  BY Owners DEF G, SetCpuMode, Files, Banked
<1>. QED BY <1>5, <1>6, <1>7 DEF G, B, Files, SetCpuMode

LEMMA SetCpuModeSound ==
  ASSUME NEW F, Sound(F), NEW m \in Modes
  PROVE  Sound(SetCpuMode(F, m)) /\ SetCpuMode(F, m).mode = m
<1> DEFINE G == SetCpuMode(F, m)
           B == Retired(F, m)
<1>1. CASE F.mode = m
  BY <1>1 DEF SetCpuMode
<1>2. CASE F.mode # m
  <2> F \in Files /\ F.mode \in Modes
    BY DEF Sound, Files
  <2>1. /\ G.reg = [r \in Regs |-> IF r >= 13 \/ (r >= 8 /\ F.mode = "FIQ") THEN B[m][r] ELSE F.reg[r]]
        /\ G.bank = B /\ G.mode = m
        /\ G.origin = IF m = "FIQ" THEN F.mode ELSE m
        /\ F.lost \subseteq G.lost
        /\ m = "FIQ" => \A r \in Banked : r < 13 => Own(m, r) \in G.lost
        /\ F.mode = "FIQ" /\ m # F.origin => \A r \in Banked : r < 13 => Own(m, r) \in G.lost
    BY <1>2 DEF SetCpuMode, Banked
  <2>2. B = [F.bank EXCEPT ![F.mode] =
               [i \in Banked |-> IF i >= 13 \/ m = "FIQ" THEN F.reg[i] ELSE F.bank[F.mode][i]]]
    BY DEF Retired
  <2>3. G \in Files
    BY <1>2, SetCpuModeFile
  <2> HIDE DEF G, B
  <2>4. AtHand(G)
    <3> SUFFICES ASSUME NEW r \in Regs
                 PROVE  G.reg[r] = Own(m, r) \/ Own(m, r) \in G.lost
      BY <2>1 DEF AtHand
    <3>0. r \in Int
      BY Owners
    <3>1. CASE r >= 13
      <4>1. r \in Banked /\ G.reg[r] = B[m][r]
        BY <2>1, <3>0, <3>1 DEF Banked
      <4>2. B[m] = F.bank[m]
        BY <1>2, <2>2 DEF Files
      <4>. QED BY <1>2, <2>1, <3>1, <4>1, <4>2 DEF Sound, InBank
    <3>2. CASE r >= 8 /\ r < 13 /\ F.mode = "FIQ"
      BY <1>2, <2>1, <2>2, <3>2, Owners DEF Sound, OfFiq, Files, Banked
    <3>3. CASE r >= 8 /\ r < 13 /\ F.mode # "FIQ"
      <4>1. G.reg[r] = F.reg[r]
        BY <2>1, <3>0, <3>3
      <4>2. CASE m = "FIQ"
        BY <2>1, <3>3, <4>2 DEF Banked
      <4>3. CASE m # "FIQ"
        <5>1. Own(m, r) = Own(F.mode, r)
          BY <3>3, <4>3, Owners
        <5>. QED BY <2>1, <4>1, <5>1 DEF Sound, AtHand
      <4>. QED BY <4>2, <4>3
    <3>4. CASE r < 8
      <4>1. G.reg[r] = F.reg[r]
        BY <2>1, <3>0, <3>4
      <4>2. Own(m, r) = Own(F.mode, r)
        BY <3>4, Owners
      <4>. QED BY <2>1, <4>1, <4>2 DEF Sound, AtHand
    <3>. QED BY <3>0, <3>1, <3>2, <3>3, <3>4
  <2>5. InBank(G)
    BY <1>2, <2>1, <2>2 DEF Sound, AtHand, InBank, Files, Banked
  <2>6. OfFiq(G)
    BY <1>2, <2>1, <2>2, Owners DEF Sound, AtHand, OfFiq, Files, Banked
  <2>. QED BY <2>1, <2>3, <2>4, <2>5, <2>6 DEF Sound, G
<1>. QED BY <1>1, <1>2

LEMMA OutdatedFile ==
  ASSUME NEW F \in Files, NEW s, NEW G, G = Outdated(F, s)
  PROVE  /\ G \in Files /\ G.mode = F.mode /\ G.origin = F.origin /\ s \notin G.lost
         /\ G.lost = F.lost \ {s}
         /\ \A r \in Regs : F.reg[r] # s => G.reg[r] = F.reg[r]
         /\ \A m \in Modes, r \in Banked : F.bank[m][r] # s => G.bank[m][r] = F.bank[m][r]
<1> DEFINE A == [r \in Regs |-> IF F.reg[r] = s THEN OLD ELSE F.reg[r]]
           B == [m \in Modes |-> [i \in Banked |->
                   IF F.bank[m][i] = s THEN OLD ELSE F.bank[m][i]]]
<1>1. A \in [Regs -> Places] /\ B \in [Modes -> [Banked -> Places]]
  BY DEF Files, Places
<1>2. G = [F EXCEPT !.reg = A, !.bank = B, !.lost = F.lost \ {s}]
  BY DEF Outdated
<1> HIDE DEF A, B
<1>3. /\ G \in Files /\ G.reg = A /\ G.bank = B /\ G.mode = F.mode /\ G.origin = F.origin
      /\ G.lost = F.lost \ {s}
  BY <1>1, <1>2 DEF Files
<1>4. \A r \in Regs : F.reg[r] # s => A[r] = F.reg[r]
  BY DEF A
<1>5. \A m \in Modes, r \in Banked : F.bank[m][r] # s => B[m][r] = F.bank[m][r]
  BY DEF B
<1>. QED BY <1>3, <1>4, <1>5

(* The return address goes to the bank, and with the mode to the register. *)
LEMMA EnteredSound ==
  ASSUME NEW F, Sound(F), NEW m \in Modes, m # "FIQ"
  PROVE  Sound(Entered(F, m)) /\ Entered(F, m).mode = m
<1> DEFINE s == Own(m, 14)
           G == Outdated(F, s)
           L == [G EXCEPT !.bank[m][14] = s]
           H == [L EXCEPT !.lost = @ \cup {s}]
<1>1. s \in Slots /\ 14 \in Regs /\ 14 \in Banked
  BY ModesAssumption, Owners DEF Banked
<1>2. /\ G \in Files /\ G.mode = F.mode /\ G.origin = F.origin /\ s \notin G.lost
      /\ \A t \in F.lost : t = s \/ t \in G.lost
      /\ \A r \in Regs : F.reg[r] # s => G.reg[r] = F.reg[r]
      /\ \A n \in Modes, r \in Banked : F.bank[n][r] # s => G.bank[n][r] = F.bank[n][r]
  BY OutdatedFile DEF Sound
<1>3. /\ L \in Files /\ L.mode = F.mode /\ L.origin = F.origin /\ L.reg = G.reg /\ L.lost = G.lost
      /\ L.bank[m][14] = s
      /\ \A n \in Modes, r \in Banked : n # m \/ r # 14 => L.bank[n][r] = G.bank[n][r]
  BY <1>1, <1>2 DEF Files, Places
<1>4. Entered(F, m) = IF F.mode = m THEN H ELSE SetCpuMode(L, m)
  BY <1>3 DEF Entered
<1>5. /\ \A n \in Modes, r \in Regs : r # 14 => Own(n, r) # s
      /\ \A n \in Modes \ {m} : Own(n, 14) # s
  BY <1>1, Owners
<1> HIDE DEF s, G, L
<1>6. InBank(L)
  <2> SUFFICES ASSUME NEW n \in Modes, n # F.mode, NEW r \in Banked, r >= 13
               PROVE  L.bank[n][r] = Own(n, r) \/ Own(n, r) \in L.lost
    BY <1>3 DEF InBank
  <2>1. r \in Regs /\ (F.bank[n][r] = Own(n, r) \/ Own(n, r) \in F.lost)
    BY DEF Sound, InBank, Banked
  <2>2. CASE n = m /\ r = 14
    BY <1>3, <2>2 DEF s
  <2>3. CASE n # m \/ r # 14
    BY <1>2, <1>3, <1>5, <2>1, <2>3
  <2>. QED BY <2>2, <2>3
<1>7. OfFiq(L)
  <2> SUFFICES ASSUME F.mode = "FIQ"
               PROVE  /\ F.origin # "FIQ"
                      /\ \A r \in Banked : r < 13 =>
                           \/ L.bank[F.origin][r] = Own(F.origin, r)
                           \/ Own(F.origin, r) \in L.lost
    BY <1>2, <1>3 DEF OfFiq
  <2>1. F.origin # "FIQ" /\ F.origin \in Modes
    BY DEF Sound, OfFiq, Files
  <2>2. ASSUME NEW r \in Banked, r < 13
        PROVE  L.bank[F.origin][r] = Own(F.origin, r) \/ Own(F.origin, r) \in L.lost
    <3>1. r \in Regs /\ r # 14
      BY <2>2 DEF Banked
    <3>2. F.bank[F.origin][r] = Own(F.origin, r) \/ Own(F.origin, r) \in F.lost
      BY <2>2 DEF Sound, OfFiq
    <3>3. Own(F.origin, r) # s
      BY <1>5, <2>1, <3>1
    <3>4. L.bank[F.origin][r] = G.bank[F.origin][r]
      BY <1>3, <2>1, <3>1
    <3>5. F.bank[F.origin][r] # s => G.bank[F.origin][r] = F.bank[F.origin][r]
      BY <1>2, <2>1
    <3>6. Own(F.origin, r) \in F.lost => Own(F.origin, r) \in L.lost
      BY <1>2, <1>3, <3>3
    <3>. QED BY <3>2, <3>3, <3>4, <3>5, <3>6
  <2>. QED BY <2>1, <2>2
<1>8. CASE F.mode = m
  <2>1. /\ H \in Files /\ H.mode = m /\ H.lost = G.lost \cup {s} /\ H.reg = G.reg
        /\ H.bank = L.bank /\ H.origin = L.origin
    BY <1>1, <1>3, <1>8 DEF Files
  <2>2. AtHand(H)
    BY <1>2, <1>5, <1>8, <2>1 DEF Sound, AtHand, s
  <2>3. InBank(H) /\ OfFiq(H)
    BY <1>3, <1>6, <1>7, <1>8, <2>1 DEF InBank, OfFiq
  <2>. QED BY <1>4, <1>8, <2>1, <2>2, <2>3 DEF Sound
<1>9. CASE F.mode # m
  <2>1. AtHand(L)
    <3>1. F.mode \in Modes /\ L.mode = F.mode
      BY <1>2, <1>3 DEF Sound, Files
    <3>2. ASSUME NEW r \in Regs
          PROVE  L.reg[r] = Own(F.mode, r) \/ Own(F.mode, r) \in L.lost
      <4>1. Own(F.mode, r) # s
        BY <1>5, <1>9, <3>1
      <4>2. F.reg[r] = Own(F.mode, r) \/ Own(F.mode, r) \in F.lost
        BY DEF Sound, AtHand
      <4>. QED BY <1>2, <1>3, <4>1, <4>2
    <3>. QED BY <3>1, <3>2 DEF AtHand
  <2>2. Sound(L)
    BY <1>3, <1>6, <1>7, <2>1 DEF Sound
  <2>. QED BY <1>4, <1>9, <2>2, SetCpuModeSound
<1>. QED BY <1>8, <1>9

(* What a step leaves in the file and loads into the host is whole again.  *)
LEMMA Handed ==
  ASSUME NEW F, Sound(F), Become(F), host' = Loaded(F, Cache')
  PROVE  /\ Whole' = F /\ Sound(Whole)'
         /\ reg' \in [Regs -> Places]
         /\ reg_mode' \in [Modes -> [Banked -> Places]]
         /\ host' \in [{"x3", "x5"} -> Places]
         /\ cpu_mode' = F.mode /\ {cpu_mode', origin'} \subseteq Modes /\ lost' \subseteq Slots
<1> F \in Files
  BY DEF Sound
<1>1. /\ reg' = F.reg /\ reg_mode' = F.bank /\ cpu_mode' = F.mode /\ lost' = F.lost
      /\ origin' = F.origin
  BY DEF Become
<1>2. File' = F
  BY <1>1 DEF File, Files
<1>3. /\ Cache'.x3 \in Regs /\ Cache'.x5 \in Regs
  BY ModesAssumption DEF Cache, Arm, Thumb
<1>4. /\ host'.x3 = F.reg[Cache'.x3] /\ host'.x5 = F.reg[Cache'.x5]
      /\ host' \in [{"x3", "x5"} -> Places]
  <2>1. F.reg[Cache'.x3] \in Places /\ F.reg[Cache'.x5] \in Places
    BY <1>3 DEF Files
  <2>2. host' = [x3 |-> F.reg[Cache'.x3], x5 |-> F.reg[Cache'.x5]]
    BY DEF Loaded
  <2>. QED BY <2>1, <2>2
<1>5. Whole' = F
  <2>1. Whole' = [File' EXCEPT !.reg = [r \in Regs |-> IF r = Cache'.x3 THEN host'.x3
                                       ELSE IF r = Cache'.x5 THEN host'.x5 ELSE File'.reg[r]]]
    BY DEF Whole, Stored
  <2>2. F.reg = [r \in Regs |-> IF r = Cache'.x3 THEN host'.x3
                                       ELSE IF r = Cache'.x5 THEN host'.x5 ELSE F.reg[r]]
    BY <1>4 DEF Files
  <2>. QED BY <1>2, <2>1, <2>2 DEF Files
<1>6. Sound(Whole)'
  BY <1>5
<1>. QED BY <1>1, <1>4, <1>5, <1>6 DEF Files

(* Putting back what the host holds changes nothing but those registers.   *)
LEMMA WholeFile ==
  ASSUME ModesInv
  PROVE  /\ Whole.bank = reg_mode /\ Whole.mode = mode /\ Whole.lost = lost /\ Whole.origin = origin
         /\ Whole = Stored(File, Cache)
         /\ \A r \in Regs : Whole.reg[r] = Seen(r)
         /\ File \in Files /\ mode \in Modes
<1>1. File \in Files
  BY DEF File, Files, ModesInv, ModesTypeOK, Places
<1>2. Whole = [File EXCEPT !.reg = [r \in Regs |-> IF r = Cache.x3 THEN host.x3
                                    ELSE IF r = Cache.x5 THEN host.x5 ELSE reg[r]]]
  BY DEF Whole, Stored, File
<1>3. /\ Whole.bank = reg_mode /\ Whole.mode = cpu_mode /\ Whole.lost = lost
      /\ Whole.origin = origin
      /\ Whole.reg = [r \in Regs |-> IF r = Cache.x3 THEN host.x3
                                    ELSE IF r = Cache.x5 THEN host.x5 ELSE reg[r]]
  BY <1>2 DEF File
<1>4. ASSUME NEW r \in Regs
      PROVE  Whole.reg[r] = Seen(r)
  <2>1. Cache.x3 # Cache.x5
    BY DEF Cache, Arm, Thumb
  <2>2. DOMAIN Cache = {"x3", "x5"}
    BY DEF Cache, Arm, Thumb
  <2>3. CASE r = Cache.x3
    <3>1. (CHOOSE x \in {"x3", "x5"} : Cache[x] = r) = "x3"
      BY <2>1, <2>3
    <3>. QED BY <1>3, <2>3, <3>1 DEF Seen
  <2>4. CASE r = Cache.x5
    <3>1. (CHOOSE x \in {"x3", "x5"} : Cache[x] = r) = "x5"
      BY <2>1, <2>4
    <3>. QED BY <1>3, <2>1, <2>4, <3>1 DEF Seen
  <2>5. CASE r # Cache.x3 /\ r # Cache.x5
    BY <1>3, <2>5 DEF Seen
  <2>. QED BY <2>3, <2>4, <2>5
<1>. QED BY <1>1, <1>3, <1>4 DEF ModesInv, Whole, ModesTypeOK

LEMMA ModesInvInit == ModesInit => ModesInv
<1> SUFFICES ASSUME ModesInit PROVE ModesInv
  OBVIOUS
<1> "USER" \in Modes /\ 9 \in Regs /\ 14 \in Regs
  BY ModesAssumption
<1>1. /\ \A m \in Modes, r \in Regs : Own(m, r) \in Places
      /\ OLD \in Places /\ Banked \subseteq Regs
  BY Owners DEF Places, Banked
<1>2. /\ reg \in [Regs -> Places] /\ reg_mode \in [Modes -> [Banked -> Places]]
      /\ host \in [{"x3", "x5"} -> Places]
  BY <1>1 DEF ModesInit
<1>3. ModesTypeOK /\ mode = cpu_mode
  BY <1>2 DEF ModesInit, ModesTypeOK
<1>4. Cache = Arm
  BY DEF ModesInit, Cache
<1>5. Whole = File
  <2>1. reg = [r \in Regs |-> IF r = 9 THEN host.x3 ELSE IF r = 14 THEN host.x5 ELSE reg[r]]
    BY DEF ModesInit
  <2>. QED BY <1>4, <2>1 DEF Whole, Stored, Arm, File
<1>6. /\ File \in Files /\ File.mode = "USER" /\ File.reg = reg
      /\ File.bank = reg_mode
  BY <1>3 DEF File, Files, ModesTypeOK, ModesInit
<1>7. AtHand(File) /\ OfFiq(File)
  BY <1>6 DEF AtHand, OfFiq, ModesInit
<1>8. InBank(File)
  <2> SUFFICES ASSUME NEW m \in Modes, m # "USER", NEW r \in Banked, r >= 13
               PROVE  reg_mode[m][r] = Own(m, r)
    BY <1>6 DEF InBank
  <2>1. Own(m, r)[1] = m
    BY DEF Own
  <2>. QED BY <2>1 DEF ModesInit
<1>. QED BY <1>3, <1>5, <1>6, <1>7, <1>8 DEF ModesInv, Sound

(* A file that handed over and a known mode make the invariant again.      *)
LEMMA HandedInv ==
  ASSUME NEW F, Sound(F), Become(F), host' = Loaded(F, Cache'),
         mode' = F.mode, irqs' \in BOOLEAN, thumb' \in BOOLEAN,
         asking' \in BOOLEAN, late' \in BOOLEAN
  PROVE  ModesInv'
<1>1. /\ Sound(Whole)'
      /\ reg' \in [Regs -> Places]
      /\ reg_mode' \in [Modes -> [Banked -> Places]]
      /\ host' \in [{"x3", "x5"} -> Places]
      /\ cpu_mode' = F.mode /\ {cpu_mode', origin'} \subseteq Modes /\ lost' \subseteq Slots
  BY Handed
<1>. QED BY <1>1 DEF ModesInv, ModesTypeOK

LEMMA ResumeStep ==
  ASSUME ModesInv, NEW F, Sound(F), NEW i \in BOOLEAN, NEW t \in BOOLEAN,
         Resume(F, F.mode, i, t)
  PROVE  ModesInv'
<1> DEFINE taken == i /\ asking
           last == IF taken THEN Entered(F, "IRQ") ELSE F
<1>1. /\ mode' = IF taken THEN "IRQ" ELSE F.mode
      /\ irqs' = (i /\ ~taken) /\ thumb' = (t /\ ~taken)
      /\ Become(last) /\ late' = FALSE /\ asking' = asking
      /\ host' = Loaded(last, IF t /\ ~taken THEN Thumb ELSE Arm)
  BY DEF Resume
<1>2. host' = Loaded(last, Cache')
  BY <1>1 DEF Cache
<1>3. Sound(last) /\ last.mode = mode'
  BY ModesAssumption, <1>1, EnteredSound
<1>4. irqs' \in BOOLEAN /\ thumb' \in BOOLEAN /\ asking' \in BOOLEAN /\ late' \in BOOLEAN
  BY <1>1 DEF ModesInv, ModesTypeOK
<1> HIDE DEF last
<1>. QED BY <1>1, <1>2, <1>3, <1>4, HandedInv

(* MSR to the CPSR, and the return from an exception.                      *)
LEMMA ModeChangeStep ==
  ASSUME ModesInv, NEW m \in Modes, NEW i \in BOOLEAN, NEW t \in BOOLEAN,
         StoreCpsr(m, i) \/ SpsrRestore(m, i, t)
  PROVE  ModesInv'
<1>1. Stored(File, Arm) = Whole
  BY DEF StoreCpsr, SpsrRestore, Whole, Cache
<1>2. Sound(SetCpuMode(Whole, m)) /\ SetCpuMode(Whole, m).mode = m
  BY SetCpuModeSound DEF ModesInv
<1>3. PICK u \in BOOLEAN : Resume(SetCpuMode(Whole, m), m, i, u)
  BY <1>1 DEF StoreCpsr, SpsrRestore
<1>. QED BY <1>2, <1>3, ResumeStep

LEMMA BxStep ==
  ASSUME ModesInv, Bx
  PROVE  ModesInv'
<1>1. /\ thumb' = ~thumb /\ Become(Whole) /\ UNCHANGED <<mode, irqs, asking, late>>
      /\ host' = Loaded(Whole, IF thumb THEN Arm ELSE Thumb)
  BY DEF Bx, Whole
<1>2. host' = Loaded(Whole, Cache')
  BY <1>1 DEF Cache, ModesInv, ModesTypeOK
<1>3. Sound(Whole) /\ mode' = Whole.mode
  BY <1>1, WholeFile DEF ModesInv
<1>4. irqs' \in BOOLEAN /\ thumb' \in BOOLEAN /\ asking' \in BOOLEAN /\ late' \in BOOLEAN
  BY <1>1 DEF ModesInv, ModesTypeOK
<1>. QED BY <1>1, <1>2, <1>3, <1>4, HandedInv

LEMMA SwiStep ==
  ASSUME ModesInv, ExecuteSwi
  PROVE  ModesInv'
<1> DEFINE F == Entered(Whole, "SUPERVISOR")
<1>1. /\ mode' = "SUPERVISOR" /\ thumb' = FALSE /\ Become(F)
      /\ host' = Loaded(F, Arm) /\ UNCHANGED <<irqs, asking, late>>
  BY DEF ExecuteSwi, Whole
<1>2. host' = Loaded(F, Cache')
  BY <1>1 DEF Cache
<1>3. Sound(F) /\ F.mode = mode'
  BY ModesAssumption, <1>1, EnteredSound DEF ModesInv
<1>4. irqs' \in BOOLEAN /\ thumb' \in BOOLEAN /\ asking' \in BOOLEAN /\ late' \in BOOLEAN
  BY <1>1 DEF ModesInv, ModesTypeOK
<1> HIDE DEF F
<1>. QED BY <1>1, <1>2, <1>3, <1>4, HandedInv

LEMMA UpdateGbaStep ==
  ASSUME ModesInv, NEW b \in BOOLEAN, UpdateGba(b)
  PROVE  ModesInv'
<1> DEFINE last == IF Taken(b) THEN Entered(Whole, "IRQ") ELSE Whole
<1>1. /\ Raised(b) /\ Become(last)
      /\ host' = Loaded(last, Cache')
  BY DEF UpdateGba, Cache, Whole
<1>2. Sound(last) /\ last.mode = mode'
  BY ModesAssumption, <1>1, WholeFile, EnteredSound DEF ModesInv, Raised
<1>3. irqs' \in BOOLEAN /\ thumb' \in BOOLEAN /\ asking' \in BOOLEAN /\ late' \in BOOLEAN
  BY <1>1 DEF Raised, Taken, ModesInv, ModesTypeOK
<1> HIDE DEF last
<1>. QED BY <1>1, <1>2, <1>3, HandedInv

(* A file in which one register of the mode was written is as good.        *)
LEMMA WrittenSound ==
  ASSUME NEW F, Sound(F), NEW G \in Files, NEW r \in Regs,
         G.mode = F.mode, G.origin = F.origin, G.reg[r] = Own(F.mode, r),
         \A t \in F.lost : t = Own(F.mode, r) \/ t \in G.lost,
         \A q \in Regs : q # r /\ F.reg[q] # Own(F.mode, r) => G.reg[q] = F.reg[q],
         \A m \in Modes, q \in Banked :
           F.bank[m][q] # Own(F.mode, r) => G.bank[m][q] = F.bank[m][q]
  PROVE  Sound(G)
<1> DEFINE s == Own(F.mode, r)
<1> F \in Files /\ F.mode \in Modes /\ F.origin \in Modes /\ Banked \subseteq Regs
  BY DEF Sound, Files, Banked
<1> HIDE DEF s
<1>1. AtHand(G)
  <2> SUFFICES ASSUME NEW q \in Regs
               PROVE  G.reg[q] = Own(F.mode, q) \/ Own(F.mode, q) \in G.lost
    BY DEF AtHand
  <2>1. CASE q = r
    BY <2>1
  <2>2. CASE q # r
    <3>1. Own(F.mode, q) # Own(F.mode, r)
      BY <2>2, Apart
    <3>. QED BY <2>2, <3>1 DEF Sound, AtHand
  <2>. QED BY <2>1, <2>2
<1>2. InBank(G)
  <2> SUFFICES ASSUME NEW m \in Modes, m # F.mode, NEW q \in Banked, q >= 13
               PROVE  G.bank[m][q] = Own(m, q) \/ Own(m, q) \in G.lost
    BY DEF InBank
  <2>1. Own(m, q) # Own(F.mode, r)
    <3>1. CASE q # r
      BY <3>1, Apart
    <3>2. CASE q = r
      BY <3>2, BanksApart
    <3>. QED BY <3>1, <3>2
  <2>2. F.bank[m][q] = Own(m, q) \/ Own(m, q) \in F.lost
    BY DEF Sound, InBank
  <2>. QED BY <2>1, <2>2
<1>3. OfFiq(G)
  <2> SUFFICES ASSUME F.mode = "FIQ"
               PROVE  /\ F.origin # "FIQ"
                      /\ \A q \in Banked : q < 13 =>
                           \/ G.bank[F.origin][q] = Own(F.origin, q)
                           \/ Own(F.origin, q) \in G.lost
    BY DEF OfFiq
  <2>1. F.origin # "FIQ"
    BY DEF Sound, OfFiq
  <2>2. ASSUME NEW q \in Banked, q < 13
        PROVE  G.bank[F.origin][q] = Own(F.origin, q) \/ Own(F.origin, q) \in G.lost
    <3>1. Own(F.origin, q) # Own(F.mode, r)
      <4>1. CASE q # r
        BY <4>1, Apart
      <4>2. CASE q = r
        BY <2>1, <4>2, BanksApart DEF Banked
      <4>. QED BY <4>1, <4>2
    <3>2. F.bank[F.origin][q] = Own(F.origin, q) \/ Own(F.origin, q) \in F.lost
      BY <2>2 DEF Sound, OfFiq
    <3>. QED BY <3>1, <3>2
  <2>. QED BY <2>1, <2>2
<1>. QED BY <1>1, <1>2, <1>3 DEF Sound

LEMMA WriteStep ==
  ASSUME ModesInv, NEW r \in Regs, Write(r)
  PROVE  ModesInv'
<1> DEFINE s == Own(mode, r)
           x3 == Cache.x3
           x5 == Cache.x5
           held == r = x3 \/ r = x5
           G == Outdated(File, s)
           new(x) == IF host[x] = s THEN OLD ELSE host[x]
<1>1. /\ x3 \in Regs /\ x5 \in Regs /\ x3 # x5 /\ Cache["x3"] = x3 /\ Cache["x5"] = x5
  BY ModesAssumption DEF Cache, Arm, Thumb
<1>2. UNCHANGED <<mode, irqs, thumb, asking, late>> /\ Cache' = Cache
  BY DEF Write, Cache, cpsr
<1>3. mode \in Modes /\ s \in Places /\ OLD \in Places
  BY Owners DEF ModesInv, ModesTypeOK, Places
<1>4. /\ File \in Files /\ File.reg = reg /\ File.bank = reg_mode
      /\ File.mode = mode /\ File.lost = lost /\ File.origin = origin
  BY WholeFile DEF File, ModesInv
<1>5. /\ G \in Files /\ G.mode = mode /\ G.origin = origin /\ G.lost = lost \ {s}
      /\ \A q \in Regs : reg[q] # s => G.reg[q] = reg[q]
      /\ \A m \in Modes, q \in Banked : reg_mode[m][q] # s => G.bank[m][q] = reg_mode[m][q]
  BY <1>4, OutdatedFile
<1>6. host' = [x \in {"x3", "x5"} |-> IF Cache[x] = r THEN s ELSE new(x)]
  BY DEF Write
<1>7. /\ reg' = IF held THEN G.reg ELSE [G.reg EXCEPT ![r] = s]
      /\ reg_mode' = G.bank /\ cpu_mode' = mode /\ origin' = origin /\ lost' = lost \ {s}
  <2> HIDE DEF G
  <2>1. CASE held
    <3>1. \E x \in {"x3", "x5"} : Cache[x] = r
      BY <1>1, <2>1
    <3>2. Become(G)
      BY <3>1 DEF Write, G
    <3>. QED BY <1>5, <2>1, <3>2 DEF Become
  <2>2. CASE ~held
    <3>1. ~ \E x \in {"x3", "x5"} : Cache[x] = r
      BY <1>1, <2>2
    <3>2. Become([G EXCEPT !.reg[r] = s])
      BY <3>1 DEF Write, G
    <3>3. /\ [G EXCEPT !.reg[r] = s].reg = [G.reg EXCEPT ![r] = s]
          /\ [G EXCEPT !.reg[r] = s].bank = G.bank /\ [G EXCEPT !.reg[r] = s].mode = G.mode
          /\ [G EXCEPT !.reg[r] = s].lost = G.lost /\ [G EXCEPT !.reg[r] = s].origin = G.origin
      BY <1>5 DEF Files
    <3>. QED BY <1>5, <2>2, <3>2, <3>3 DEF Become
  <2>. QED BY <2>1, <2>2
<1> HIDE DEF s, x3, x5, G
<1>8. ModesTypeOK'
  <2>1. reg' \in [Regs -> Places] /\ reg_mode' \in [Modes -> [Banked -> Places]]
    BY <1>3, <1>5, <1>7 DEF Files
  <2>2. host' \in [{"x3", "x5"} -> Places]
    BY <1>3, <1>6 DEF ModesInv, ModesTypeOK
  <2>. QED BY <1>2, <1>7, <2>1, <2>2 DEF ModesInv, ModesTypeOK
<1>9. Whole' \in Files
  <2>1. host'.x3 \in Places /\ host'.x5 \in Places
    BY <1>8 DEF ModesTypeOK
  <2>2. File' \in Files /\ reg' \in [Regs -> Places]
    BY <1>8 DEF ModesTypeOK, File, Files
  <2>. QED BY <2>1, <2>2 DEF Whole, Stored, File, Files
<1>10. /\ Whole'.mode = mode /\ Whole'.lost = lost \ {s} /\ Whole'.bank = G.bank
       /\ Whole'.origin = origin
       /\ \A q \in Regs : Whole'.reg[q] = IF q = x3 THEN host'.x3 ELSE IF q = x5 THEN host'.x5
                                          ELSE reg'[q]
  BY <1>2, <1>7 DEF Whole, Stored, File, x3, x5
<1>11. \A q \in Regs : Whole.reg[q] = IF q = x3 THEN host.x3 ELSE IF q = x5 THEN host.x5 ELSE reg[q]
  BY DEF Whole, Stored, File, x3, x5
<1>12. Whole'.reg[r] = s
  BY <1>1, <1>5, <1>6, <1>7, <1>10 DEF Files
<1>13. \A q \in Regs : q # r /\ Whole.reg[q] # s => Whole'.reg[q] = Whole.reg[q]
  BY <1>1, <1>5, <1>6, <1>7, <1>10, <1>11 DEF Files
<1>14. Sound(Whole')
  <2>1. /\ Sound(Whole) /\ Whole.mode = mode /\ Whole.origin = origin /\ Whole.lost = lost
        /\ Whole.bank = reg_mode
    BY WholeFile DEF ModesInv
  <2>2. Own(Whole.mode, r) = s
    BY <2>1 DEF s
  <2>3. /\ Whole'.mode = Whole.mode /\ Whole'.origin = Whole.origin
        /\ Whole'.reg[r] = Own(Whole.mode, r)
        /\ \A t \in Whole.lost : t = Own(Whole.mode, r) \/ t \in Whole'.lost
    BY <1>10, <1>12, <2>1, <2>2
  <2>4. \A q \in Regs : q # r /\ Whole.reg[q] # Own(Whole.mode, r)
                         => Whole'.reg[q] = Whole.reg[q]
    BY <1>13, <2>2
  <2>5. \A m \in Modes, q \in Banked :
          Whole.bank[m][q] # Own(Whole.mode, r) => Whole'.bank[m][q] = Whole.bank[m][q]
    BY <1>5, <1>10, <2>1, <2>2
  <2>. QED BY <1>9, <2>1, <2>3, <2>4, <2>5, WrittenSound
<1>. QED BY <1>2, <1>7, <1>8, <1>14 DEF ModesInv

(* An exception leaves a register file, and only its link register is      *)
(* found again.                                                            *)
LEMMA EnteredFile ==
  ASSUME NEW F \in Files, NEW m \in Modes
  PROVE  /\ F.lost \subseteq Entered(F, m).lost \cup {Own(m, 14)}
         /\ Entered(F, m) \in Files
<1> DEFINE s == Own(m, 14)
           G == Outdated(F, s)
           L == [G EXCEPT !.bank[m][14] = s]
<1>1. G \in Files /\ G.mode = F.mode /\ G.lost = F.lost \ {s}
  <2> HIDE DEF s
  <2>. QED BY OutdatedFile
<1> HIDE DEF G
<1>2. Entered(F, m) = IF F.mode = m THEN [L EXCEPT !.lost = @ \cup {s}]
                          ELSE SetCpuMode(L, m)
  BY DEF Entered, G
<1>3. s \in Slots /\ 14 \in Banked
  BY ModesAssumption, Owners DEF Banked
<1>4. L \in Files /\ L.mode = F.mode /\ L.lost = F.lost \ {s}
  BY <1>1, <1>3 DEF Files, Places
<1> HIDE DEF L, s
<1>5. CASE F.mode = m
  <2>1. /\ [L EXCEPT !.lost = @ \cup {s}] \in Files
        /\ [L EXCEPT !.lost = @ \cup {s}].lost = L.lost \cup {s}
    BY <1>3, <1>4 DEF Files
  <2>. QED BY <1>2, <1>4, <1>5, <2>1 DEF s
<1>6. CASE F.mode # m
  <2>1. SetCpuMode(L, m) \in Files
    BY <1>4, <1>6, SetCpuModeFile
  <2>2. L.lost \subseteq SetCpuMode(L, m).lost
    BY <1>4, <1>6 DEF SetCpuMode, Files
  <2>. QED BY <1>2, <1>4, <1>6, <2>1, <2>2 DEF s
<1>. QED BY <1>5, <1>6

(* What is lost has no part in where an exception puts the registers.      *)
LEMMA EnteredLost ==
  ASSUME NEW F \in Files, NEW X \in SUBSET Slots, NEW m \in Modes,
         NEW Y \in Files, Y.reg = F.reg, Y.bank = F.bank, Y.mode = F.mode, Y.origin = F.origin,
         Y.lost = F.lost \cup X
  PROVE  /\ Entered(F, m).reg = Entered(Y, m).reg
         /\ Entered(F, m).bank = Entered(Y, m).bank
         /\ Entered(F, m).mode = Entered(Y, m).mode
         /\ Entered(F, m).origin = Entered(Y, m).origin
         /\ Entered(Y, m).lost \subseteq Entered(F, m).lost \cup X
<1> DEFINE s == Own(m, 14)
           G == Outdated(F, s)
           H == Outdated(Y, s)
           L == [G EXCEPT !.bank[m][14] = s]
           M == [H EXCEPT !.bank[m][14] = s]
<1>2. /\ G \in Files /\ H \in Files /\ G.mode = F.mode /\ H.mode = F.mode
      /\ G.origin = F.origin /\ H.origin = F.origin
      /\ G.lost = F.lost \ {s} /\ H.lost = (F.lost \cup X) \ {s}
  <2> HIDE DEF s
  <2>1. G \in Files /\ G.mode = F.mode /\ G.origin = F.origin /\ G.lost = F.lost \ {s}
    BY OutdatedFile
  <2>2. H \in Files /\ H.mode = Y.mode /\ H.origin = Y.origin /\ H.lost = Y.lost \ {s}
    BY OutdatedFile
  <2>. QED BY <2>1, <2>2
<1>3. G.reg = H.reg /\ G.bank = H.bank
  BY DEF Outdated, Files
<1> HIDE DEF G, H
<1>4. /\ L.reg = M.reg /\ L.bank = M.bank /\ L.mode = F.mode /\ M.mode = F.mode
      /\ L.origin = F.origin /\ M.origin = F.origin /\ L.lost = G.lost /\ M.lost = H.lost
      /\ L \in [reg : {L.reg}, bank : {L.bank}, mode : {L.mode}, lost : {L.lost}, origin : {L.origin}]
      /\ M \in [reg : {L.reg}, bank : {L.bank}, mode : {L.mode}, lost : {M.lost}, origin : {L.origin}]
  BY <1>2, <1>3 DEF Files
<1>5. /\ Entered(F, m) = IF F.mode = m THEN [L EXCEPT !.lost = @ \cup {s}] ELSE SetCpuMode(L, m)
      /\ Entered(Y, m) = IF F.mode = m THEN [M EXCEPT !.lost = @ \cup {s}] ELSE SetCpuMode(M, m)
  BY DEF Entered, G, H
<1> HIDE DEF L, M, s
<1>6. CASE F.mode = m
  <2>1. /\ [L EXCEPT !.lost = @ \cup {s}].reg = L.reg /\ [M EXCEPT !.lost = @ \cup {s}].reg = L.reg
        /\ [L EXCEPT !.lost = @ \cup {s}].bank = L.bank /\ [M EXCEPT !.lost = @ \cup {s}].bank = L.bank
        /\ [L EXCEPT !.lost = @ \cup {s}].mode = L.mode /\ [M EXCEPT !.lost = @ \cup {s}].mode = L.mode
        /\ [L EXCEPT !.lost = @ \cup {s}].origin = L.origin
        /\ [M EXCEPT !.lost = @ \cup {s}].origin = L.origin
        /\ [L EXCEPT !.lost = @ \cup {s}].lost = L.lost \cup {s}
        /\ [M EXCEPT !.lost = @ \cup {s}].lost = M.lost \cup {s}
    BY <1>4
  <2>. QED BY <1>2, <1>4, <1>5, <1>6, <2>1
<1>7. CASE F.mode # m
  <2>1. Retired(L, m) = Retired(M, m)
    BY <1>4 DEF Retired
  <2>2. /\ SetCpuMode(L, m).reg = SetCpuMode(M, m).reg
        /\ SetCpuMode(L, m).bank = SetCpuMode(M, m).bank
        /\ SetCpuMode(L, m).mode = SetCpuMode(M, m).mode
        /\ SetCpuMode(L, m).origin = SetCpuMode(M, m).origin
        /\ SetCpuMode(M, m).lost \subseteq SetCpuMode(L, m).lost \cup M.lost
        /\ L.lost \subseteq SetCpuMode(L, m).lost
    BY <1>4, <1>7, <2>1 DEF SetCpuMode
  <2>. QED BY <1>2, <1>4, <1>5, <1>7, <2>2
<1>. QED BY <1>6, <1>7

(* The registers that the host holds at a store which starts a DMA are put *)
(* back only after its interrupt is taken, and as those of ARM code.       *)
LEMMA DmaTakenStep ==
  ASSUME ModesInv, NEW b \in BOOLEAN, StoreOfDma(b), Taken(b)
  PROVE  ModesInv'
<1> DEFINE spoilt ==
             {Own("IRQ", 14)} \cup
             IF thumb THEN {Own(mode, r) : r \in {3, 5, 9}} \cup {Own("IRQ", 9)}
             ELSE {Own(mode, 14)} \cup
                  IF mode = "FIQ" THEN {Own("FIQ", 9), Own("IRQ", 9)} ELSE {}
           x3 == Cache.x3
           x5 == Cache.x5
           X == {Own(mode, x3), Own(mode, x5)}
           K == [File EXCEPT !.lost = @ \cup X]
           E == Entered(File, "IRQ")
           D == Entered(K, "IRQ")
           S == Stored(E, Arm)
           G == [S EXCEPT !.lost = @ \cup spoilt]
<1>1. /\ "IRQ" \in Modes /\ mode \in Modes /\ x3 \in Regs /\ x5 \in Regs
      /\ {3, 5, 9, 14} \subseteq Regs /\ \A r \in Regs : r \in Int
  BY ModesAssumption, Owners DEF ModesInv, ModesTypeOK, Cache, Arm, Thumb
<1>2. X \subseteq Slots /\ spoilt \subseteq Slots
  BY <1>1, Owners
<1>3. /\ File \in Files /\ File.reg = reg /\ File.bank = reg_mode
      /\ File.mode = mode /\ File.lost = lost /\ File.origin = origin
  BY WholeFile DEF File, ModesInv
<1>4. /\ Sound(Whole) /\ Whole.mode = mode /\ Whole.origin = origin /\ Whole.lost = lost
      /\ Whole.bank = reg_mode
      /\ \A q \in Regs : Whole.reg[q] = IF q = x3 THEN host.x3 ELSE IF q = x5 THEN host.x5
                                        ELSE reg[q]
  BY WholeFile DEF ModesInv, Whole, Stored, File
<1> HIDE DEF X, spoilt
<1>5. /\ K \in Files /\ K.reg = reg /\ K.bank = reg_mode /\ K.mode = mode /\ K.origin = origin
      /\ K.lost = lost \cup X
  BY <1>2, <1>3 DEF Files
<1> HIDE DEF K
<1>6. Sound(K)
  <2>1. AtHand(K)
    BY <1>4, <1>5 DEF Sound, AtHand, X
  <2>2. InBank(K) /\ OfFiq(K)
    BY <1>4, <1>5 DEF Sound, InBank, OfFiq
  <2>. QED BY <1>5, <2>1, <2>2 DEF Sound
<1>7. Sound(D) /\ D.mode = "IRQ"
  BY <1>1, <1>6, EnteredSound
<1>8. /\ E.reg = D.reg /\ E.bank = D.bank /\ E.mode = D.mode /\ E.origin = D.origin
      /\ D.lost \subseteq E.lost \cup X /\ lost \subseteq E.lost \cup {Own("IRQ", 14)}
      /\ E \in Files
  <2>2. /\ E.reg = D.reg /\ E.bank = D.bank /\ E.mode = D.mode /\ E.origin = D.origin
        /\ D.lost \subseteq E.lost \cup X
        /\ File.lost \subseteq E.lost \cup {Own("IRQ", 14)} /\ E \in Files
    <3>1. /\ File \in Files /\ X \in SUBSET Slots /\ "IRQ" \in Modes /\ K \in Files
          /\ K.reg = File.reg /\ K.bank = File.bank /\ K.mode = File.mode
          /\ K.origin = File.origin /\ K.lost = File.lost \cup X
      BY <1>1, <1>2, <1>3, <1>5
    <3>2. E.reg = D.reg /\ E.bank = D.bank /\ E.mode = D.mode /\ E.origin = D.origin
      BY <3>1, EnteredLost
    <3>3. D.lost \subseteq E.lost \cup X
      BY <3>1, EnteredLost
    <3>4. File.lost \subseteq E.lost \cup {Own("IRQ", 14)} /\ E \in Files
      BY <3>1, EnteredFile
    <3>. QED BY <3>2, <3>3, <3>4
  <2>. QED BY <1>3, <2>2
<1> HIDE DEF D, E
<1>9. /\ E \in Files /\ E.mode = "IRQ" /\ E.lost \subseteq Slots
  BY <1>7, <1>8 DEF Files
<1>10. /\ host.x3 \in Places /\ host.x5 \in Places
  BY DEF ModesInv, ModesTypeOK
<1>11. /\ G \in Files /\ G.bank = E.bank /\ G.mode = "IRQ" /\ G.origin = E.origin
       /\ G.lost = E.lost \cup spoilt
       /\ G.reg = [r \in Regs |-> IF r = 9 THEN host.x3 ELSE IF r = 14 THEN host.x5 ELSE E.reg[r]]
  <2> DEFINE R == [r \in Regs |-> IF r = 9 THEN host.x3 ELSE IF r = 14 THEN host.x5 ELSE E.reg[r]]
  <2>1. R \in [Regs -> Places]
    BY <1>9, <1>10 DEF Files
  <2>2. S = [E EXCEPT !.reg = R]
    BY DEF Stored, Arm
  <2> HIDE DEF R, S
  <2>3. S \in Files /\ S.reg = R /\ S.bank = E.bank /\ S.mode = E.mode /\ S.origin = E.origin
        /\ S.lost = E.lost
    BY <1>9, <2>1, <2>2 DEF Files
  <2>4. G = [S EXCEPT !.lost = S.lost \cup spoilt]
    OBVIOUS
  <2> HIDE DEF G
  <2>. QED BY <1>2, <1>9, <2>3, <2>4 DEF Files, R
<1> HIDE DEF S, G
<1>12. AtHand(G)
  <2> SUFFICES ASSUME NEW q \in Regs
               PROVE  G.reg[q] = Own("IRQ", q) \/ Own("IRQ", q) \in G.lost
    BY <1>11 DEF AtHand
  <2>1. D.reg[q] = Own("IRQ", q) \/ Own("IRQ", q) \in D.lost
    BY <1>7 DEF Sound, AtHand
  <2>2. CASE q = 14
    BY <1>11, <2>2 DEF spoilt
  <2>3. CASE q = 9 /\ (thumb \/ mode = "FIQ")
    BY <1>11, <2>3 DEF spoilt
  <2>4. CASE q = 9 /\ ~thumb /\ mode # "FIQ"
    <3>1. G.reg[q] = Whole.reg[q]
      BY <1>4, <1>11, <2>4 DEF x3, Cache, Arm
    <3>2. Own(mode, q) = Own("IRQ", q) /\ q # 14
      BY <1>1, <2>4, Owners
    <3>3. Whole.reg[q] = Own(mode, q) \/ Own(mode, q) \in lost
      BY <1>4 DEF Sound, AtHand
    <3>4. Own("IRQ", q) # Own("IRQ", 14)
      BY <3>2, Apart
    <3>. QED BY <1>8, <1>11, <3>1, <3>2, <3>3, <3>4
  <2>5. CASE q # 9 /\ q # 14
    <3>1. Own("IRQ", q) \in X => Own("IRQ", q) \in spoilt
      <4>1. CASE thumb
        BY <4>1 DEF X, spoilt, x3, x5, Cache, Thumb
      <4>2. CASE ~thumb
        <5>1. X = {Own(mode, 9), Own(mode, 14)}
          BY <4>2 DEF X, x3, x5, Cache, Arm
        <5>. QED BY <2>5, <5>1, Apart
      <4>. QED BY <4>1, <4>2
    <3>2. G.reg[q] = D.reg[q]
      BY <1>8, <1>11, <2>5
    <3>. QED BY <1>8, <1>11, <2>1, <3>1, <3>2
  <2>. QED BY <2>2, <2>3, <2>4, <2>5
<1>13. InBank(G)
  <2> SUFFICES ASSUME NEW n \in Modes, n # "IRQ", NEW q \in Banked, q >= 13
               PROVE  G.bank[n][q] = Own(n, q) \/ Own(n, q) \in G.lost
    BY <1>11 DEF InBank
  <2>1. D.bank[n][q] = Own(n, q) \/ Own(n, q) \in D.lost
    BY <1>7 DEF Sound, InBank
  <2>2. Own(n, q) \in X => Own(n, q) \in spoilt
    <3>1. CASE thumb
      BY <3>1 DEF X, spoilt, x3, x5, Cache, Thumb
    <3>2. CASE ~thumb
      <4>1. X = {Own(mode, 9), Own(mode, 14)} /\ Own(mode, 14) \in spoilt
        BY <3>2 DEF X, spoilt, x3, x5, Cache, Arm
      <4>2. Own(n, q) # Own(mode, 9)
        BY Apart
      <4>. QED BY <4>1, <4>2
    <3>. QED BY <3>1, <3>2
  <2>. QED BY <1>8, <1>11, <2>1, <2>2
<1>14. OfFiq(G)
  BY <1>11 DEF OfFiq
<1>15. Sound(G)
  BY <1>11, <1>12, <1>13, <1>14 DEF Sound
<1>16. /\ Become(G) /\ mode' = G.mode /\ thumb' = FALSE /\ host' = Loaded(G, Arm)
       /\ irqs' \in BOOLEAN /\ asking' \in BOOLEAN /\ late' \in BOOLEAN
  <2>1. /\ Raised(b) /\ mode' = "IRQ" /\ thumb' = FALSE
    BY DEF StoreOfDma, Raised
  <2>2. Become(G) /\ host' = Loaded(S, Arm)
    BY <2>1 DEF StoreOfDma, G, S, E, spoilt
  <2>3. Loaded(S, Arm) = Loaded(G, Arm)
    BY <1>11 DEF Loaded, S, Stored, Arm
  <2>4. irqs' \in BOOLEAN /\ asking' \in BOOLEAN /\ late' \in BOOLEAN
    BY <2>1 DEF Raised, Taken, ModesInv, ModesTypeOK
  <2>. QED BY <1>11, <2>1, <2>2, <2>3, <2>4
<1>. QED BY <1>15, <1>16, HandedInv DEF Cache

LEMMA DmaStep ==
  ASSUME ModesInv, NEW b \in BOOLEAN, StoreOfDma(b)
  PROVE  ModesInv'
<1>1. CASE Taken(b)
  BY <1>1, DmaTakenStep
<1>2. CASE ~Taken(b)
  <2>1. /\ mode' = mode /\ thumb' = thumb
        /\ irqs' \in BOOLEAN /\ asking' \in BOOLEAN /\ late' \in BOOLEAN
    BY <1>2 DEF StoreOfDma, Raised, Taken, ModesInv, ModesTypeOK
  <2>2. Become(Whole) /\ host' = Loaded(Whole, Cache')
    BY <1>2, <2>1 DEF StoreOfDma, Cache, Whole
  <2>3. Sound(Whole) /\ Whole.mode = mode /\ thumb' \in BOOLEAN
    BY <2>1, WholeFile DEF ModesInv, ModesTypeOK
  <2>. QED BY <2>1, <2>2, <2>3, HandedInv
<1>. QED BY <1>1, <1>2

(* IE, IF and IME are no business of the registers.                        *)
LEMMA UntouchedStep ==
  ASSUME ModesInv, UNCHANGED <<reg, reg_mode, cpu_mode, host, cpsr, origin, lost>>,
         asking' \in BOOLEAN, late' \in BOOLEAN
  PROVE  ModesInv'
<1>1. Whole' = Whole
  BY DEF Whole, Stored, File, Cache, cpsr
<1>2. Sound(Whole)'
  BY <1>1 DEF ModesInv
<1>. QED BY <1>2 DEF ModesInv, ModesTypeOK, cpsr

LEMMA ModesStep ==
  ASSUME ModesInv, [ModesNext]_modeVars
  PROVE  ModesInv'
<1>1. ASSUME NEW r \in Regs, Write(r)
      PROVE  ModesInv'
  BY <1>1, WriteStep
<1>2. CASE Bx \/ ExecuteSwi
  BY <1>2, BxStep, SwiStep
<1>3. ASSUME NEW m \in Modes, NEW i \in BOOLEAN,
             StoreCpsr(m, i) \/ \E t \in BOOLEAN : SpsrRestore(m, i, t)
      PROVE  ModesInv'
  BY <1>3, ModeChangeStep
<1>4. ASSUME NEW b \in BOOLEAN, UpdateGba(b) \/ StoreOfDma(b)
      PROVE  ModesInv'
  BY <1>4, UpdateGbaStep, DmaStep
<1>5. ASSUME NEW b \in BOOLEAN, WriteIe(b)
      PROVE  ModesInv'
  <2>1. asking' \in BOOLEAN /\ late' \in BOOLEAN
    BY <1>5 DEF WriteIe, ModesInv, ModesTypeOK
  <2>. QED BY <1>5, <2>1, UntouchedStep DEF WriteIe
<1>6. CASE UNCHANGED modeVars
  <2>1. asking' \in BOOLEAN /\ late' \in BOOLEAN
    BY <1>6 DEF modeVars, ModesInv, ModesTypeOK
  <2>. QED BY <1>6, <2>1, UntouchedStep DEF modeVars
<1>. QED BY <1>1, <1>2, <1>3, <1>4, <1>5, <1>6 DEF ModesNext

(* Mode changes, exceptions, interrupts and stores that start a DMA        *)
(* (cpu.c, arm_stub.S) keep the invariant, with or without FIQ.            *)
THEOREM ModesInvariant == ModesSpec => []ModesInv
<1>1. ModesInv /\ [ModesNext]_modeVars => ModesInv'
  BY ModesStep
<1>. QED BY <1>1, ModesInvInit, PTL DEF ModesSpec

(* Each register that the guest reads has what was last written to it in   *)
(* this mode, but for those the code is known to lose.                     *)
THEOREM RegistersAreKept == ModesSpec => []RegistersKept
<1>1. ModesInv => RegistersKept
  <2> SUFFICES ASSUME ModesInv, NEW r \in Regs
               PROVE  Seen(r) = Own(mode, r) \/ Own(mode, r) \in lost
    BY DEF RegistersKept
  <2>1. Whole.reg[r] = Seen(r) /\ Whole.mode = mode /\ Whole.lost = lost
    BY WholeFile
  <2>. QED BY <2>1 DEF ModesInv, Sound, AtHand
<1>. QED BY <1>1, ModesInvariant, PTL

(* No interrupt that may be taken waits, but for one that a write to IE,   *)
(* IF or IME let through.                                                  *)
THEOREM InterruptsAreTaken == ModesSpec => []NoInterruptWaits
<1>1. ModesInit => NoInterruptWaits
  BY DEF ModesInit, NoInterruptWaits
<1>2. ModesInv /\ NoInterruptWaits /\ [ModesNext]_modeVars => NoInterruptWaits'
  <2> SUFFICES ASSUME ModesInv, NoInterruptWaits, [ModesNext]_modeVars
               PROVE  asking' /\ irqs' => late'
    BY DEF NoInterruptWaits
  <2>1. ASSUME NEW r \in Regs, Write(r)
        PROVE  asking' /\ irqs' => late'
    BY <2>1 DEF Write, cpsr, NoInterruptWaits
  <2>2. CASE Bx \/ ExecuteSwi
    BY <2>2 DEF Bx, ExecuteSwi, NoInterruptWaits
  <2>3. ASSUME NEW m \in Modes, NEW i \in BOOLEAN,
               StoreCpsr(m, i) \/ \E t \in BOOLEAN : SpsrRestore(m, i, t)
        PROVE  asking' /\ irqs' => late'
    BY <2>3 DEF StoreCpsr, SpsrRestore, Resume
  <2>4. ASSUME NEW b \in BOOLEAN, UpdateGba(b) \/ StoreOfDma(b)
        PROVE  asking' /\ irqs' => late'
    BY <2>4 DEF UpdateGba, StoreOfDma, Raised, Taken, NoInterruptWaits
  <2>5. ASSUME NEW b \in BOOLEAN, WriteIe(b)
        PROVE  asking' /\ irqs' => late'
    BY <2>5 DEF WriteIe, cpsr
  <2>6. CASE UNCHANGED modeVars
    BY <2>6 DEF modeVars, cpsr, NoInterruptWaits
  <2>. QED BY <2>1, <2>2, <2>3, <2>4, <2>5, <2>6 DEF ModesNext
<1>. QED BY <1>1, <1>2, ModesInvariant, PTL DEF ModesSpec
============================================================================
