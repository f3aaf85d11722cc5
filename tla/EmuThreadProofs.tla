--------------------------- MODULE EmuThreadProofs ---------------------------
(***************************************************************************)
(* Proofs about the hand-over protocol of EmuThread.  HandOverInv is       *)
(* inductive for either value of StartRace; the safety properties and the  *)
(* implementation of MachineControl follow from it.  WaitInv is inductive  *)
(* beside it when the mutex is made before it is used, and keeps the two   *)
(* threads from waiting for each other.                                    *)
(***************************************************************************)
EXTENDS EmuThread, TLAPS

USE DEF vars, hostVars, syncVars, uiVars, emuVars,
        Threads, EmuStates, TrackStates, Ops, UiPcs, EmuPcs, ParkedPcs, PausePcs, ResumePcs,
        PausingOps, UnloadingOps, RestartOps, Runnable

(* The steps of pauseEmulator preserve the invariant. *)
LEMMA PauseSteps ==
  ASSUME HandOverInv, PauseLock \/ PauseTest \/ PauseLoop \/ PauseBlock \/ PauseWait
                      \/ PauseAudio
  PROVE  HandOverInv'
<1> USE DEF HandOverInv, TypeOK, EmuSide, UiSide, CallContext, RestartPending,
             AudioBracketed, UiGoto, Acquire, CondWait, SetTrack
<1>1. CASE PauseLock
  BY <1>1 DEF PauseLock
<1>2. CASE PauseTest
  BY <1>2 DEF PauseTest
<1>3. CASE PauseLoop
  BY <1>3 DEF PauseLoop
<1>6. CASE PauseBlock
  <2> USE <1>6 DEF PauseBlock
  <2>1. TypeOK'
    <3>1. waiters' \in SUBSET Threads
      OBVIOUS
    <3> QED
      BY <3>1
  <2>2. EmuSide'
    OBVIOUS
  <2>3. UiSide'
    OBVIOUS
  <2>4. CallContext'
    OBVIOUS
  <2>5. RestartPending'
    OBVIOUS
  <2>6. AudioBracketed'
    OBVIOUS
  <2> QED
    BY <2>1, <2>2, <2>3, <2>4, <2>5, <2>6 DEF HandOverInv
<1>4. CASE PauseWait
  BY <1>4 DEF PauseWait
<1>5. CASE PauseAudio
  BY <1>5 DEF PauseAudio
<1> QED
  BY <1>1, <1>2, <1>3, <1>4, <1>5, <1>6 DEF HandOverInv

(* The bodies of the JNI calls preserve the invariant. *)
LEMMA BodySteps ==
  ASSUME HandOverInv, UiBody
  PROVE  HandOverInv'
<1> USE DEF HandOverInv, TypeOK, EmuSide, UiSide, CallContext, RestartPending,
             AudioBracketed, UiGoto, Body, SetTrack, StopTrack
<1>1. CASE InitializeBody
  <2> USE <1>1 DEF InitializeBody
  <2>1. TypeOK'
    <3>1. media' \in BOOLEAN /\ resumeRequested' \in BOOLEAN
      OBVIOUS
    <3> QED
      BY <3>1
  <2>2. EmuSide'
    OBVIOUS
  <2>3. UiSide'
    OBVIOUS
  <2>4. CallContext'
    OBVIOUS
  <2>5. RestartPending'
    OBVIOUS
  <2>6. AudioBracketed'
    OBVIOUS
  <2> QED
    BY <2>1, <2>2, <2>3, <2>4, <2>5, <2>6 DEF HandOverInv
<1>2. CASE UnloadROMBody
  <2> USE <1>2 DEF UnloadROMBody
  <2>1. TypeOK'
    <3>1. romLoaded' \in BOOLEAN
      OBVIOUS
    <3> QED
      BY <3>1
  <2>2. EmuSide'
    OBVIOUS
  <2>3. UiSide'
    OBVIOUS
  <2>4. CallContext'
    OBVIOUS
  <2>5. RestartPending'
    OBVIOUS
  <2>6. AudioBracketed'
    OBVIOUS
  <2> QED
    BY <2>1, <2>2, <2>3, <2>4, <2>5, <2>6 DEF HandOverInv
<1>3. CASE CleanUpBody
  <2> USE <1>3 DEF CleanUpBody
  <2>1. TypeOK'
    <3>1. romLoaded' \in BOOLEAN /\ media' \in BOOLEAN
      OBVIOUS
    <3> QED
      BY <3>1
  <2>2. EmuSide'
    OBVIOUS
  <2>3. UiSide'
    OBVIOUS
  <2>4. CallContext'
    OBVIOUS
  <2>5. RestartPending'
    OBVIOUS
  <2>6. AudioBracketed'
    OBVIOUS
  <2> QED
    BY <2>1, <2>2, <2>3, <2>4, <2>5, <2>6 DEF HandOverInv
<1>4. CASE SetSurfaceBody
  BY <1>4 DEF SetSurfaceBody
<1>5. CASE ClearSurfaceBody
  <2> USE <1>5 DEF ClearSurfaceBody
  <2>1. TypeOK'
    <3>1. renderSurface' \in BOOLEAN
      OBVIOUS
    <3> QED
      BY <3>1
  <2>2. EmuSide'
    OBVIOUS
  <2>3. UiSide'
    OBVIOUS
  <2>4. CallContext'
    OBVIOUS
  <2>5. RestartPending'
    OBVIOUS
  <2>6. AudioBracketed'
    OBVIOUS
  <2> QED
    BY <2>1, <2>2, <2>3, <2>4, <2>5, <2>6 DEF HandOverInv
<1>6. CASE SetOptionBody
  BY <1>6 DEF SetOptionBody
<1>7. CASE LoadBIOSBody
  BY <1>7 DEF LoadBIOSBody
<1>8. CASE ResetBody
  BY <1>8 DEF ResetBody
<1>9. CASE LoadROMBody
  <2> USE <1>9 DEF LoadROMBody
  <2>1. TypeOK'
    <3>1. romLoaded' \in BOOLEAN
      OBVIOUS
    <3> QED
      BY <3>1
  <2>2. EmuSide'
    OBVIOUS
  <2>3. UiSide'
    OBVIOUS
  <2>4. CallContext'
    OBVIOUS
  <2>5. RestartPending'
    OBVIOUS
  <2>6. AudioBracketed'
    OBVIOUS
  <2> QED
    BY <2>1, <2>2, <2>3, <2>4, <2>5, <2>6 DEF HandOverInv
<1>10. CASE LoadROMFail
  BY <1>10 DEF LoadROMFail
<1>11. CASE LoadROMSucceed
  BY <1>11 DEF LoadROMSucceed
<1>12. CASE PauseBody
  <2> USE <1>12 DEF PauseBody
  <2>1. TypeOK'
    <3>1. resumeRequested' \in BOOLEAN
      OBVIOUS
    <3> QED
      BY <3>1
  <2>2. EmuSide'
    OBVIOUS
  <2>3. UiSide'
    OBVIOUS
  <2>4. CallContext'
    OBVIOUS
  <2>5. RestartPending'
    OBVIOUS
  <2>6. AudioBracketed'
    OBVIOUS
  <2> QED
    BY <2>1, <2>2, <2>3, <2>4, <2>5, <2>6 DEF HandOverInv
<1>13. CASE SaveStateBody
  BY <1>13 DEF SaveStateBody
<1>14. CASE LoadStateBody
  BY <1>14 DEF LoadStateBody
<1> QED
  BY <1>1, <1>2, <1>3, <1>4, <1>5, <1>6, <1>7, <1>8, <1>9, <1>10, <1>11, <1>12, <1>13, <1>14 DEF UiBody

(* The steps of resumeEmulator preserve the invariant. *)
LEMMA ResumeSteps ==
  ASSUME HandOverInv, RestartLoad \/ RestartStore \/ ResumeTest
                       \/ ResumeLock \/ Request \/ ResumeLoop \/ ResumeBlock \/ ResumeWait
  PROVE  HandOverInv'
<1> USE DEF HandOverInv, TypeOK, EmuSide, UiSide, CallContext, RestartPending,
             AudioBracketed, UiGoto, Acquire, CondWait, Signal
<1>1. CASE RestartLoad
  BY <1>1 DEF RestartLoad
<1>2. CASE RestartStore
  BY <1>2 DEF RestartStore
<1>3. CASE ResumeTest
  BY <1>3 DEF ResumeTest
<1>4. CASE ResumeLock
  BY <1>4 DEF ResumeLock
<1>5. CASE Request
  <2> USE <1>5 DEF Request
  <2>1. TypeOK'
    <3>1. waiters' \in SUBSET Threads
      OBVIOUS
    <3> QED
      BY <3>1
  <2>2. EmuSide'
    OBVIOUS
  <2>3. UiSide'
    OBVIOUS
  <2>4. CallContext'
    OBVIOUS
  <2>5. RestartPending'
    OBVIOUS
  <2>6. AudioBracketed'
    OBVIOUS
  <2> QED
    BY <2>1, <2>2, <2>3, <2>4, <2>5, <2>6 DEF HandOverInv
<1>6. CASE ResumeLoop
  BY <1>6 DEF ResumeLoop
<1>8. CASE ResumeBlock
  <2> USE <1>8 DEF ResumeBlock
  <2>1. TypeOK'
    <3>1. waiters' \in SUBSET Threads
      OBVIOUS
    <3> QED
      BY <3>1
  <2>2. EmuSide'
    OBVIOUS
  <2>3. UiSide'
    OBVIOUS
  <2>4. CallContext'
    OBVIOUS
  <2>5. RestartPending'
    OBVIOUS
  <2>6. AudioBracketed'
    OBVIOUS
  <2> QED
    BY <2>1, <2>2, <2>3, <2>4, <2>5, <2>6 DEF HandOverInv
<1>7. CASE ResumeWait
  BY <1>7 DEF ResumeWait
<1> QED
  BY <1>1, <1>2, <1>3, <1>4, <1>5, <1>6, <1>7, <1>8 DEF HandOverInv

(* The steps of the emulator thread preserve the invariant. *)
LEMMA EmuSteps ==
  ASSUME HandOverInv, EmuStep
  PROVE  HandOverInv'
<1> USE DEF HandOverInv, TypeOK, EmuSide, UiSide, CallContext, RestartPending,
             AudioBracketed, EmuGoto, Acquire, CondWait, Signal, SetTrack
<1>1. CASE Run
  BY <1>1 DEF Run
<1>2. CASE WaitLock
  BY <1>2 DEF WaitLock
<1>3. CASE WaitLoop
  <2> USE <1>3 DEF WaitLoop
  <2>1. TypeOK'
    <3>1. waiters' \in SUBSET Threads
      OBVIOUS
    <3> QED
      BY <3>1
  <2>2. EmuSide'
    OBVIOUS
  <2>3. UiSide'
    OBVIOUS
  <2>4. CallContext'
    OBVIOUS
  <2>5. RestartPending'
    OBVIOUS
  <2>6. AudioBracketed'
    OBVIOUS
  <2> QED
    BY <2>1, <2>2, <2>3, <2>4, <2>5, <2>6 DEF HandOverInv
<1>13. CASE WaitBlock
  <2> USE <1>13 DEF WaitBlock
  <2>1. TypeOK'
    <3>1. waiters' \in SUBSET Threads
      OBVIOUS
    <3> QED
      BY <3>1
  <2>2. EmuSide'
    OBVIOUS
  <2>3. UiSide'
    OBVIOUS
  <2>4. CallContext'
    OBVIOUS
  <2>5. RestartPending'
    OBVIOUS
  <2>6. AudioBracketed'
    OBVIOUS
  <2> QED
    BY <2>1, <2>2, <2>3, <2>4, <2>5, <2>6 DEF HandOverInv
<1>4. CASE WaitBlocked
  BY <1>4 DEF WaitBlocked
<1>5. CASE AudioStart
  BY <1>5 DEF AudioStart
<1>6. CASE TakeRestart
  BY <1>6 DEF TakeRestart
<1>7. CASE ClearRestart
  <2> USE <1>7 DEF ClearRestart
  <2>1. TypeOK'
    <3>1. resumeRestart' \in BOOLEAN /\ replaced' \in BOOLEAN
      OBVIOUS
    <3> QED
      BY <3>1
  <2>2. EmuSide'
    OBVIOUS
  <2>3. UiSide'
    OBVIOUS
  <2>4. CallContext'
    OBVIOUS
  <2>5. RestartPending'
    OBVIOUS
  <2>6. AudioBracketed'
    OBVIOUS
  <2> QED
    BY <2>1, <2>2, <2>3, <2>4, <2>5, <2>6 DEF HandOverInv
<1>8. CASE Guest
  BY <1>8 DEF Guest
<1>9. CASE CheckPaused
  BY <1>9 DEF CheckPaused
<1>10. CASE ParkLock
  BY <1>10 DEF ParkLock
<1>11. CASE Park
  <2> USE <1>11 DEF Park
  <2>1. TypeOK'
    <3>1. waiters' \in SUBSET Threads
      OBVIOUS
    <3> QED
      BY <3>1
  <2>2. EmuSide'
    OBVIOUS
  <2>3. UiSide'
    OBVIOUS
  <2>4. CallContext'
    OBVIOUS
  <2>5. RestartPending'
    OBVIOUS
  <2>6. AudioBracketed'
    OBVIOUS
  <2> QED
    BY <2>1, <2>2, <2>3, <2>4, <2>5, <2>6 DEF HandOverInv
<1>12. CASE Draw
  BY <1>12 DEF Draw
<1> QED
  BY <1>1, <1>2, <1>3, <1>4, <1>5, <1>6, <1>7, <1>8, <1>9, <1>10, <1>11, <1>12, <1>13
  DEF EmuStep

(* The start of a call preserves the invariant.                            *)
LEMMA BeginStep ==
  ASSUME HandOverInv, NEW op \in Ops, Begin(op)
  PROVE  HandOverInv'
<1> USE DEF HandOverInv, Begin, MayCall
<1>1. TypeOK' /\ EmuSide' /\ UiSide'
  BY DEF TypeOK, EmuSide, UiSide, CallContext
<1>2. CallContext'
  BY DEF TypeOK, CallContext, UiSide
<1>3. RestartPending' /\ AudioBracketed'
  BY DEF TypeOK, RestartPending, AudioBracketed, CallContext, UiSide
<1> QED
  BY <1>1, <1>2, <1>3

(* A thread that wakes unsignalled disturbs nothing but the wait set.      *)
LEMMA SpuriousStep ==
  ASSUME HandOverInv, NEW t \in Threads, SpuriousWakeup(t)
  PROVE  HandOverInv'
BY DEF HandOverInv, SpuriousWakeup, TypeOK, EmuSide, UiSide, CallContext,
       RestartPending, AudioBracketed

(* Every step of either thread preserves the invariant.                    *)
LEMMA NextPreserves == HandOverInv /\ [Next]_vars => HandOverInv'
<1> SUFFICES ASSUME HandOverInv, [Next]_vars PROVE HandOverInv'
  OBVIOUS
<1>1. CASE \E op \in Ops : Begin(op)
  BY <1>1, BeginStep
<1>2. CASE UiStep
  BY <1>2, PauseSteps, BodySteps, ResumeSteps DEF UiStep
<1>3. CASE EmuStep
  BY <1>3, EmuSteps
<1>4. CASE \E t \in Threads : SpuriousWakeup(t)
  BY <1>4, SpuriousStep
<1>5. CASE UNCHANGED vars
  BY <1>5 DEF HandOverInv, TypeOK, EmuSide, UiSide, CallContext, RestartPending,
              AudioBracketed
<1> QED
  BY <1>1, <1>2, <1>3, <1>4, <1>5 DEF Next

(* The hand-over state machine of emuState: for either value of StartRace, *)
(* each of its values belongs to one thread at one of a few statements, a  *)
(* replaced machine has a restart under way, and the track only plays      *)
(* between audioStart and the pause that parks the guest.                  *)
THEOREM HandOver == Spec => []HandOverInv
<1>1. Init => HandOverInv
  BY DEF Init, HandOverInv, TypeOK, EmuSide, UiSide, CallContext, RestartPending,
         AudioBracketed
<1> QED
  BY <1>1, NextPreserves, PTL DEF Spec

(* No JNI call works on the machine while the emulator thread does.        *)
THEOREM Ownership == Spec => []OneOwner
<1>1. HandOverInv => OneOwner
  BY DEF HandOverInv, TypeOK, EmuSide, UiSide, OneOwner, UiWorking, EmuWorking
<1> QED
  BY <1>1, HandOver, PTL

(* The emulator thread never draws or plays without a surface, a media     *)
(* peer and a game pak.                                                    *)
THEOREM ObjectsLive == Spec => []HostObjectsLive
<1>1. HandOverInv => HostObjectsLive
  BY DEF HandOverInv, TypeOK, EmuSide, CallContext, HostObjectsLive, EmuWorking
<1> QED
  BY <1>1, HandOver, PTL

(* No reset, state load or new game pak is run over from the middle of the *)
(* frame it interrupted.                                                   *)
THEOREM RestartsHonoured == Spec => []RestartHonoured
<1>1. HandOverInv => RestartHonoured
  BY DEF HandOverInv, RestartPending, RestartHonoured
<1> QED
  BY <1>1, HandOver, PTL

(* Between calls the guest runs exactly when it is wanted and can.         *)
THEOREM WantedRuns == Spec => []RunsExactlyWhenWanted
<1>1. HandOverInv => RunsExactlyWhenWanted
  BY DEF HandOverInv, TypeOK, UiSide, RunsExactlyWhenWanted
<1> QED
  BY <1>1, HandOver, PTL

(* Between calls a parked emulator is silent: no start of the AudioTrack   *)
(* by the emulator thread lands after the pause of the call that parked    *)
(* it (waitForStart, pauseEmulator, emulator.cpp).                         *)
THEOREM ParkedIsSilent == Spec => []SilentWhenParked
<1>1. HandOverInv => SilentWhenParked
  BY DEF HandOverInv, TypeOK, EmuSide, AudioBracketed, SilentWhenParked
<1> QED
  BY <1>1, HandOver, PTL

----------------------------------------------------------------------------
(* The mutex and the condition variable, made before the first call takes  *)
(* them.                                                                   *)

(* Beginning a call, and a wakeup out of nowhere.                          *)
LEMMA BeginWaits ==
  ASSUME HandOverInv, WaitInv, NEW op \in Ops, Begin(op)
  PROVE  WaitInv'
BY DEF HandOverInv, TypeOK, UiSide, WaitInv, MutexHeld, WakeupOwed, ThreadStarted,
       UiInside, EmuInside, Begin, MayCall

LEMMA SpuriousWaits ==
  ASSUME WaitInv, NEW t \in Threads, SpuriousWakeup(t)
  PROVE  WaitInv'
BY DEF WaitInv, MutexHeld, WakeupOwed, ThreadStarted, UiInside, EmuInside, SpuriousWakeup

(* The steps that take the mutex, give it up or signal.  Nobody signals    *)
(* between another thread's test and its wait: it would need the mutex.    *)
LEMMA PauseWaits ==
  ASSUME ~StartRace, HandOverInv, WaitInv,
         PauseLock \/ PauseTest \/ PauseLoop \/ PauseBlock \/ PauseWait
  PROVE  WaitInv'
<1> USE DEF HandOverInv, TypeOK, EmuSide, UiSide, CallContext, WaitInv, MutexHeld, WakeupOwed,
            ThreadStarted, UiInside, EmuInside, UiGoto, Acquire
<1>1. CASE PauseLock
  BY <1>1 DEF PauseLock, MutexUsable
<1>2. CASE PauseTest
  BY <1>2 DEF PauseTest
<1>3. CASE PauseLoop
  BY <1>3 DEF PauseLoop
<1>4. CASE PauseBlock
  BY <1>4 DEF PauseBlock, CondWait
<1>5. CASE PauseWait
  BY <1>5 DEF PauseWait
<1> QED
  BY <1>1, <1>2, <1>3, <1>4, <1>5

LEMMA ResumeWaits ==
  ASSUME ~StartRace, HandOverInv, WaitInv,
         ResumeLock \/ Request \/ ResumeLoop \/ ResumeBlock \/ ResumeWait
  PROVE  WaitInv'
<1> USE DEF HandOverInv, TypeOK, EmuSide, UiSide, CallContext, WaitInv, MutexHeld, WakeupOwed,
            ThreadStarted, UiInside, EmuInside, UiGoto, Acquire
<1>1. CASE ResumeLock
  BY <1>1 DEF ResumeLock, MutexUsable
<1>2. CASE Request
  BY <1>2 DEF Request, Signal
<1>3. CASE ResumeLoop
  BY <1>3 DEF ResumeLoop
<1>4. CASE ResumeBlock
  BY <1>4 DEF ResumeBlock, CondWait
<1>5. CASE ResumeWait
  BY <1>5 DEF ResumeWait
<1> QED
  BY <1>1, <1>2, <1>3, <1>4, <1>5

(* The other steps of a call leave mutex and wait set alone.               *)
LEMMA CallWaits ==
  ASSUME HandOverInv, WaitInv, PauseAudio \/ UiBody \/ RestartLoad \/ RestartStore \/ ResumeTest
  PROVE  WaitInv'
<1> USE DEF HandOverInv, TypeOK, CallContext, WaitInv, MutexHeld, WakeupOwed, ThreadStarted,
            UiInside, EmuInside, UiGoto
<1>1. CASE PauseAudio \/ RestartLoad \/ RestartStore \/ ResumeTest
  BY <1>1 DEF PauseAudio, RestartLoad, RestartStore, ResumeTest
<1>2. CASE InitializeBody
  BY <1>2 DEF InitializeBody, Body
<1>3. CASE UiBody /\ ~InitializeBody
  <2>1. UNCHANGED <<syncVars, emuVars>> /\ uiOp' = uiOp /\ ~UiInside /\ ~UiInside'
        /\ {uiPc, uiPc'} \cap {"pauseWait", "resumeWait"} = {}
    BY <1>3 DEF UiBody, UnloadROMBody, CleanUpBody, SetSurfaceBody, ClearSurfaceBody,
       SetOptionBody, LoadBIOSBody, ResetBody, LoadROMBody, LoadROMFail, LoadROMSucceed,
       PauseBody, SaveStateBody, LoadStateBody, Body
  <2>2. emuPc # "off"
    BY <1>3 DEF UiBody, UnloadROMBody, CleanUpBody, SetSurfaceBody, ClearSurfaceBody,
       SetOptionBody, LoadBIOSBody, ResetBody, LoadROMBody, LoadROMFail, LoadROMSucceed,
       PauseBody, SaveStateBody, LoadStateBody, Body
  <2> QED
    BY <2>1, <2>2
<1> QED
  BY <1>1, <1>2, <1>3

LEMMA EmuWaits ==
  ASSUME HandOverInv, WaitInv, EmuStep
  PROVE  WaitInv'
<1> USE DEF HandOverInv, TypeOK, EmuSide, UiSide, WaitInv, MutexHeld, WakeupOwed,
            ThreadStarted, UiInside, EmuInside, EmuGoto, Acquire
<1>1. CASE Run
  BY <1>1 DEF Run
<1>2. CASE WaitLock \/ WaitBlocked \/ ParkLock
  BY <1>2 DEF WaitLock, WaitBlocked, ParkLock
<1>3. CASE WaitLoop
  BY <1>3 DEF WaitLoop, Signal
<1>4. CASE WaitBlock
  BY <1>4 DEF WaitBlock, CondWait
<1>5. CASE Park
  BY <1>5 DEF Park, Signal
<1>6. CASE AudioStart \/ TakeRestart \/ ClearRestart \/ Guest \/ CheckPaused \/ Draw
  BY <1>6 DEF AudioStart, TakeRestart, ClearRestart, Guest, CheckPaused, Draw
<1> QED
  BY <1>1, <1>2, <1>3, <1>4, <1>5, <1>6 DEF EmuStep

(* The mutex belongs to whoever stands between its lock and its unlock,    *)
(* and a blocked thread waits for a change that is still to come, with its *)
(* signal: none is lost between a test and the wait that follows it.       *)
THEOREM WaitsEnd == ASSUME ~StartRace PROVE Spec => []WaitInv
<1>1. Init => WaitInv
  BY DEF Init, WaitInv, MutexHeld, WakeupOwed, ThreadStarted, UiInside, EmuInside
<1>2. HandOverInv /\ WaitInv /\ [Next]_vars => WaitInv'
  <2> SUFFICES ASSUME HandOverInv, WaitInv, [Next]_vars PROVE WaitInv'
    OBVIOUS
  <2>1. CASE \E op \in Ops : Begin(op)
    BY <2>1, BeginWaits
  <2>2. CASE UiStep
    BY <2>2, PauseWaits, CallWaits, ResumeWaits DEF UiStep
  <2>3. CASE EmuStep
    BY <2>3, EmuWaits
  <2>4. CASE \E t \in Threads : SpuriousWakeup(t)
    BY <2>4, SpuriousWaits
  <2>5. CASE UNCHANGED vars
    BY <2>5 DEF WaitInv, MutexHeld, WakeupOwed, ThreadStarted, UiInside, EmuInside
  <2> QED
    BY <2>1, <2>2, <2>3, <2>4, <2>5 DEF Next
<1> QED
  BY <1>1, <1>2, HandOver, PTL DEF Spec

(* The UI thread and the emulator thread never both wait: a JNI call that  *)
(* cannot go on is one that the emulator thread is on the way to release,  *)
(* and the other way round (pauseEmulator, resumeEmulator, waitForStart,   *)
(* check_paused).                                                          *)
THEOREM NoDeadlock == ASSUME ~StartRace PROVE Spec => []NobodyStuck
<1>1. HandOverInv /\ WaitInv => NobodyStuck
  <2> SUFFICES ASSUME HandOverInv, WaitInv, uiPc # "idle" \/ Runnable, ~UiCanGo
               PROVE  EmuCanGo
    BY DEF NobodyStuck
  <2> USE DEF HandOverInv, TypeOK, EmuSide, UiSide, CallContext, WaitInv, MutexHeld,
              WakeupOwed, ThreadStarted, UiInside, EmuInside
  <2>1. CASE uiPc = "idle"
    BY <2>1 DEF EmuCanGo
  <2>2. CASE uiPc \in {"pauseLock", "resumeLock"}
    BY <2>2 DEF UiCanGo, EmuCanGo, MutexUsable
  <2>3. CASE uiPc \in {"pauseWait", "resumeWait"}
    BY <2>3 DEF UiCanGo, EmuCanGo
  <2> QED
    BY <2>1, <2>2, <2>3 DEF UiCanGo
<1> QED
  BY <1>1, HandOver, WaitsEnd, PTL

(* Only one thread is ever between lock and unlock.                        *)
THEOREM MutexExcludes == ASSUME ~StartRace PROVE Spec => []MutualExclusion
<1>1. WaitInv => MutualExclusion
  BY DEF WaitInv, MutexHeld, MutualExclusion
<1> QED
  BY <1>1, WaitsEnd, PTL

----------------------------------------------------------------------------
(* The emulator thread's steps are steps of the contract.                  *)
LEMMA EmuImplements ==
  ASSUME HandOverInv, EmuStep
  PROVE  [Control!Next]_(Control!vars)
<1> USE DEF HandOverInv, TypeOK, EmuSide, CallContext, RestartPending,
             Control!Next, Control!vars, Control!Enter, Control!Leave, EmuGoto
<1>1. CASE ClearRestart
  BY <1>1 DEF ClearRestart
<1>2. CASE CheckPaused
  BY <1>2 DEF CheckPaused
<1>3. CASE Guest \/ Draw
  BY <1>3 DEF Guest, Draw
<1>4. CASE Run \/ WaitLock \/ WaitLoop \/ WaitBlock \/ WaitBlocked
  BY <1>4 DEF Run, WaitLock, WaitLoop, WaitBlock, WaitBlocked
<1>5. CASE AudioStart \/ TakeRestart \/ ParkLock \/ Park
  BY <1>5 DEF AudioStart, TakeRestart, ParkLock, Park
<1> QED
  BY <1>1, <1>2, <1>3, <1>4, <1>5 DEF EmuStep

(* So are the bodies of the calls: they happen while the host holds the    *)
(* machine.                                                                *)
LEMMA BodyImplements ==
  ASSUME HandOverInv, UiBody
  PROVE  [Control!Next]_(Control!vars)
<1>1. emuState = "PAUSED"
  <2>1. uiPc \in {"body", "load"}
    BY DEF UiBody, Body, InitializeBody, UnloadROMBody, CleanUpBody,
           SetSurfaceBody, ClearSurfaceBody, SetOptionBody, LoadBIOSBody,
           ResetBody, LoadROMBody, LoadROMFail, LoadROMSucceed, PauseBody,
           SaveStateBody, LoadStateBody
  <2> QED
    BY <2>1 DEF HandOverInv, UiSide
<1>2. emuPc \in ParkedPcs
  BY <1>1 DEF HandOverInv, EmuSide
<1>3. emuPc' \in ParkedPcs
  BY <1>2 DEF UiBody, Body, InitializeBody, UnloadROMBody, CleanUpBody,
           SetSurfaceBody, ClearSurfaceBody, SetOptionBody, LoadBIOSBody,
           ResetBody, LoadROMBody, LoadROMFail, LoadROMSucceed, PauseBody,
           SaveStateBody, LoadStateBody
<1>4. replaced' \in {replaced, TRUE}
  BY DEF HandOverInv, TypeOK, UiBody, InitializeBody, UnloadROMBody, CleanUpBody,
           SetSurfaceBody, ClearSurfaceBody, SetOptionBody, LoadBIOSBody,
           ResetBody, LoadROMBody, LoadROMFail, LoadROMSucceed, PauseBody,
           SaveStateBody, LoadStateBody
<1>5. (~replaced)' \in {~replaced, FALSE}
  <2>1. CASE replaced' = replaced
    BY <2>1, Zenon
  <2>2. CASE replaced' = TRUE
    <3>1. (~replaced)' = FALSE
      BY <2>2
    <3> QED
      BY <3>1, Zenon
  <2> QED
    BY <1>4, <2>1, <2>2, Zenon
<1>6. (renderSurface /\ media /\ romLoaded)' \in BOOLEAN
  BY Zenon
<1>7. Control!HostWork
  BY <1>2, <1>3, <1>5, <1>6, Zenon DEF Control!HostWork
<1> QED
  BY <1>7 DEF Control!Next

(* The other steps of the UI thread leave the contract's state alone.      *)
LEMMA OtherStepsStutter ==
  ASSUME HandOverInv,
         \/ \E op \in Ops : Begin(op)
         \/ UiStep /\ ~UiBody
         \/ \E t \in Threads : SpuriousWakeup(t)
         \/ UNCHANGED vars
  PROVE  UNCHANGED <<emuPc, renderSurface, media, romLoaded, replaced>>
BY DEF Begin, UiStep, SpuriousWakeup, PauseLock, PauseTest, PauseLoop, PauseBlock,
       PauseWait, PauseAudio, RestartLoad, RestartStore, ResumeTest, ResumeLock,
       Request, ResumeLoop, ResumeBlock, ResumeWait

(* The two-thread hand-over implements the contract MachineControl: one    *)
(* holder at a time, and a guest that only runs on a complete and current  *)
(* machine.                                                                *)
THEOREM Implements == Spec => ControlSpec
<1>1. Init => Control!Init
  BY DEF Init, Control!Init
<1>2. HandOverInv /\ [Next]_vars => [Control!Next]_(Control!vars)
  <2> SUFFICES ASSUME HandOverInv, [Next]_vars
               PROVE  [Control!Next]_(Control!vars)
    OBVIOUS
  <2>1. CASE EmuStep
    BY <2>1, EmuImplements
  <2>2. CASE UiBody
    BY <2>2, BodyImplements
  <2>3. CASE ~EmuStep /\ ~UiBody
    <3>1. UNCHANGED <<emuPc, renderSurface, media, romLoaded, replaced>>
      BY <2>3, OtherStepsStutter DEF Next
    <3> QED
      BY <3>1 DEF Control!vars
  <2> QED
    BY <2>1, <2>2, <2>3
<1> QED
  BY <1>1, <1>2, HandOver, PTL DEF Spec, ControlSpec, Control!Spec

==============================================================================
