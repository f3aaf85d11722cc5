------------------------------ MODULE EmuThread ------------------------------
(***************************************************************************)
(* The native host of the emulator (jni/android/emulator.cpp).             *)
(*                                                                         *)
(* Two threads share the emulated machine, the render surface and the      *)
(* media peer.  "ui" is the Android UI thread: it enters the library       *)
(* through the JNI calls of class Emulator, one call at a time.  "emu" is  *)
(* the thread that runs Emulator_run: it executes guest code and, once a   *)
(* frame, calls check_paused.  They hand the machine to each other through *)
(* emuState, guarded by one mutex and one condition variable; everything   *)
(* else (romLoaded, resumeRestart, media, ...) is shared without a lock.   *)
(*                                                                         *)
(* uiPc and emuPc name the statement a thread is about to execute.  A call *)
(* on the UI thread is pauseEmulator ; its own body ; resumeEmulator, each *)
(* part taken or not according to the call.                                *)
(*                                                                         *)
(* An operator named Mut... is a plausible wrong version of the definition *)
(* that follows it; nothing uses it except the sensitivity runs.           *)
(***************************************************************************)
EXTENDS FiniteSets

CONSTANT StartRace   \* TRUE: JNI calls may race with the pthread_*_init of
                     \* Emulator_run; FALSE: the emulator thread has run them
                     \* before the UI thread first takes the mutex

ASSUME StartRaceAssumption == StartRace \in BOOLEAN

VARIABLES
  emuState,        \* the hand-over state, under emuStateMutex
  lock,            \* the holder of emuStateMutex
  waiters,         \* the threads blocked on emuStateCond
  resumeRestart,   \* a restart is requested of the emulator thread
  resumeRequested, \* the activity wants the guest to run
  renderSurface,   \* a render surface is set
  romLoaded,       \* a game pak is loaded
  media,           \* the media peer exists (media != NULL)
  audioEnabled,    \* global_enable_audio
  track,           \* the AudioTrack behind the media peer
  uiOp,            \* the JNI call in progress
  uiPc,
  uiLoad,          \* the value loaded by the read half of resumeRestart |=
  emuPc,
  emuRv,           \* rv of waitForStart
  entered,         \* execute_arm_translate has been entered
  replaced         \* the machine was replaced since the emulator thread last
                   \* started from its registers (history)

hostVars == <<resumeRequested, renderSurface, romLoaded, media, audioEnabled>>
syncVars == <<emuState, lock, waiters>>
uiVars   == <<uiOp, uiPc, uiLoad>>
emuVars  == <<emuPc, emuRv, entered>>
vars     == <<syncVars, hostVars, uiVars, emuVars, resumeRestart, track, replaced>>

Threads     == {"ui", "emu"}
EmuStates   == {"RUNNING", "PAUSED", "REQUEST_PAUSE", "REQUEST_RUN"}
TrackStates == {"none", "stopped", "playing", "paused"}
Ops == {"initialize", "cleanUp", "setSurface", "clearSurface", "setOption",
        "loadBIOS", "reset", "loadROM", "unloadROM", "pause", "resume",
        "saveState", "loadState"}
UiPcs == {"idle", "pauseLock", "pauseTest", "pauseLoop", "pauseWait",
          "pauseBlock", "pauseAudio", "body", "load", "restartLoad",
          "restartStore", "resumeTest", "resumeLock", "request", "resumeLoop",
          "resumeBlock", "resumeWait"}
EmuPcs == {"off", "start", "waitLock", "waitLoop", "waitBlock", "waitBlocked",
           "audioStart", "takeRestart", "clearRestart", "guest", "checkPaused",
           "parkLock", "park", "draw"}

(* The calls that pause the guest first, those that only do so when a game *)
(* pak is loaded (they go through unloadROM), those that end in            *)
(* resumeEmulator, and those that pass it restart = 1.                     *)
MutPausingOps == {"setSurface", "reset", "pause", "saveState", "loadState"}

PausingOps   == {"setSurface", "clearSurface", "reset", "pause", "saveState",
                 "loadState"}
UnloadingOps == {"loadROM", "unloadROM", "cleanUp"}
RestartOps   == {"reset", "loadROM", "loadState"}

Init ==
  /\ emuState = "PAUSED"
  /\ lock = "none"
  /\ waiters = {}
  /\ resumeRestart = FALSE
  /\ resumeRequested = FALSE
  /\ renderSurface = FALSE
  /\ romLoaded = FALSE
  /\ media = FALSE
  /\ audioEnabled = TRUE
  /\ track = "none"
  /\ uiOp = "initialize"
  /\ uiPc = "idle"
  /\ uiLoad = FALSE
  /\ emuPc = "off"
  /\ emuRv = FALSE
  /\ entered = FALSE
  /\ replaced = FALSE

----------------------------------------------------------------------------
(* The mutex, the condition variable and the AudioTrack.                   *)

Acquire(t) == lock = "none" /\ lock' = t

(* pthread_cond_signal wakes one of the blocked threads, if there is one.  *)
Signal == IF waiters = {} THEN UNCHANGED waiters
          ELSE \E t \in waiters : waiters' = waiters \ {t}

(* pthread_cond_wait gives up the mutex and blocks, in one step.  The test *)
(* of the while around it is a step of its own: only the mutex keeps a     *)
(* signal from falling between the two.                                    *)
CondWait(t) == lock' = "none" /\ waiters' = waiters \cup {t}

(* POSIX lets a blocked thread return without a signal.                    *)
SpuriousWakeup(t) ==
  /\ t \in waiters
  /\ waiters' = waiters \ {t}
  /\ UNCHANGED <<emuState, lock, hostVars, uiVars, emuVars, resumeRestart,
                 track, replaced>>

(* EmuMedia.audioStart, audioPause and audioStop do nothing without a track. *)
SetTrack(s) == track' = IF track = "none" THEN "none" ELSE s

----------------------------------------------------------------------------
(* The UI thread: the start of a call.                                     *)

UiGoto(pc) == uiPc' = pc /\ UNCHANGED <<uiOp, uiLoad>>

(* Which calls the activity may make now.  It creates the peer only when   *)
(* it has none, drops it in onDestroy, and sets options and loads the BIOS *)
(* only between its own pause and resume; the view is handed the emulator  *)
(* after the first initialize and from then on reports its surface at any  *)
(* time.                                                                   *)
MayCall(op) ==
  CASE op = "initialize"                     -> ~media
    [] op \in {"setSurface", "clearSurface"} -> emuPc # "off"
    [] op \in {"setOption", "loadBIOS"}      -> media /\ ~resumeRequested
    [] OTHER                                 -> media

Begin(op) ==
  /\ uiPc = "idle"
  /\ MayCall(op)
  /\ uiOp' = op
  /\ uiPc' = IF op \in PausingOps \/ (op \in UnloadingOps /\ romLoaded)
               THEN "pauseLock"
             ELSE IF op = "resume" THEN "restartLoad" ELSE "body"
  /\ resumeRequested' = (resumeRequested \/ op = "resume")
  /\ UNCHANGED <<syncVars, renderSurface, romLoaded, media, audioEnabled,
                 uiLoad, emuVars, resumeRestart, track, replaced>>

(* pauseEmulator.                                                          *)

MutexUsable == StartRace \/ emuPc \notin {"off", "start"}

PauseLock ==
  /\ uiPc = "pauseLock"
  /\ MutexUsable
  /\ Acquire("ui")
  /\ UiGoto("pauseTest")
  /\ UNCHANGED <<emuState, waiters, hostVars, emuVars, resumeRestart, track,
                 replaced>>

PauseTest ==
  /\ uiPc = "pauseTest"
  /\ emuState' = IF emuState = "RUNNING" THEN "REQUEST_PAUSE" ELSE emuState
  /\ UiGoto("pauseLoop")
  /\ UNCHANGED <<lock, waiters, hostVars, emuVars, resumeRestart, track,
                 replaced>>

MutPauseLoop ==
  /\ uiPc = "pauseLoop"
  /\ lock' = "none"
  /\ UiGoto("pauseAudio")
  /\ UNCHANGED <<emuState, waiters, hostVars, emuVars, resumeRestart, track,
                 replaced>>

PauseLoop ==
  /\ uiPc = "pauseLoop"
  /\ \/ /\ emuState = "REQUEST_PAUSE"
        /\ UiGoto("pauseBlock")
        /\ UNCHANGED lock
     \/ /\ emuState # "REQUEST_PAUSE"
        /\ lock' = "none"
        /\ UiGoto("pauseAudio")
  /\ UNCHANGED <<emuState, waiters, hostVars, emuVars, resumeRestart, track,
                 replaced>>

PauseBlock ==
  /\ uiPc = "pauseBlock"
  /\ CondWait("ui")
  /\ UiGoto("pauseWait")
  /\ UNCHANGED <<emuState, hostVars, emuVars, resumeRestart, track, replaced>>

PauseWait ==
  /\ uiPc = "pauseWait"
  /\ "ui" \notin waiters
  /\ Acquire("ui")
  /\ UiGoto("pauseLoop")
  /\ UNCHANGED <<emuState, waiters, hostVars, emuVars, resumeRestart, track,
                 replaced>>

MutPauseAudio ==
  /\ uiPc = "pauseAudio"
  /\ IF uiOp = "pause" THEN SetTrack("paused") ELSE UNCHANGED track
  /\ UiGoto("body")
  /\ UNCHANGED <<syncVars, hostVars, emuVars, resumeRestart, replaced>>

PauseAudio ==
  /\ uiPc = "pauseAudio"
  /\ IF audioEnabled /\ media THEN SetTrack("paused") ELSE UNCHANGED track
  /\ UiGoto("body")
  /\ UNCHANGED <<syncVars, hostVars, emuVars, resumeRestart, replaced>>

----------------------------------------------------------------------------
(* The UI thread: the body of each call, between the pause and the resume. *)

Body(op, next) == uiPc = "body" /\ uiOp = op /\ UiGoto(next)

(* media = createEmuMedia(); the first activity then starts the thread.    *)
InitializeBody ==
  /\ Body("initialize", "idle")
  /\ media' = TRUE
  /\ resumeRequested' = FALSE
  /\ emuPc' = IF emuPc = "off" THEN "start" ELSE emuPc
  /\ UNCHANGED <<syncVars, renderSurface, romLoaded, audioEnabled, emuRv,
                 entered, resumeRestart, track, replaced>>

(* unloadROM stops the track and clears romLoaded, only if it was set.     *)
StopTrack == IF romLoaded THEN SetTrack("stopped") ELSE UNCHANGED track

UnloadROMBody ==
  /\ Body("unloadROM", "idle")
  /\ StopTrack
  /\ romLoaded' = FALSE
  /\ UNCHANGED <<syncVars, resumeRequested, renderSurface, media, audioEnabled,
                 emuVars, resumeRestart, replaced>>

CleanUpBody ==
  /\ Body("cleanUp", "idle")
  /\ romLoaded' = FALSE
  /\ media' = FALSE
  /\ track' = "none"
  /\ UNCHANGED <<syncVars, resumeRequested, renderSurface, audioEnabled,
                 emuVars, resumeRestart, replaced>>

MutSetSurfaceBody ==
  /\ Body("setSurface", "idle")
  /\ renderSurface' = TRUE
  /\ UNCHANGED <<syncVars, resumeRequested, romLoaded, media, audioEnabled,
                 emuVars, resumeRestart, track, replaced>>

SetSurfaceBody ==
  /\ Body("setSurface", "restartLoad")
  /\ renderSurface' = TRUE
  /\ UNCHANGED <<syncVars, resumeRequested, romLoaded, media, audioEnabled,
                 emuVars, resumeRestart, track, replaced>>

ClearSurfaceBody ==
  /\ Body("clearSurface", "idle")
  /\ renderSurface' = FALSE
  /\ UNCHANGED <<syncVars, resumeRequested, romLoaded, media, audioEnabled,
                 emuVars, resumeRestart, track, replaced>>

(* Only the option that the protocol reads, soundEnabled, is kept.         *)
SetOptionBody ==
  /\ Body("setOption", "idle")
  /\ \E enabled \in BOOLEAN : audioEnabled' = enabled
  /\ UNCHANGED <<syncVars, resumeRequested, renderSurface, romLoaded, media,
                 emuVars, resumeRestart, track, replaced>>

(* load_bios overwrites bios_rom without pausing the guest.                *)
LoadBIOSBody ==
  /\ Body("loadBIOS", "idle")
  /\ UNCHANGED <<syncVars, hostVars, emuVars, resumeRestart, track, replaced>>

ResetBody ==
  /\ Body("reset", "restartLoad")
  /\ replaced' = TRUE
  /\ UNCHANGED <<syncVars, hostVars, emuVars, resumeRestart, track>>

LoadROMBody ==
  /\ Body("loadROM", "load")
  /\ StopTrack
  /\ romLoaded' = FALSE
  /\ UNCHANGED <<syncVars, resumeRequested, renderSurface, media, audioEnabled,
                 emuVars, resumeRestart, replaced>>

(* load_gamepak fails, having overwritten some of the game pak or nothing  *)
(* of it, or succeeds and reset_gba follows; audioCreate keeps a track it  *)
(* has and may fail to make one.                                           *)
LoadROMFail ==
  /\ uiPc = "load"
  /\ UiGoto("idle")
  /\ \E touched \in BOOLEAN : replaced' = (replaced \/ touched)
  /\ UNCHANGED <<syncVars, hostVars, emuVars, resumeRestart, track>>

LoadROMSucceed ==
  /\ uiPc = "load"
  /\ UiGoto("restartLoad")
  /\ replaced' = TRUE
  /\ romLoaded' = TRUE
  /\ track' \in IF track # "none" THEN {track} ELSE {"none", "stopped"}
  /\ UNCHANGED <<syncVars, resumeRequested, renderSurface, media, audioEnabled,
                 emuVars, resumeRestart>>

PauseBody ==
  /\ Body("pause", "idle")
  /\ resumeRequested' = FALSE
  /\ UNCHANGED <<syncVars, renderSurface, romLoaded, media, audioEnabled,
                 emuVars, resumeRestart, track, replaced>>

SaveStateBody ==
  /\ Body("saveState", "restartLoad")
  /\ UNCHANGED <<syncVars, hostVars, emuVars, resumeRestart, track, replaced>>

(* load_state does nothing if the file cannot be opened.                   *)
LoadStateBody ==
  /\ Body("loadState", "restartLoad")
  /\ \E opened \in BOOLEAN : replaced' = (replaced \/ opened)
  /\ UNCHANGED <<syncVars, hostVars, emuVars, resumeRestart, track>>

----------------------------------------------------------------------------
(* resumeEmulator(restart).  resumeRestart |= restart is a load and a      *)
(* store, taken without the mutex.                                         *)

RestartLoad ==
  /\ uiPc = "restartLoad"
  /\ uiLoad' = resumeRestart
  /\ uiPc' = "restartStore"
  /\ UNCHANGED <<syncVars, hostVars, uiOp, emuVars, resumeRestart, track,
                 replaced>>

Runnable == resumeRequested /\ renderSurface /\ romLoaded

MutRestartStore ==
  /\ uiPc = "restartStore"
  /\ resumeRestart' = (uiLoad \/ (uiOp \in RestartOps /\ Runnable))
  /\ UiGoto("resumeTest")
  /\ UNCHANGED <<syncVars, hostVars, emuVars, track, replaced>>

RestartStore ==
  /\ uiPc = "restartStore"
  /\ resumeRestart' = (uiLoad \/ uiOp \in RestartOps)
  /\ UiGoto("resumeTest")
  /\ UNCHANGED <<syncVars, hostVars, emuVars, track, replaced>>

ResumeTest ==
  /\ uiPc = "resumeTest"
  /\ UiGoto(IF Runnable THEN "resumeLock" ELSE "idle")
  /\ UNCHANGED <<syncVars, hostVars, emuVars, resumeRestart, track, replaced>>

ResumeLock ==
  /\ uiPc = "resumeLock"
  /\ MutexUsable
  /\ Acquire("ui")
  /\ UiGoto("request")
  /\ UNCHANGED <<emuState, waiters, hostVars, emuVars, resumeRestart, track,
                 replaced>>

Request ==
  /\ uiPc = "request"
  /\ IF emuState = "PAUSED" THEN emuState' = "REQUEST_RUN" /\ Signal
     ELSE UNCHANGED <<emuState, waiters>>
  /\ UiGoto("resumeLoop")
  /\ UNCHANGED <<lock, hostVars, emuVars, resumeRestart, track, replaced>>

ResumeLoop ==
  /\ uiPc = "resumeLoop"
  /\ \/ /\ emuState = "REQUEST_RUN"
        /\ UiGoto("resumeBlock")
        /\ UNCHANGED lock
     \/ /\ emuState # "REQUEST_RUN"
        /\ lock' = "none"
        /\ UiGoto("idle")
  /\ UNCHANGED <<emuState, waiters, hostVars, emuVars, resumeRestart, track,
                 replaced>>

ResumeBlock ==
  /\ uiPc = "resumeBlock"
  /\ CondWait("ui")
  /\ UiGoto("resumeWait")
  /\ UNCHANGED <<emuState, hostVars, emuVars, resumeRestart, track, replaced>>

ResumeWait ==
  /\ uiPc = "resumeWait"
  /\ "ui" \notin waiters
  /\ Acquire("ui")
  /\ UiGoto("resumeLoop")
  /\ UNCHANGED <<emuState, waiters, hostVars, emuVars, resumeRestart, track,
                 replaced>>

----------------------------------------------------------------------------
(* The emulator thread.                                                    *)

EmuGoto(pc) == emuPc' = pc /\ UNCHANGED <<emuRv, entered>>

(* pthread_mutex_init frees the mutex whoever holds it; a thread already   *)
(* blocked on the condition variable stays blocked until the next signal.  *)
Run ==
  /\ emuPc = "start"
  /\ lock' = "none"
  /\ EmuGoto("waitLock")
  /\ UNCHANGED <<emuState, waiters, hostVars, uiVars, resumeRestart, track,
                 replaced>>

WaitLock ==
  /\ emuPc = "waitLock"
  /\ Acquire("emu")
  /\ EmuGoto("waitLoop")
  /\ UNCHANGED <<emuState, waiters, hostVars, uiVars, resumeRestart, track,
                 replaced>>

WaitLoop ==
  /\ emuPc = "waitLoop"
  /\ \/ /\ emuState = "PAUSED"
        /\ EmuGoto("waitBlock")
        /\ UNCHANGED syncVars
     \/ /\ emuState # "PAUSED"
        /\ lock' = "none"
        /\ EmuGoto("audioStart")
        /\ IF emuState = "REQUEST_RUN" THEN emuState' = "RUNNING" /\ Signal
           ELSE UNCHANGED <<emuState, waiters>>
  /\ UNCHANGED <<hostVars, uiVars, resumeRestart, track, replaced>>

WaitBlock ==
  /\ emuPc = "waitBlock"
  /\ CondWait("emu")
  /\ EmuGoto("waitBlocked")
  /\ UNCHANGED <<emuState, hostVars, uiVars, resumeRestart, track, replaced>>

WaitBlocked ==
  /\ emuPc = "waitBlocked"
  /\ "emu" \notin waiters
  /\ Acquire("emu")
  /\ EmuGoto("waitLoop")
  /\ UNCHANGED <<emuState, waiters, hostVars, uiVars, resumeRestart, track,
                 replaced>>

AudioStart ==
  /\ emuPc = "audioStart"
  /\ IF audioEnabled /\ media THEN SetTrack("playing") ELSE UNCHANGED track
  /\ EmuGoto("takeRestart")
  /\ UNCHANGED <<syncVars, hostVars, uiVars, resumeRestart, replaced>>

TakeRestart ==
  /\ emuPc = "takeRestart"
  /\ emuRv' = resumeRestart
  /\ emuPc' = "clearRestart"
  /\ UNCHANGED <<syncVars, hostVars, uiVars, entered, resumeRestart, track,
                 replaced>>

(* Emulator_run ignores rv and enters execute_arm_translate at REG_PC;     *)
(* update_gba leaves the frame it was in when check_paused returns rv # 0, *)
(* and finishes it (input, sound, screen) when it returns 0.               *)
ClearRestart ==
  /\ emuPc = "clearRestart"
  /\ resumeRestart' = FALSE
  /\ entered' = TRUE
  /\ LET restarts == emuRv \/ ~entered
     IN /\ emuPc' = IF restarts THEN "guest" ELSE "draw"
        /\ replaced' = (replaced /\ ~restarts)
  /\ UNCHANGED <<syncVars, hostVars, uiVars, emuRv, track>>

(* Guest code runs until line 228, the end of the frame.                   *)
Guest ==
  /\ emuPc = "guest"
  /\ EmuGoto("checkPaused")
  /\ UNCHANGED <<syncVars, hostVars, uiVars, resumeRestart, track, replaced>>

MutCheckPaused ==
  /\ emuPc = "checkPaused"
  /\ EmuGoto(IF emuState = "RUNNING" THEN "guest" ELSE "parkLock")
  /\ UNCHANGED <<syncVars, hostVars, uiVars, resumeRestart, track, replaced>>

(* check_paused reads emuState without the mutex.                          *)
CheckPaused ==
  /\ emuPc = "checkPaused"
  /\ EmuGoto(IF emuState = "RUNNING" THEN "draw" ELSE "parkLock")
  /\ UNCHANGED <<syncVars, hostVars, uiVars, resumeRestart, track, replaced>>

ParkLock ==
  /\ emuPc = "parkLock"
  /\ Acquire("emu")
  /\ EmuGoto("park")
  /\ UNCHANGED <<emuState, waiters, hostVars, uiVars, resumeRestart, track,
                 replaced>>

MutPark ==
  /\ emuPc = "park"
  /\ emuState' = IF emuState = "REQUEST_PAUSE" THEN "PAUSED" ELSE emuState
  /\ lock' = "none"
  /\ EmuGoto("waitLock")
  /\ UNCHANGED <<waiters, hostVars, uiVars, resumeRestart, track, replaced>>

Park ==
  /\ emuPc = "park"
  /\ IF emuState = "REQUEST_PAUSE" THEN emuState' = "PAUSED" /\ Signal
     ELSE UNCHANGED <<emuState, waiters>>
  /\ lock' = "none"
  /\ EmuGoto("waitLock")
  /\ UNCHANGED <<hostVars, uiVars, resumeRestart, track, replaced>>

(* The rest of the frame: flip_screen hands the image to renderSurface.    *)
Draw ==
  /\ emuPc = "draw"
  /\ EmuGoto("guest")
  /\ UNCHANGED <<syncVars, hostVars, uiVars, resumeRestart, track, replaced>>

----------------------------------------------------------------------------
UiBody ==
  \/ InitializeBody \/ UnloadROMBody \/ CleanUpBody \/ SetSurfaceBody
  \/ ClearSurfaceBody \/ SetOptionBody \/ LoadBIOSBody \/ ResetBody
  \/ LoadROMBody \/ LoadROMFail \/ LoadROMSucceed \/ PauseBody
  \/ SaveStateBody \/ LoadStateBody

(* A step of the call in progress.                                         *)
UiStep ==
  \/ PauseLock \/ PauseTest \/ PauseLoop \/ PauseBlock \/ PauseWait \/ PauseAudio
  \/ UiBody
  \/ RestartLoad \/ RestartStore \/ ResumeTest
  \/ ResumeLock \/ Request \/ ResumeLoop \/ ResumeBlock \/ ResumeWait

EmuStep ==
  \/ Run \/ WaitLock \/ WaitLoop \/ WaitBlock \/ WaitBlocked \/ AudioStart
  \/ TakeRestart \/ ClearRestart \/ Guest \/ CheckPaused \/ ParkLock \/ Park \/ Draw

Next ==
  \/ \E op \in Ops : Begin(op)
  \/ UiStep
  \/ EmuStep
  \/ \E t \in Threads : SpuriousWakeup(t)

UiAcquire  == PauseLock \/ PauseWait \/ ResumeLock \/ ResumeWait
EmuAcquire == WaitLock \/ WaitBlocked \/ ParkLock

(* Both threads are scheduled and the mutex does not pass over one of them *)
(* for ever (the other may take it again and again, woken spuriously);     *)
(* nobody is obliged to make a call, and no wakeup is counted on that a    *)
(* signal did not cause.                                                   *)
Fairness ==
  /\ WF_vars(UiStep)  /\ SF_vars(UiAcquire)
  /\ WF_vars(EmuStep) /\ SF_vars(EmuAcquire)

Spec == Init /\ [][Next]_vars /\ Fairness

----------------------------------------------------------------------------
(* emuState, the locks and both threads' positions keep their types.       *)
TypeOK ==
  /\ emuState \in EmuStates
  /\ lock \in Threads \cup {"none"}
  /\ waiters \in SUBSET Threads
  /\ resumeRestart \in BOOLEAN
  /\ resumeRequested \in BOOLEAN
  /\ renderSurface \in BOOLEAN
  /\ romLoaded \in BOOLEAN
  /\ media \in BOOLEAN
  /\ audioEnabled \in BOOLEAN
  /\ track \in TrackStates
  /\ uiOp \in Ops
  /\ uiPc \in UiPcs
  /\ uiLoad \in BOOLEAN
  /\ emuPc \in EmuPcs
  /\ emuRv \in BOOLEAN
  /\ entered \in BOOLEAN
  /\ replaced \in BOOLEAN

(* Where the UI thread works on the machine or on what the emulator thread *)
(* uses, and where the emulator thread does.                               *)
UiWorking  == uiPc \in {"body", "load"}
EmuWorking == emuPc \in {"audioStart", "takeRestart", "clearRestart", "guest",
                         "checkPaused", "draw"}

(* While a JNI call resets, loads, saves or swaps what the guest uses, the *)
(* emulator thread is parked (emulator.cpp: every such call is bracketed by *)
(* pauseEmulator and resumeEmulator, except those the activity only makes  *)
(* while the guest is not to run).                                         *)
OneOwner == UiWorking => ~EmuWorking

(* The emulator thread only draws and plays with a surface, a media peer   *)
(* and a game pak in place (flip_screen and render_audio use them without  *)
(* the mutex).                                                             *)
HostObjectsLive == EmuWorking => renderSurface /\ media /\ romLoaded

(* A reset, a loaded state or a new game pak is never run on from the      *)
(* middle of the old frame: between the replacement and the next guest     *)
(* step the emulator thread has taken a restart (resumeRestart is written  *)
(* outside the mutex and survives every early return of resumeEmulator).   *)
RestartHonoured == emuPc \in {"guest", "draw"} => ~replaced

(* Between calls the guest runs exactly when the activity wants it to, a   *)
(* surface is there and a game pak is loaded.                              *)
RunsExactlyWhenWanted == uiPc = "idle" => (emuState = "RUNNING" <=> Runnable)

(* Between calls a parked emulator makes no sound: audioStart on the       *)
(* emulator thread never lands after the audioPause of the call that       *)
(* parked it.                                                              *)
SilentWhenParked == uiPc = "idle" /\ emuState = "PAUSED" => track # "playing"

(* Where a thread has the mutex, and whether its next step can be taken.   *)
UiInside  == uiPc \in {"pauseTest", "pauseLoop", "pauseBlock", "request",
                       "resumeLoop", "resumeBlock"}
EmuInside == emuPc \in {"waitLoop", "waitBlock", "park"}

UiCanGo ==
  /\ uiPc # "idle"
  /\ uiPc \in {"pauseLock", "resumeLock"} => MutexUsable
  /\ uiPc \in {"pauseLock", "pauseWait", "resumeLock", "resumeWait"} =>
       lock = "none" /\ "ui" \notin waiters

EmuCanGo ==
  /\ emuPc # "off"
  /\ emuPc \in {"waitLock", "waitBlocked", "parkLock"} =>
       lock = "none" /\ "emu" \notin waiters

(* The two threads never wait for each other: while a call is in progress  *)
(* or the guest is wanted, one of them can go on without a wakeup that     *)
(* nobody signalled.                                                       *)
NobodyStuck == uiPc # "idle" \/ Runnable => UiCanGo \/ EmuCanGo

----------------------------------------------------------------------------
(* The inductive invariant behind the safety properties.  It does not      *)
(* mention the mutex: each value of emuState belongs to one thread, and    *)
(* only that thread moves on from it.                                      *)

ParkedPcs == {"off", "start", "waitLock", "waitLoop", "waitBlock", "waitBlocked"}
PausePcs  == {"pauseLock", "pauseTest", "pauseLoop", "pauseBlock", "pauseWait",
              "pauseAudio"}
ResumePcs == {"restartLoad", "restartStore", "resumeTest", "resumeLock", "request"}

(* Where the emulator thread is, by emuState.                              *)
EmuSide ==
  /\ emuState \in {"PAUSED", "REQUEST_RUN"} <=> emuPc \in ParkedPcs
  /\ emuPc \in {"parkLock", "park"} => emuState = "REQUEST_PAUSE"

(* Where the UI thread is, by emuState.                                    *)
UiSide ==
  /\ uiPc \in {"idle", "pauseLock", "pauseTest"} =>
       emuState = IF Runnable THEN "RUNNING" ELSE "PAUSED"
  /\ uiPc \in {"pauseLoop", "pauseBlock", "pauseWait"} =>
       emuState \in {"REQUEST_PAUSE", "PAUSED"}
  /\ uiPc \in {"pauseAudio", "body", "load"} => emuState = "PAUSED"
  /\ uiPc \in ResumePcs =>
       emuState = "PAUSED" \/ (uiOp = "resume" /\ emuState = "RUNNING")
  /\ uiPc \in {"resumeLoop", "resumeBlock", "resumeWait"} =>
       emuState \in {"REQUEST_RUN", "RUNNING"}

(* What holds of the shared objects during a call.                         *)
CallContext ==
  /\ romLoaded => media
  /\ emuState # "PAUSED" => Runnable
  /\ uiPc \in {"resumeLock", "request"} => Runnable
  /\ uiPc = "load" => uiOp = "loadROM" /\ ~romLoaded
  /\ uiPc \in PausePcs => uiOp \in PausingOps \cup UnloadingOps
  /\ uiPc # "idle" /\ uiOp = "loadROM" => media
  /\ uiPc = "body" /\ uiOp \in {"setOption", "loadBIOS"} => ~resumeRequested

(* A replaced machine always has a restart on its way to the guest.        *)
RestartPending ==
  /\ replaced /\ romLoaded =>
       \/ uiPc \in {"restartLoad", "restartStore"} /\ uiOp \in RestartOps
       \/ resumeRestart
       \/ emuPc = "clearRestart" /\ emuRv
  /\ uiPc = "restartStore" /\ resumeRestart => uiLoad
  /\ emuPc \in {"clearRestart"} /\ replaced => emuRv
  /\ emuPc \in {"guest", "checkPaused", "parkLock", "park", "draw"} => ~replaced

(* The track only plays from audioStart to the pause that parks the guest. *)
AudioBracketed ==
  /\ track = "playing" => media /\ audioEnabled
  /\ track = "playing" =>
       \/ emuPc \notin ParkedPcs
       \/ uiPc \in {"pauseLoop", "pauseBlock", "pauseWait", "pauseAudio"}

HandOverInv ==
  TypeOK /\ EmuSide /\ UiSide /\ CallContext /\ RestartPending /\ AudioBracketed

(* Why nobody gets stuck, once Emulator_run has made the mutex.  Who has   *)
(* the mutex is on the way to give it up; who is about to block, or is     *)
(* blocked, waits for what the other thread has yet to do and will signal; *)
(* and no call waits for a thread that was never started.                  *)
MutexHeld ==
  /\ lock = "ui"  <=> UiInside
  /\ lock = "emu" <=> EmuInside
  /\ UiInside \/ uiPc \in {"pauseWait", "resumeWait"} => emuPc \notin {"off", "start"}

WakeupOwed ==
  /\ uiPc = "pauseBlock"  => emuState = "REQUEST_PAUSE"
  /\ uiPc = "resumeBlock" => emuState = "REQUEST_RUN"
  /\ emuPc = "waitBlock"  => emuState = "PAUSED"
  /\ "emu" \in waiters => emuPc = "waitBlocked" /\ emuState = "PAUSED"
  /\ "ui" \in waiters =>
       \/ uiPc = "pauseWait" /\ emuState = "REQUEST_PAUSE"
       \/ uiPc = "resumeWait" /\ emuState = "REQUEST_RUN"

ThreadStarted ==
  emuPc = "off" => ~media /\ uiOp = "initialize" /\ uiPc \in {"idle", "body"}

WaitInv == MutexHeld /\ WakeupOwed /\ ThreadStarted

MutualExclusion == ~(UiInside /\ EmuInside)

----------------------------------------------------------------------------
(* The contract, MachineControl: who holds the machine, whether the guest  *)
(* has what it needs to run, and whether it has seen the last replacement. *)
Control == INSTANCE MachineControl WITH
  holder <- IF emuPc \in {"guest", "checkPaused", "draw"} THEN "guest" ELSE "host",
  ready  <- renderSurface /\ media /\ romLoaded,
  fresh  <- ~replaced

(* The two-thread protocol implements the contract.                        *)
ControlSpec == Control!Spec

(* Every JNI call returns.                                                 *)
CallsReturn == (uiPc # "idle") ~> (uiPc = "idle")

(* A guest that may run, runs: frames keep ending until the next call.     *)
FramesFlow == (uiPc = "idle" /\ Runnable) ~> (emuPc = "draw" \/ uiPc # "idle")
==============================================================================
