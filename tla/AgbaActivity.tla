---------------------------- MODULE AgbaActivity ----------------------------
(***************************************************************************)
(* The activity (Agba.java): when it tells the emulator to run.  Everything *)
(* that must stop the game, the menu, a dialog, the activity's own pause,  *)
(* takes one from resumeRequested and gives it back; the window's focus    *)
(* tells the emulator to pause and to resume as well, without counting.    *)
(* The counter and the emulator are static: they outlive an activity that  *)
(* is recreated, and an activity that is finished may be destroyed after   *)
(* its successor was created.                                              *)
(*                                                                         *)
(* Android's part (life cycle, focus, managed dialogs) is here as far as   *)
(* Agba.java relies on it.  Left out: keys (module KeyInput), settings, the *)
(* views, an Emulator that fails to initialize, the update dialog.         *)
(***************************************************************************)
EXTENDS Integers

CONSTANTS
  MaxSurplus,   \* bound: purchase dialogs cancelled, holders orphaned
  NONE

ASSUME BoundAssumption == MaxSurplus \in Nat

VARIABLES
  emulator,          \* the static Emulator is there
  resumeRequested,   \* the static counter
  asked,             \* the emulator was last told to run (its own
                     \* resumeRequested, emulator.cpp)
  romLoaded,         \* it has a game (emulator.cpp)
  lastRunningGame,   \* in the preferences
  life,              \* of the activity
  former,            \* a finished activity is still to be destroyed
  finishing,         \* isFinishing()
  hasFocus,          \* as last told by onWindowFocusChanged
  isMenuShowing,
  dialog,            \* the one that is open
  managed,           \* the managed dialogs that were ever shown (mManagedDialogs)
  child,             \* the activity that was started for a result
  currentGame,       \* there is a name in it
  saved,             \* the instance state: a game's name, the managed dialogs
                     \* and which of them is open
  surplus,           \* purchase dialogs cancelled (history)
  orphans,           \* holds that no dialog on the screen gives back: of one
                     \* whose activity was destroyed, of one that was
                     \* prepared to be restored and not shown (history)
  nameOnly           \* a game's name was taken without its ROM (history)

statics  == <<emulator, resumeRequested, asked>>
machine  == <<romLoaded, lastRunningGame>>
windows  == <<hasFocus, isMenuShowing, dialog, child>>
activity == <<life, finishing, managed>>
history  == <<surplus, orphans, nameOnly>>
vars     == <<statics, machine, windows, activity, currentGame, former, saved, history>>

Lives    == {"none", "created", "resumed", "paused", "stopped"}
Managed  == {"QUIT_GAME", "SAVE_STATE", "UPGRADE"}
Dialogs  == Managed \cup {"BIOS"}
Children == {"ROM", "BIOS", "SETTINGS"}
Bundles  ==
  {b \in [game : BOOLEAN, managed : SUBSET Managed, dialog : Managed \cup {NONE}] :
     b.dialog # NONE => b.dialog \in b.managed}
NoBundle == [game |-> FALSE, managed |-> {}, dialog |-> NONE]

ASSUME NoneAssumption == NONE \notin Dialogs \cup Children \cup Bundles

Init ==
  /\ emulator = FALSE
  /\ resumeRequested = 0
  /\ asked = FALSE
  /\ romLoaded = FALSE
  /\ lastRunningGame = FALSE
  /\ life = "none"
  /\ former = FALSE
  /\ finishing = FALSE
  /\ hasFocus = FALSE
  /\ isMenuShowing = FALSE
  /\ dialog = NONE
  /\ managed = {}
  /\ child = NONE
  /\ currentGame = FALSE
  /\ saved = NONE
  /\ surplus = 0
  /\ orphans = 0
  /\ nameOnly = FALSE

----------------------------------------------------------------------------
(* The counter.                                                            *)

Now == [count |-> resumeRequested, run |-> asked]

(* Mutants: the counter tested after its change instead of before, and     *)
(* before instead of after.                                                *)
MutResumed(s) == [count |-> s.count + 1, run |-> s.run \/ s.count = -1]
MutPaused(s)  == [count |-> s.count - 1, run |-> s.run /\ s.count # 0]

(* resumeEmulator, pauseEmulator.                                          *)
Resumed(s) == [count |-> s.count + 1, run |-> s.run \/ s.count = 0]

Paused(s)  == [count |-> s.count - 1, run |-> s.run /\ s.count # 1]

Tell(s) == resumeRequested' = s.count /\ asked' = s.run

(* loadGlobalSettings.                                                     *)
Refreshed(s) == Resumed(Paused(s))

(* What onPrepareDialog does for a dialog that is shown ...                *)
Holds(id)       == id \in {"QUIT_GAME", "SAVE_STATE"}
Prepared(id, s) == IF Holds(id) THEN Paused(s) ELSE s

(* ... and for those that Android restores, shown or not.                  *)
Restored(ids, s) ==
  LET quit == IF "QUIT_GAME" \in ids THEN Paused(s) ELSE s
  IN IF "SAVE_STATE" \in ids THEN Paused(quit) ELSE quit

One(p)      == IF p THEN 1 ELSE 0
Phantoms(b) == One("QUIT_GAME" \in b.managed \ {b.dialog})
               + One("SAVE_STATE" \in b.managed \ {b.dialog})

Alive  == emulator /\ life # "none"
Facing == Alive /\ life = "resumed" /\ ~finishing
(* The activity's own window is in front.                                  *)
InFront == Facing /\ ~isMenuShowing /\ dialog = NONE /\ child = NONE

----------------------------------------------------------------------------
(* The life cycle.                                                         *)

(* Mutant: the name is taken when the load failed with a prompt, too.      *)
MutLoadROM(ok, failPrompt) ==
  /\ romLoaded' = ok
  /\ currentGame' = TRUE
  /\ nameOnly' = (~ok /\ ~failPrompt)

(* loadROM, with a ROM that loads or not.                                  *)
LoadROM(ok, failPrompt) ==
  /\ romLoaded' = ok
  /\ currentGame' = (ok \/ ~failPrompt)
  /\ nameOnly' = (~ok /\ ~failPrompt)

(* onCreate and, when there is an instance state, what Android restores:   *)
(* it prepares every managed dialog, and shows the one that was open.  The *)
(* BIOS does not disappear while a dialog waits to be restored.            *)
Create(bios, stateFile, ok) ==
  LET initial == IF emulator THEN Now ELSE [Now EXCEPT !.run = FALSE]
      bundle  == IF saved = NONE THEN NoBundle ELSE saved
      revive  == bios /\ lastRunningGame /\ stateFile
  IN /\ life = "none"
     /\ bundle.dialog # NONE => bios
     /\ life' = "created"
     /\ emulator' = TRUE
     /\ Tell(Restored(bundle.managed, Refreshed(initial)))
     /\ lastRunningGame' = (lastRunningGame /\ ~bios)
     /\ IF revive
          THEN romLoaded' = ok /\ currentGame' = TRUE /\ nameOnly' = ~ok
          ELSE /\ currentGame' = bundle.game
               /\ nameOnly' = (bundle.game /\ ~romLoaded)
               /\ UNCHANGED romLoaded
     /\ dialog' = IF bios THEN bundle.dialog ELSE "BIOS"
     /\ managed' = bundle.managed
     /\ orphans' = orphans + Phantoms(bundle)
     /\ saved' = NONE
     /\ finishing' = FALSE
     /\ hasFocus' = FALSE
     /\ isMenuShowing' = FALSE
     /\ UNCHANGED <<child, former, surplus>>

OnResume ==
  /\ Alive
  /\ ~finishing
  /\ child = NONE
  /\ life \in {"created", "paused", "stopped"}
  /\ life' = "resumed"
  /\ Tell(Resumed(Now))
  /\ UNCHANGED <<emulator, machine, windows, finishing, managed, currentGame, former, saved, history>>

OnPause ==
  /\ Alive
  /\ life = "resumed"
  /\ life' = "paused"
  /\ Tell(Paused(Now))
  /\ UNCHANGED <<emulator, machine, windows, finishing, managed, currentGame, former, saved, history>>

(* onStop; Android closes the options menu.                                *)
OnStop ==
  /\ Alive
  /\ life = "paused"
  /\ life' = "stopped"
  /\ isMenuShowing' = FALSE
  /\ IF isMenuShowing THEN Tell(Resumed(Now)) ELSE UNCHANGED <<resumeRequested, asked>>
  /\ UNCHANGED <<emulator, machine, hasFocus, dialog, child, finishing, managed, currentGame,
                 former, saved, history>>

(* A dialog that is closed for good by its activity's end has taken one    *)
(* from the counter and does not give it back.                             *)
OrphansLeft == orphans + One(Holds(dialog))

(* onSaveInstanceState, and the dialogs that Android saves with it: all it *)
(* manages, for the activity never calls removeDialog.                     *)
InstanceState ==
  [game |-> currentGame, managed |-> managed,
   dialog |-> IF dialog \in Managed THEN dialog ELSE NONE]

Gone ==
  /\ life' = "none"
  /\ finishing' = FALSE
  /\ hasFocus' = FALSE
  /\ isMenuShowing' = FALSE
  /\ dialog' = NONE
  /\ managed' = {}
  /\ currentGame' = FALSE
  /\ nameOnly' = FALSE

(* Destroyed to be created again, of another configuration.                *)
Recreate ==
  /\ Alive
  /\ life = "stopped"
  /\ ~finishing
  /\ OrphansLeft <= MaxSurplus
  /\ Gone
  /\ saved' = InstanceState
  /\ orphans' = OrphansLeft
  /\ UNCHANGED <<statics, machine, child, former, surplus>>

(* After finish() the activity leaves the screen, and is destroyed some    *)
(* time later.                                                             *)
Retire ==
  /\ Alive
  /\ finishing
  /\ life \in {"paused", "stopped"}
  /\ ~isMenuShowing
  /\ ~former
  /\ Gone
  /\ former' = TRUE
  /\ child' = NONE
  /\ saved' = NONE
  /\ UNCHANGED <<statics, machine, surplus, orphans>>

(* onDestroy of an activity that is finishing.                             *)
OnDestroy ==
  /\ former
  /\ former' = FALSE
  /\ emulator' = FALSE
  /\ resumeRequested' = 0
  /\ romLoaded' = FALSE
  /\ surplus' = 0
  /\ orphans' = 0
  /\ UNCHANGED <<asked, lastRunningGame, windows, activity, currentGame, saved, nameOnly>>

(* The process ends: in the background, when Android wants its memory ...  *)
ProcessEnds ==
  /\ Gone
  /\ emulator' = FALSE
  /\ resumeRequested' = 0
  /\ asked' = FALSE
  /\ romLoaded' = FALSE
  /\ former' = FALSE
  /\ surplus' = 0
  /\ orphans' = 0
  /\ UNCHANGED lastRunningGame

Kill ==
  /\ life = "stopped"
  /\ ~finishing
  /\ saved' = InstanceState
  /\ UNCHANGED child
  /\ ProcessEnds

(* ... or by an exception: the predecessor's onDestroy took the emulator   *)
(* from the running activity.                                              *)
Crash ==
  /\ life # "none"
  /\ ~emulator
  /\ saved' = NONE
  /\ child' = NONE
  /\ ProcessEnds

----------------------------------------------------------------------------
(* Focus.                                                                  *)

FocusGained ==
  /\ InFront
  /\ ~hasFocus
  /\ hasFocus' = TRUE
  /\ asked' = TRUE
  /\ UNCHANGED <<emulator, resumeRequested, machine, isMenuShowing, dialog, child, activity,
                 currentGame,
                 former, saved, history>>

FocusLost ==
  /\ Alive
  /\ hasFocus
  /\ ~InFront
  /\ hasFocus' = FALSE
  /\ asked' = FALSE
  /\ UNCHANGED <<emulator, resumeRequested, machine, isMenuShowing, dialog, child, activity,
                 currentGame,
                 former, saved, history>>

----------------------------------------------------------------------------
(* The user.                                                               *)

Reached == InFront /\ hasFocus

OpenMenu ==
  /\ Reached
  /\ isMenuShowing' = TRUE
  /\ Tell(Paused(Now))
  /\ UNCHANGED <<emulator, machine, hasFocus, dialog, child, activity, currentGame, former,
                 saved, history>>

CloseMenu ==
  /\ Facing
  /\ isMenuShowing
  /\ isMenuShowing' = FALSE
  /\ Tell(Resumed(Now))
  /\ UNCHANGED <<emulator, machine, hasFocus, dialog, child, activity, currentGame, former,
                 saved, history>>

(* onOptionsItemSelected: an item that opens a dialog, or another activity *)
(* or none.                                                                *)
Select(id, started) ==
  /\ Facing
  /\ isMenuShowing
  /\ isMenuShowing' = FALSE
  /\ dialog' = id
  /\ managed' = managed \cup ({id} \ {NONE})
  /\ child' = started
  /\ Tell(Prepared(id, Resumed(Now)))
  /\ UNCHANGED <<emulator, hasFocus, life, former, saved, surplus, orphans>>

SelectOther ==
  /\ \E started \in {"ROM", "SETTINGS", NONE} : Select(NONE, started)
  /\ UNCHANGED <<machine, finishing, currentGame, nameOnly>>

SelectState ==
  /\ currentGame
  /\ \E id \in {"SAVE_STATE", "UPGRADE"} : Select(id, NONE)
  /\ UNCHANGED <<machine, finishing, currentGame, nameOnly>>

SelectClose ==
  /\ currentGame
  /\ Select(NONE, NONE)
  /\ romLoaded' = FALSE
  /\ currentGame' = FALSE
  /\ nameOnly' = FALSE
  /\ UNCHANGED <<lastRunningGame, finishing>>

SelectQuit ==
  /\ Select(NONE, NONE)
  /\ finishing' = TRUE
  /\ UNCHANGED <<machine, currentGame, nameOnly>>

BackKey ==
  /\ Reached
  /\ IF currentGame
       THEN /\ dialog' = "QUIT_GAME" /\ managed' = managed \cup {"QUIT_GAME"}
            /\ Tell(Paused(Now))
            /\ UNCHANGED finishing
       ELSE finishing' = TRUE /\ UNCHANGED <<dialog, managed, resumeRequested, asked>>
  /\ UNCHANGED <<emulator, machine, hasFocus, isMenuShowing, child, life, currentGame, former,
                 saved, history>>

(* The quick keys make a file name of the game's: of null, without one.    *)
QuickKey ==
  /\ Reached
  /\ ~currentGame
  /\ saved' = NONE
  /\ child' = NONE
  /\ ProcessEnds

DialogEnds(id) ==
  /\ Facing
  /\ dialog = id
  /\ dialog' = NONE
  /\ UNCHANGED <<emulator, hasFocus, isMenuShowing, life, managed, former, saved, nameOnly>>

Cancel(id) ==
  /\ DialogEnds(id)
  /\ Tell(Resumed(Now))
  /\ IF id = "UPGRADE" THEN surplus < MaxSurplus /\ surplus' = surplus + 1 ELSE UNCHANGED surplus
  /\ UNCHANGED <<machine, child, finishing, currentGame, orphans>>

(* Mutant: resumeEmulator forgotten in the listener.                       *)
MutSaveSlot ==
  /\ DialogEnds("SAVE_STATE")
  /\ UNCHANGED <<resumeRequested, asked, machine, child, finishing, currentGame, surplus,
                 orphans>>

SaveSlot ==
  /\ DialogEnds("SAVE_STATE")
  /\ Tell(Resumed(Now))
  /\ UNCHANGED <<machine, child, finishing, currentGame, surplus, orphans>>

(* It leads to the store.                                                  *)
Upgrade ==
  /\ DialogEnds("UPGRADE")
  /\ UNCHANGED <<resumeRequested, asked, machine, child, finishing, currentGame, surplus,
                 orphans>>

QuitToOther ==
  /\ DialogEnds("QUIT_GAME")
  /\ Tell(Resumed(Now))
  /\ child' = "ROM"
  /\ UNCHANGED <<machine, finishing, currentGame, surplus, orphans>>

QuitGame(remember) ==
  /\ DialogEnds("QUIT_GAME")
  /\ orphans < MaxSurplus
  /\ lastRunningGame' = (lastRunningGame \/ remember)
  /\ finishing' = TRUE
  /\ orphans' = orphans + 1
  /\ UNCHANGED <<resumeRequested, asked, romLoaded, child, currentGame, surplus>>

BiosDialog(browse) ==
  /\ DialogEnds("BIOS")
  /\ IF browse THEN child' = "BIOS" /\ UNCHANGED finishing ELSE finishing' = TRUE /\ UNCHANGED child
  /\ UNCHANGED <<resumeRequested, asked, machine, currentGame, surplus, orphans>>

(* onActivityResult, before onResume.                                      *)
Result(chosen, ok) ==
  /\ Alive
  /\ ~finishing
  /\ child # NONE
  /\ life \in {"created", "paused", "stopped"}
  /\ child' = NONE
  /\ IF child = "SETTINGS" THEN Tell(Refreshed(Now)) ELSE UNCHANGED <<resumeRequested, asked>>
  /\ IF child = "ROM" /\ chosen
       THEN LoadROM(ok, TRUE)
       ELSE UNCHANGED <<romLoaded, currentGame, nameOnly>>
  /\ dialog' = IF child = "BIOS" /\ ~(chosen /\ ok) THEN "BIOS" ELSE dialog
  /\ UNCHANGED <<emulator, lastRunningGame, hasFocus, isMenuShowing, activity, former, saved,
                 surplus, orphans>>

LifeCycle ==
  \/ \E bios, stateFile, ok \in BOOLEAN : Create(bios, stateFile, ok)
  \/ OnResume \/ OnPause \/ OnStop \/ Recreate \/ Retire \/ OnDestroy \/ Kill \/ Crash
  \/ FocusGained \/ FocusLost

User ==
  \/ OpenMenu \/ CloseMenu \/ SelectOther \/ SelectState \/ SelectClose \/ SelectQuit
  \/ BackKey \/ QuickKey
  \/ SaveSlot \/ Upgrade \/ QuitToOther
  \/ \E id \in Managed : Cancel(id)
  \/ \E choice \in BOOLEAN : QuitGame(choice) \/ BiosDialog(choice)
  \/ \E chosen, ok \in BOOLEAN : Result(chosen, ok)

Next == LifeCycle \/ User

Spec == Init /\ [][Next]_vars

----------------------------------------------------------------------------
(* Properties.                                                             *)

TypeOK ==
  /\ emulator \in BOOLEAN /\ resumeRequested \in Int /\ asked \in BOOLEAN
  /\ romLoaded \in BOOLEAN /\ lastRunningGame \in BOOLEAN
  /\ life \in Lives /\ former \in BOOLEAN /\ finishing \in BOOLEAN
  /\ hasFocus \in BOOLEAN /\ isMenuShowing \in BOOLEAN
  /\ dialog \in Dialogs \cup {NONE} /\ child \in Children \cup {NONE}
  /\ currentGame \in BOOLEAN
  /\ managed \subseteq Managed
  /\ saved \in Bundles \cup {NONE}
  /\ surplus \in 0 .. MaxSurplus /\ orphans \in Nat
  /\ nameOnly \in BOOLEAN

(* What is in the game's way: menu, dialog, an activity not resumed.       *)
Holders == One(isMenuShowing) + One(Holds(dialog)) + One(life # "resumed")

(* The counter is what is open now, but for purchase dialogs that were     *)
(* cancelled, which give back what they never took, and for holds that no  *)
(* dialog gives back: of dialogs whose activity went away, and of those    *)
(* closed before that, which are prepared again with the next one without  *)
(* being shown (pauseEmulator, resumeEmulator and their callers).          *)
Counted == emulator => resumeRequested = 1 - Holders + surplus - orphans

(* As long as the counter is right, no game goes on behind a menu, a       *)
(* dialog that holds it or an activity that is not resumed; once a hold    *)
(* was given back or taken too often it may.                               *)
QuietBehind == emulator /\ surplus = 0 /\ orphans = 0 /\ asked => Holders = 0

(* The game in front of the user is not held, whatever the counter says    *)
(* (onWindowFocusChanged).                                                 *)
RunsInFront == Reached => asked

(* The name of the game and the machine's game are there together, but     *)
(* when a name was taken without its ROM, or between two activities        *)
(* (loadROM, onCreate, onDestroy).                                         *)
NameAndGame ==
  Alive => /\ currentGame => romLoaded \/ nameOnly
           /\ romLoaded => currentGame \/ former

=============================================================================
