------------------------- MODULE AgbaActivityProofs -------------------------
(***************************************************************************)
(* The counter of AgbaActivity, for any number of dialogs gone astray.     *)
(*                                                                         *)
(* The properties the run checks are not inductive: what is in the way of  *)
(* the game when there is no activity, what an emulator that is not there  *)
(* leaves behind, what the instance state carries over to the next         *)
(* activity, and why a game that was told to stop is told to run again     *)
(* before the user reaches it.  ActivityInv adds these.                    *)
(*                                                                         *)
(* The second part is about what the activity merges and tells the         *)
(* emulator: the keys of KeyInput, for any keys, zones, fingers and states *)
(* that KeyAssumption allows, with the inductive invariant KeyInv.         *)
(***************************************************************************)
EXTENDS AgbaActivity, KeyInput, TLAPS

(* Nothing is open when there is no activity, nothing saved when there is  *)
(* one; no menu when it is stopped, nothing besides an open menu, no       *)
(* dialog when it is finishing or waits for another activity, but that     *)
(* about the BIOS; and nothing is counted or loaded when there is no       *)
(* emulator (Gone, OnStop, Select, DialogEnds, ProcessEnds, OnDestroy).    *)
Leftovers ==
  /\ life = "none" => dialog = NONE /\ ~isMenuShowing /\ ~hasFocus /\ ~finishing
  /\ life # "none" => saved = NONE
  /\ life = "stopped" => ~isMenuShowing
  /\ isMenuShowing => dialog = NONE /\ child = NONE
  /\ finishing => dialog = NONE
  /\ child # NONE => dialog \notin Managed /\ (saved # NONE => saved.dialog = NONE)
  /\ ~emulator => resumeRequested = 0 /\ surplus = 0 /\ orphans = 0 /\ ~romLoaded

(* A game that was told to stop while the window had the focus is one that *)
(* the counter has stopped, and that giving back will start.               *)
StoppedByCount ==
  emulator /\ hasFocus /\ ~asked /\ ~finishing =>
    resumeRequested <= 0 /\ 1 + surplus - orphans >= 1

(* A game that is loaded is known by name to the activity, or to the one   *)
(* that left or will come.                                                 *)
KnownGame ==
  /\ currentGame => life # "none"
  /\ currentGame /\ emulator => romLoaded \/ nameOnly
  /\ romLoaded /\ life # "none" => currentGame \/ former
  /\ romLoaded /\ life = "none" => former \/ (saved # NONE /\ saved.game)

(* Type correctness in two parts: what is true or false, and the rest.     *)
FlagsOK ==
  /\ emulator \in BOOLEAN /\ asked \in BOOLEAN
  /\ romLoaded \in BOOLEAN /\ lastRunningGame \in BOOLEAN
  /\ former \in BOOLEAN /\ finishing \in BOOLEAN
  /\ hasFocus \in BOOLEAN /\ isMenuShowing \in BOOLEAN
  /\ currentGame \in BOOLEAN /\ nameOnly \in BOOLEAN

RangesOK ==
  /\ resumeRequested \in Int
  /\ life \in Lives /\ dialog \in Dialogs \cup {NONE} /\ child \in Children \cup {NONE}
  /\ saved \in Bundles \cup {NONE}
  /\ surplus \in 0 .. MaxSurplus /\ orphans \in Nat

ActivityInv ==
  /\ FlagsOK
  /\ RangesOK
  /\ Leftovers
  /\ Counted
  /\ QuietBehind
  /\ StoppedByCount
  /\ KnownGame

(* What Android manages are dialogs of onCreateDialog, the open one among  *)
(* them: the instance state never names one that it does not prepare.      *)
ManagedOK ==
  /\ managed \subseteq Managed
  /\ dialog \in Managed => dialog \in managed

----------------------------------------------------------------------------
(* The counter.                                                            *)

(* What resumeEmulator, pauseEmulator and both in a row (loadGlobalSettings) *)
(* make of the counter and of the emulator.                                *)
LEMMA ResumeTold ==
  ASSUME ActivityInv, Tell(Resumed(Now))
  PROVE  /\ resumeRequested' = resumeRequested + 1
         /\ asked' \in BOOLEAN
         /\ asked' <=> asked \/ resumeRequested = 0
  BY DEF Tell, Resumed, Now

LEMMA PauseTold ==
  ASSUME ActivityInv, Tell(Paused(Now))
  PROVE  /\ resumeRequested' = resumeRequested - 1
         /\ asked' \in BOOLEAN
         /\ asked' <=> asked /\ resumeRequested # 1
  BY DEF Tell, Paused, Now

LEMMA RefreshTold ==
  ASSUME ActivityInv, Tell(Refreshed(Now))
  PROVE  /\ resumeRequested' = resumeRequested
         /\ asked' \in BOOLEAN
         /\ asked' <=> asked \/ resumeRequested = 1
<1>1. resumeRequested \in Int
  BY DEF ActivityInv, RangesOK
<1>2. resumeRequested' = (resumeRequested - 1) + 1
  BY DEF Tell, Refreshed, Resumed, Paused, Now
<1>3. asked' = ((asked /\ resumeRequested # 1) \/ resumeRequested - 1 = 0)
  BY DEF Tell, Refreshed, Resumed, Paused, Now
<1>4. resumeRequested - 1 = 0 <=> resumeRequested = 1
  BY <1>1
<1>5. resumeRequested' = resumeRequested
  BY <1>1, <1>2
<1>6. asked' \in BOOLEAN /\ (asked' <=> asked \/ resumeRequested = 1)
  BY <1>3, <1>4, Zenon
<1> QED
  BY <1>5, <1>6

LEMMA ReopenTold ==
  ASSUME ActivityInv, NEW id, Tell(Prepared(id, Resumed(Now)))
  PROVE  /\ resumeRequested' = IF Holds(id) THEN resumeRequested ELSE resumeRequested + 1
         /\ asked' \in BOOLEAN
         /\ Holds(id) => (asked' <=> asked /\ resumeRequested # 0)
         /\ ~Holds(id) => (asked' <=> asked \/ resumeRequested = 0)
<1>1. resumeRequested \in Int
  BY DEF ActivityInv, RangesOK
<1>2. CASE Holds(id)
  <2>1. resumeRequested' = (resumeRequested + 1) - 1
    BY <1>2 DEF Tell, Prepared, Resumed, Paused, Now, Holds
  <2>2. asked' = ((asked \/ resumeRequested = 0) /\ resumeRequested + 1 # 1)
    BY <1>2 DEF Tell, Prepared, Resumed, Paused, Now, Holds
  <2>3. resumeRequested + 1 # 1 <=> resumeRequested # 0
    BY <1>1
  <2>4. asked' \in BOOLEAN /\ (asked' <=> asked /\ resumeRequested # 0)
    BY <1>1, <2>2, <2>3, Zenon
  <2> QED
    BY <1>1, <1>2, <2>1, <2>4
<1>3. CASE ~Holds(id)
  <2>1. resumeRequested' = resumeRequested + 1
    BY <1>3 DEF Tell, Prepared, Resumed, Paused, Now, Holds
  <2>2. asked' = (asked \/ resumeRequested = 0)
    BY <1>3 DEF Tell, Prepared, Resumed, Paused, Now, Holds
  <2> QED
    BY <1>1, <1>3, <2>1, <2>2
<1> QED
  BY <1>2, <1>3

----------------------------------------------------------------------------
LEMMA SelectCounted ==
  ASSUME ActivityInv, NEW id, NEW started, Select(id, started)
  PROVE  Counted'
<1>1. resumeRequested \in Int /\ orphans \in Int /\ surplus \in Int
  BY BoundAssumption DEF ActivityInv, RangesOK
<1>2. ~Holds(dialog) /\ One(isMenuShowing) = 1 /\ isMenuShowing
  BY NoneAssumption DEF Select, Facing, ActivityInv, Leftovers, Dialogs, Managed, Holds, One
<1>3. life = "resumed" /\ life' = "resumed"
  BY DEF Select, Facing
<1>4. Holders = 1
  BY <1>2, <1>3 DEF Holders, One
<1>5. Holders' = IF Holds(id) THEN 1 ELSE 0
  BY <1>3 DEF Select, Holders, Holds, One
<1>6. resumeRequested' = IF Holds(id) THEN resumeRequested ELSE resumeRequested + 1
  BY ReopenTold DEF Select
<1>7. Holders \in Int /\ Holders' = IF Holds(id) THEN Holders ELSE Holders - 1
  BY <1>4, <1>5
<1>8. resumeRequested = 1 - Holders + surplus - orphans
  BY DEF Select, Facing, Alive, Counted, ActivityInv
<1>9. resumeRequested' = 1 - Holders' + surplus - orphans
  BY <1>1, <1>6, <1>7, <1>8
<1> QED
  BY <1>9 DEF Select, Counted

LEMMA OnResumeStep == ActivityInv /\ OnResume => ActivityInv'
<1> SUFFICES ASSUME ActivityInv, OnResume PROVE ActivityInv'
  OBVIOUS
<1>1. FlagsOK'
  BY ResumeTold, Zenon
  DEF ActivityInv, FlagsOK, OnResume, statics, machine, windows, activity, history, Alive
<1>2. RangesOK'
  BY ResumeTold, NoneAssumption, BoundAssumption
  DEF ActivityInv, RangesOK, Lives, Managed, Dialogs, Children, Bundles, Holds, OnResume,
      statics, machine, windows, activity, history, Alive
<1>3. Leftovers'
  BY ResumeTold, NoneAssumption
  DEF ActivityInv, RangesOK, Leftovers, Dialogs, Managed, Bundles, OnResume, statics, machine,
      windows, activity, history, Alive
<1>4. Counted'
  BY ResumeTold, NoneAssumption
  DEF ActivityInv, RangesOK, Leftovers, Counted, Holders, One, Holds, Dialogs, Managed,
      OnResume, statics, machine, windows, activity, history, Alive
<1>5. QuietBehind'
  BY ResumeTold, NoneAssumption
  DEF ActivityInv, RangesOK, Leftovers, Counted, QuietBehind, Holders, One, Holds, Dialogs,
      Managed, OnResume, statics, machine, windows, activity, history, Alive
<1>6. StoppedByCount'
  BY ResumeTold, NoneAssumption
  DEF ActivityInv, RangesOK, Leftovers, Counted, StoppedByCount, Holders, One, Holds, Dialogs,
      Managed, OnResume, statics, machine, windows, activity, history, Alive
<1>7. KnownGame'
  BY NoneAssumption
  DEF ActivityInv, RangesOK, Leftovers, KnownGame, OnResume, statics, machine, windows,
      activity, history, Alive
<1> QED
  BY <1>1, <1>2, <1>3, <1>4, <1>5, <1>6, <1>7 DEF ActivityInv

LEMMA OnPauseStep == ActivityInv /\ OnPause => ActivityInv'
<1> SUFFICES ASSUME ActivityInv, OnPause PROVE ActivityInv'
  OBVIOUS
<1>1. FlagsOK'
  BY PauseTold, Zenon
  DEF ActivityInv, FlagsOK, OnPause, statics, machine, windows, activity, history, Alive
<1>2. RangesOK'
  BY PauseTold, NoneAssumption, BoundAssumption
  DEF ActivityInv, RangesOK, Lives, Managed, Dialogs, Children, Bundles, Holds, OnPause,
      statics, machine, windows, activity, history, Alive
<1>3. Leftovers'
  BY PauseTold, NoneAssumption
  DEF ActivityInv, RangesOK, Leftovers, Dialogs, Managed, Bundles, OnPause, statics, machine,
      windows, activity, history, Alive
<1>4. Counted'
  BY PauseTold, NoneAssumption
  DEF ActivityInv, RangesOK, Leftovers, Counted, Holders, One, Holds, Dialogs, Managed, OnPause,
      statics, machine, windows, activity, history, Alive
<1>5. QuietBehind'
  BY PauseTold, NoneAssumption
  DEF ActivityInv, RangesOK, Leftovers, Counted, QuietBehind, Holders, One, Holds, Dialogs,
      Managed, OnPause, statics, machine, windows, activity, history, Alive
<1>6. StoppedByCount'
  BY PauseTold, NoneAssumption
  DEF ActivityInv, RangesOK, Leftovers, Counted, StoppedByCount, Holders, One, Holds, Dialogs,
      Managed, OnPause, statics, machine, windows, activity, history, Alive
<1>7. KnownGame'
  BY NoneAssumption
  DEF ActivityInv, RangesOK, Leftovers, KnownGame, OnPause, statics, machine, windows, activity,
      history, Alive
<1> QED
  BY <1>1, <1>2, <1>3, <1>4, <1>5, <1>6, <1>7 DEF ActivityInv

LEMMA OnStopStep == ActivityInv /\ OnStop => ActivityInv'
<1> SUFFICES ASSUME ActivityInv, OnStop PROVE ActivityInv'
  OBVIOUS
<1>1. FlagsOK'
  BY ResumeTold, Zenon
  DEF ActivityInv, FlagsOK, OnStop, statics, machine, windows, activity, history, Alive
<1>2. RangesOK'
  BY ResumeTold, NoneAssumption, BoundAssumption
  DEF ActivityInv, RangesOK, Lives, Managed, Dialogs, Children, Bundles, Holds, OnStop, statics,
      machine, windows, activity, history, Alive
<1>3. Leftovers'
  BY ResumeTold, NoneAssumption
  DEF ActivityInv, RangesOK, Leftovers, Dialogs, Managed, Bundles, OnStop, statics, machine,
      windows, activity, history, Alive
<1>4. Counted'
  BY ResumeTold, NoneAssumption
  DEF ActivityInv, RangesOK, Leftovers, Counted, Holders, One, Holds, Dialogs, Managed, OnStop,
      statics, machine, windows, activity, history, Alive
<1>5. QuietBehind'
  <2>1. CASE isMenuShowing
    BY <2>1, ResumeTold, NoneAssumption
    DEF ActivityInv, RangesOK, Leftovers, Counted, QuietBehind, Holders, One, Holds, Dialogs,
        Managed, OnStop, statics, machine, windows, activity, history, Alive
  <2>2. CASE ~isMenuShowing
    BY <2>2, NoneAssumption
    DEF ActivityInv, RangesOK, Leftovers, Counted, QuietBehind, Holders, One, Holds, Dialogs,
        Managed, OnStop, statics, machine, windows, activity, history, Alive
  <2> QED
    BY <2>1, <2>2
<1>6. StoppedByCount'
  BY ResumeTold, NoneAssumption
  DEF ActivityInv, RangesOK, Leftovers, Counted, StoppedByCount, Holders, One, Holds, Dialogs,
      Managed, OnStop, statics, machine, windows, activity, history, Alive
<1>7. KnownGame'
  BY NoneAssumption
  DEF ActivityInv, RangesOK, Leftovers, KnownGame, OnStop, statics, machine, windows, activity,
      history, Alive
<1> QED
  BY <1>1, <1>2, <1>3, <1>4, <1>5, <1>6, <1>7 DEF ActivityInv

LEMMA RetireStep == ActivityInv /\ Retire => ActivityInv'
<1> SUFFICES ASSUME ActivityInv, Retire PROVE ActivityInv'
  OBVIOUS
<1>1. FlagsOK'
  BY Zenon
  DEF ActivityInv, FlagsOK, Retire, Gone, statics, machine, windows, activity, history, Alive
<1>2. RangesOK'
  BY NoneAssumption, BoundAssumption
  DEF ActivityInv, RangesOK, Lives, Managed, Dialogs, Children, Bundles, Holds, Retire, Gone,
      statics, machine, windows, activity, history, Alive
<1>3. Leftovers'
  BY NoneAssumption
  DEF ActivityInv, RangesOK, Leftovers, Dialogs, Managed, Bundles, Retire, Gone, statics,
      machine, windows, activity, history, Alive
<1>4. Counted'
  BY NoneAssumption
  DEF ActivityInv, RangesOK, Leftovers, Counted, Holders, One, Holds, Dialogs, Managed, Retire,
      Gone, statics, machine, windows, activity, history, Alive
<1>5. QuietBehind'
  BY NoneAssumption
  DEF ActivityInv, RangesOK, Leftovers, Counted, QuietBehind, Holders, One, Holds, Dialogs,
      Managed, Retire, Gone, statics, machine, windows, activity, history, Alive
<1>6. StoppedByCount'
  BY NoneAssumption
  DEF ActivityInv, RangesOK, Leftovers, Counted, StoppedByCount, Holders, One, Holds, Dialogs,
      Managed, Retire, Gone, statics, machine, windows, activity, history, Alive
<1>7. KnownGame'
  BY NoneAssumption
  DEF ActivityInv, RangesOK, Leftovers, KnownGame, Retire, Gone, statics, machine, windows,
      activity, history, Alive
<1> QED
  BY <1>1, <1>2, <1>3, <1>4, <1>5, <1>6, <1>7 DEF ActivityInv

LEMMA OnDestroyStep == ActivityInv /\ OnDestroy => ActivityInv'
<1> SUFFICES ASSUME ActivityInv, OnDestroy PROVE ActivityInv'
  OBVIOUS
<1>1. FlagsOK'
  BY Zenon
  DEF ActivityInv, FlagsOK, OnDestroy, statics, machine, windows, activity, history, Alive
<1>2. RangesOK'
  BY NoneAssumption, BoundAssumption
  DEF ActivityInv, RangesOK, Lives, Managed, Dialogs, Children, Bundles, Holds, OnDestroy,
      statics, machine, windows, activity, history, Alive
<1>3. Leftovers'
  BY NoneAssumption
  DEF ActivityInv, RangesOK, Leftovers, Dialogs, Managed, Bundles, OnDestroy, statics, machine,
      windows, activity, history, Alive
<1>4. Counted'
  BY NoneAssumption
  DEF ActivityInv, RangesOK, Leftovers, Counted, Holders, One, Holds, Dialogs, Managed,
      OnDestroy, statics, machine, windows, activity, history, Alive
<1>5. QuietBehind'
  BY NoneAssumption
  DEF ActivityInv, RangesOK, Leftovers, Counted, QuietBehind, Holders, One, Holds, Dialogs,
      Managed, OnDestroy, statics, machine, windows, activity, history, Alive
<1>6. StoppedByCount'
  BY NoneAssumption
  DEF ActivityInv, RangesOK, Leftovers, Counted, StoppedByCount, Holders, One, Holds, Dialogs,
      Managed, OnDestroy, statics, machine, windows, activity, history, Alive
<1>7. KnownGame'
  BY NoneAssumption
  DEF ActivityInv, RangesOK, Leftovers, KnownGame, OnDestroy, statics, machine, windows,
      activity, history, Alive
<1> QED
  BY <1>1, <1>2, <1>3, <1>4, <1>5, <1>6, <1>7 DEF ActivityInv

LEMMA InstanceStateOK ==
  ASSUME ActivityInv, ManagedOK
  PROVE  InstanceState \in Bundles
<1>1. currentGame \in BOOLEAN /\ managed \in SUBSET Managed
  BY DEF ActivityInv, FlagsOK, ManagedOK
<1>2. InstanceState.dialog # NONE => InstanceState.dialog \in InstanceState.managed
  BY DEF InstanceState, ManagedOK
<1>3. InstanceState \in [game : BOOLEAN, managed : SUBSET Managed, dialog : Managed \cup {NONE}]
  BY <1>1, Zenon DEF InstanceState
<1> QED
  BY <1>2, <1>3 DEF Bundles

LEMMA KillStep == ActivityInv /\ ManagedOK /\ Kill => ActivityInv'
<1> SUFFICES ASSUME ActivityInv, ManagedOK, Kill PROVE ActivityInv'
  OBVIOUS
<1>1. FlagsOK'
  BY Zenon
  DEF ActivityInv, FlagsOK, Kill, ProcessEnds, Gone, InstanceState, statics, machine, windows,
      activity, history, Alive
<1>b. InstanceState \in Bundles
  BY InstanceStateOK
<1>2. RangesOK'
  BY <1>b, NoneAssumption, BoundAssumption
  DEF ActivityInv, RangesOK, Lives, Managed, Dialogs, Children, Bundles, Holds, Kill,
      ProcessEnds, Gone, InstanceState, statics, machine, windows, activity, history, Alive
<1>3. Leftovers'
  BY NoneAssumption
  DEF ActivityInv, RangesOK, Leftovers, Dialogs, Managed, Bundles, Kill, ProcessEnds, Gone,
      InstanceState, statics, machine, windows, activity, history, Alive
<1>4. Counted'
  BY NoneAssumption
  DEF ActivityInv, RangesOK, Leftovers, Counted, Holders, One, Holds, Dialogs, Managed, Kill,
      ProcessEnds, Gone, InstanceState, statics, machine, windows, activity, history, Alive
<1>5. QuietBehind'
  BY NoneAssumption
  DEF ActivityInv, RangesOK, Leftovers, Counted, QuietBehind, Holders, One, Holds, Dialogs,
      Managed, Kill, ProcessEnds, Gone, InstanceState, statics, machine, windows, activity,
      history, Alive
<1>6. StoppedByCount'
  BY NoneAssumption
  DEF ActivityInv, RangesOK, Leftovers, Counted, StoppedByCount, Holders, One, Holds, Dialogs,
      Managed, Kill, ProcessEnds, Gone, InstanceState, statics, machine, windows, activity,
      history, Alive
<1>7. KnownGame'
  BY <1>b, NoneAssumption
  DEF ActivityInv, RangesOK, Leftovers, KnownGame, Kill, ProcessEnds, Gone, InstanceState,
      statics, machine, windows, activity, history, Alive
<1> QED
  BY <1>1, <1>2, <1>3, <1>4, <1>5, <1>6, <1>7 DEF ActivityInv

LEMMA RecreateStep == ActivityInv /\ ManagedOK /\ Recreate => ActivityInv'
<1> SUFFICES ASSUME ActivityInv, ManagedOK, Recreate PROVE ActivityInv'
  OBVIOUS
<1>1. FlagsOK'
  BY Zenon
  DEF ActivityInv, FlagsOK, Recreate, InstanceState, OrphansLeft, Gone, statics, machine,
      windows, activity, history, Alive
<1>b. InstanceState \in Bundles
  BY InstanceStateOK
<1>2. RangesOK'
  BY <1>b, NoneAssumption, BoundAssumption
  DEF ActivityInv, RangesOK, Lives, Managed, Dialogs, Children, Bundles, One, Holds, Recreate,
      InstanceState, OrphansLeft, Gone, statics, machine, windows, activity, history, Alive
<1>3. Leftovers'
  BY NoneAssumption
  DEF ActivityInv, RangesOK, Leftovers, Dialogs, Managed, Bundles, Recreate, InstanceState,
      OrphansLeft, Gone, statics, machine, windows, activity, history, Alive
<1>4. Counted'
  BY NoneAssumption
  DEF ActivityInv, RangesOK, Leftovers, Counted, Holders, One, Holds, Dialogs, Managed,
      Recreate, InstanceState, OrphansLeft, Gone, statics, machine, windows, activity, history,
      Alive
<1>5. QuietBehind'
  BY NoneAssumption
  DEF ActivityInv, RangesOK, Leftovers, Counted, QuietBehind, Holders, One, Holds, Dialogs,
      Managed, Recreate, InstanceState, OrphansLeft, Gone, statics, machine, windows, activity,
      history, Alive
<1>6. StoppedByCount'
  BY NoneAssumption
  DEF ActivityInv, RangesOK, Leftovers, Counted, StoppedByCount, Holders, One, Holds, Dialogs,
      Managed, Recreate, InstanceState, OrphansLeft, Gone, statics, machine, windows, activity,
      history, Alive
<1>7. KnownGame'
  BY <1>b, NoneAssumption
  DEF ActivityInv, RangesOK, Leftovers, KnownGame, Recreate, InstanceState, OrphansLeft, Gone,
      statics, machine, windows, activity, history, Alive
<1> QED
  BY <1>1, <1>2, <1>3, <1>4, <1>5, <1>6, <1>7 DEF ActivityInv

LEMMA CrashStep == ActivityInv /\ Crash => ActivityInv'
<1> SUFFICES ASSUME ActivityInv, Crash PROVE ActivityInv'
  OBVIOUS
<1>1. FlagsOK'
  BY Zenon
  DEF ActivityInv, FlagsOK, Crash, ProcessEnds, Gone, statics, machine, windows, activity,
      history, Alive
<1>2. RangesOK'
  BY NoneAssumption, BoundAssumption
  DEF ActivityInv, RangesOK, Lives, Managed, Dialogs, Children, Bundles, Holds, Crash,
      ProcessEnds, Gone, statics, machine, windows, activity, history, Alive
<1>3. Leftovers'
  BY NoneAssumption
  DEF ActivityInv, RangesOK, Leftovers, Dialogs, Managed, Bundles, Crash, ProcessEnds, Gone,
      statics, machine, windows, activity, history, Alive
<1>4. Counted'
  BY NoneAssumption
  DEF ActivityInv, RangesOK, Leftovers, Counted, Holders, One, Holds, Dialogs, Managed, Crash,
      ProcessEnds, Gone, statics, machine, windows, activity, history, Alive
<1>5. QuietBehind'
  BY NoneAssumption
  DEF ActivityInv, RangesOK, Leftovers, Counted, QuietBehind, Holders, One, Holds, Dialogs,
      Managed, Crash, ProcessEnds, Gone, statics, machine, windows, activity, history, Alive
<1>6. StoppedByCount'
  BY NoneAssumption
  DEF ActivityInv, RangesOK, Leftovers, Counted, StoppedByCount, Holders, One, Holds, Dialogs,
      Managed, Crash, ProcessEnds, Gone, statics, machine, windows, activity, history, Alive
<1>7. KnownGame'
  BY NoneAssumption
  DEF ActivityInv, RangesOK, Leftovers, KnownGame, Crash, ProcessEnds, Gone, statics, machine,
      windows, activity, history, Alive
<1> QED
  BY <1>1, <1>2, <1>3, <1>4, <1>5, <1>6, <1>7 DEF ActivityInv

LEMMA FocusGainedStep == ActivityInv /\ FocusGained => ActivityInv'
<1> SUFFICES ASSUME ActivityInv, FocusGained PROVE ActivityInv'
  OBVIOUS
<1>1. FlagsOK'
  BY Zenon
  DEF ActivityInv, FlagsOK, FocusGained, InFront, Facing, statics, machine, windows, activity,
      history, Alive
<1>2. RangesOK'
  BY NoneAssumption, BoundAssumption
  DEF ActivityInv, RangesOK, Lives, Managed, Dialogs, Children, Bundles, Holds, FocusGained,
      InFront, Facing, statics, machine, windows, activity, history, Alive
<1>3. Leftovers'
  BY NoneAssumption
  DEF ActivityInv, RangesOK, Leftovers, Dialogs, Managed, Bundles, FocusGained, InFront, Facing,
      statics, machine, windows, activity, history, Alive
<1>4. Counted'
  BY NoneAssumption
  DEF ActivityInv, RangesOK, Leftovers, Counted, Holders, One, Holds, Dialogs, Managed,
      FocusGained, InFront, Facing, statics, machine, windows, activity, history, Alive
<1>5. QuietBehind'
  BY NoneAssumption
  DEF ActivityInv, RangesOK, Leftovers, Counted, QuietBehind, Holders, One, Holds, Dialogs,
      Managed, FocusGained, InFront, Facing, statics, machine, windows, activity, history, Alive
<1>6. StoppedByCount'
  BY NoneAssumption
  DEF ActivityInv, RangesOK, Leftovers, Counted, StoppedByCount, Holders, One, Holds, Dialogs,
      Managed, FocusGained, InFront, Facing, statics, machine, windows, activity, history, Alive
<1>7. KnownGame'
  BY NoneAssumption
  DEF ActivityInv, RangesOK, Leftovers, KnownGame, FocusGained, InFront, Facing, statics,
      machine, windows, activity, history, Alive
<1> QED
  BY <1>1, <1>2, <1>3, <1>4, <1>5, <1>6, <1>7 DEF ActivityInv

LEMMA FocusLostStep == ActivityInv /\ FocusLost => ActivityInv'
<1> SUFFICES ASSUME ActivityInv, FocusLost PROVE ActivityInv'
  OBVIOUS
<1>1. FlagsOK'
  BY Zenon
  DEF ActivityInv, FlagsOK, FocusLost, InFront, Facing, statics, machine, windows, activity,
      history, Alive
<1>2. RangesOK'
  BY NoneAssumption, BoundAssumption
  DEF ActivityInv, RangesOK, Lives, Managed, Dialogs, Children, Bundles, Holds, FocusLost,
      InFront, Facing, statics, machine, windows, activity, history, Alive
<1>3. Leftovers'
  BY NoneAssumption
  DEF ActivityInv, RangesOK, Leftovers, Dialogs, Managed, Bundles, FocusLost, InFront, Facing,
      statics, machine, windows, activity, history, Alive
<1>4. Counted'
  BY NoneAssumption
  DEF ActivityInv, RangesOK, Leftovers, Counted, Holders, One, Holds, Dialogs, Managed,
      FocusLost, InFront, Facing, statics, machine, windows, activity, history, Alive
<1>5. QuietBehind'
  BY NoneAssumption
  DEF ActivityInv, RangesOK, Leftovers, Counted, QuietBehind, Holders, One, Holds, Dialogs,
      Managed, FocusLost, InFront, Facing, statics, machine, windows, activity, history, Alive
<1>6. StoppedByCount'
  BY NoneAssumption
  DEF ActivityInv, RangesOK, Leftovers, Counted, StoppedByCount, Holders, One, Holds, Dialogs,
      Managed, FocusLost, InFront, Facing, statics, machine, windows, activity, history, Alive
<1>7. KnownGame'
  BY NoneAssumption
  DEF ActivityInv, RangesOK, Leftovers, KnownGame, FocusLost, InFront, Facing, statics, machine,
      windows, activity, history, Alive
<1> QED
  BY <1>1, <1>2, <1>3, <1>4, <1>5, <1>6, <1>7 DEF ActivityInv

LEMMA OpenMenuStep == ActivityInv /\ OpenMenu => ActivityInv'
<1> SUFFICES ASSUME ActivityInv, OpenMenu PROVE ActivityInv'
  OBVIOUS
<1>1. FlagsOK'
  BY PauseTold, Zenon
  DEF ActivityInv, FlagsOK, OpenMenu, Reached, InFront, Facing, statics, machine, windows,
      activity, history, Alive
<1>2. RangesOK'
  BY PauseTold, NoneAssumption, BoundAssumption
  DEF ActivityInv, RangesOK, Lives, Managed, Dialogs, Children, Bundles, Holds, OpenMenu,
      Reached, InFront, Facing, statics, machine, windows, activity, history, Alive
<1>3. Leftovers'
  BY PauseTold, NoneAssumption
  DEF ActivityInv, RangesOK, Leftovers, Dialogs, Managed, Bundles, OpenMenu, Reached, InFront,
      Facing, statics, machine, windows, activity, history, Alive
<1>4. Counted'
  BY PauseTold, NoneAssumption
  DEF ActivityInv, RangesOK, Leftovers, Counted, Holders, One, Holds, Dialogs, Managed,
      OpenMenu, Reached, InFront, Facing, statics, machine, windows, activity, history, Alive
<1>5. QuietBehind'
  BY PauseTold, NoneAssumption
  DEF ActivityInv, RangesOK, Leftovers, Counted, QuietBehind, Holders, One, Holds, Dialogs,
      Managed, OpenMenu, Reached, InFront, Facing, statics, machine, windows, activity, history,
      Alive
<1>6. StoppedByCount'
  BY PauseTold, NoneAssumption
  DEF ActivityInv, RangesOK, Leftovers, Counted, StoppedByCount, Holders, One, Holds, Dialogs,
      Managed, OpenMenu, Reached, InFront, Facing, statics, machine, windows, activity, history,
      Alive
<1>7. KnownGame'
  BY NoneAssumption
  DEF ActivityInv, RangesOK, Leftovers, KnownGame, OpenMenu, Reached, InFront, Facing, statics,
      machine, windows, activity, history, Alive
<1> QED
  BY <1>1, <1>2, <1>3, <1>4, <1>5, <1>6, <1>7 DEF ActivityInv

LEMMA CloseMenuStep == ActivityInv /\ CloseMenu => ActivityInv'
<1> SUFFICES ASSUME ActivityInv, CloseMenu PROVE ActivityInv'
  OBVIOUS
<1>1. FlagsOK'
  BY ResumeTold, Zenon
  DEF ActivityInv, FlagsOK, CloseMenu, Facing, statics, machine, windows, activity, history,
      Alive
<1>2. RangesOK'
  BY ResumeTold, NoneAssumption, BoundAssumption
  DEF ActivityInv, RangesOK, Lives, Managed, Dialogs, Children, Bundles, Holds, CloseMenu,
      Facing, statics, machine, windows, activity, history, Alive
<1>3. Leftovers'
  BY ResumeTold, NoneAssumption
  DEF ActivityInv, RangesOK, Leftovers, Dialogs, Managed, Bundles, CloseMenu, Facing, statics,
      machine, windows, activity, history, Alive
<1>4. Counted'
  BY ResumeTold, NoneAssumption
  DEF ActivityInv, RangesOK, Leftovers, Counted, Holders, One, Holds, Dialogs, Managed,
      CloseMenu, Facing, statics, machine, windows, activity, history, Alive
<1>5. QuietBehind'
  BY ResumeTold, NoneAssumption
  DEF ActivityInv, RangesOK, Leftovers, Counted, QuietBehind, Holders, One, Holds, Dialogs,
      Managed, CloseMenu, Facing, statics, machine, windows, activity, history, Alive
<1>6. StoppedByCount'
  BY ResumeTold, NoneAssumption
  DEF ActivityInv, RangesOK, Leftovers, Counted, StoppedByCount, Holders, One, Holds, Dialogs,
      Managed, CloseMenu, Facing, statics, machine, windows, activity, history, Alive
<1>7. KnownGame'
  BY NoneAssumption
  DEF ActivityInv, RangesOK, Leftovers, KnownGame, CloseMenu, Facing, statics, machine, windows,
      activity, history, Alive
<1> QED
  BY <1>1, <1>2, <1>3, <1>4, <1>5, <1>6, <1>7 DEF ActivityInv

LEMMA SelectOtherStep == ActivityInv /\ SelectOther => ActivityInv'
<1> SUFFICES ASSUME ActivityInv, SelectOther PROVE ActivityInv'
  OBVIOUS
<1>1. FlagsOK'
  BY ReopenTold, Zenon
  DEF ActivityInv, FlagsOK, SelectOther, Select, Facing, statics, machine, windows, activity,
      history, Alive
<1>2. RangesOK'
  BY ReopenTold, NoneAssumption, BoundAssumption
  DEF ActivityInv, RangesOK, Lives, Managed, Dialogs, Children, Bundles, Holds, SelectOther,
      Select, Facing, statics, machine, windows, activity, history, Alive
<1>3. Leftovers'
  BY ReopenTold, NoneAssumption
  DEF ActivityInv, RangesOK, Leftovers, Dialogs, Managed, Bundles, SelectOther, Select, Facing,
      statics, machine, windows, activity, history, Alive
<1>4. Counted'
  BY SelectCounted DEF SelectOther
<1>5. QuietBehind'
  BY ReopenTold, NoneAssumption
  DEF ActivityInv, RangesOK, Leftovers, Counted, QuietBehind, Holders, One, Holds, Dialogs,
      Managed, SelectOther, Select, Facing, statics, machine, windows, activity, history, Alive
<1>6. StoppedByCount'
  BY ReopenTold, NoneAssumption
  DEF ActivityInv, RangesOK, Leftovers, Counted, StoppedByCount, Holders, One, Holds, Dialogs,
      Managed, SelectOther, Select, Facing, statics, machine, windows, activity, history, Alive
<1>7. KnownGame'
  BY NoneAssumption
  DEF ActivityInv, RangesOK, Leftovers, KnownGame, SelectOther, Select, Facing, statics,
      machine, windows, activity, history, Alive
<1> QED
  BY <1>1, <1>2, <1>3, <1>4, <1>5, <1>6, <1>7 DEF ActivityInv

LEMMA SelectStateStep == ActivityInv /\ SelectState => ActivityInv'
<1> SUFFICES ASSUME ActivityInv, SelectState PROVE ActivityInv'
  OBVIOUS
<1>1. FlagsOK'
  BY ReopenTold, Zenon
  DEF ActivityInv, FlagsOK, SelectState, Select, Facing, statics, machine, windows, activity,
      history, Alive
<1>2. RangesOK'
  BY ReopenTold, NoneAssumption, BoundAssumption
  DEF ActivityInv, RangesOK, Lives, Managed, Dialogs, Children, Bundles, Holds, SelectState,
      Select, Facing, statics, machine, windows, activity, history, Alive
<1>3. Leftovers'
  BY ReopenTold, NoneAssumption
  DEF ActivityInv, RangesOK, Leftovers, Dialogs, Managed, Bundles, SelectState, Select, Facing,
      statics, machine, windows, activity, history, Alive
<1>4. Counted'
  BY SelectCounted DEF SelectState
<1>5. QuietBehind'
  BY ReopenTold, NoneAssumption
  DEF ActivityInv, RangesOK, Leftovers, Counted, QuietBehind, Holders, One, Holds, Dialogs,
      Managed, SelectState, Select, Facing, statics, machine, windows, activity, history, Alive
<1>6. StoppedByCount'
  BY ReopenTold, NoneAssumption
  DEF ActivityInv, RangesOK, Leftovers, Counted, StoppedByCount, Holders, One, Holds, Dialogs,
      Managed, SelectState, Select, Facing, statics, machine, windows, activity, history, Alive
<1>7. KnownGame'
  BY NoneAssumption
  DEF ActivityInv, RangesOK, Leftovers, KnownGame, SelectState, Select, Facing, statics,
      machine, windows, activity, history, Alive
<1> QED
  BY <1>1, <1>2, <1>3, <1>4, <1>5, <1>6, <1>7 DEF ActivityInv

LEMMA SelectCloseStep == ActivityInv /\ SelectClose => ActivityInv'
<1> SUFFICES ASSUME ActivityInv, SelectClose PROVE ActivityInv'
  OBVIOUS
<1>1. FlagsOK'
  BY ReopenTold, Zenon
  DEF ActivityInv, FlagsOK, SelectClose, Select, Facing, statics, machine, windows, activity,
      history, Alive
<1>2. RangesOK'
  BY ReopenTold, NoneAssumption, BoundAssumption
  DEF ActivityInv, RangesOK, Lives, Managed, Dialogs, Children, Bundles, Holds, SelectClose,
      Select, Facing, statics, machine, windows, activity, history, Alive
<1>3. Leftovers'
  BY ReopenTold, NoneAssumption
  DEF ActivityInv, RangesOK, Leftovers, Dialogs, Managed, Bundles, SelectClose, Select, Facing,
      statics, machine, windows, activity, history, Alive
<1>4. Counted'
  BY SelectCounted DEF SelectClose
<1>5. QuietBehind'
  BY ReopenTold, NoneAssumption
  DEF ActivityInv, RangesOK, Leftovers, Counted, QuietBehind, Holders, One, Holds, Dialogs,
      Managed, SelectClose, Select, Facing, statics, machine, windows, activity, history, Alive
<1>6. StoppedByCount'
  BY ReopenTold, NoneAssumption
  DEF ActivityInv, RangesOK, Leftovers, Counted, StoppedByCount, Holders, One, Holds, Dialogs,
      Managed, SelectClose, Select, Facing, statics, machine, windows, activity, history, Alive
<1>7. KnownGame'
  BY NoneAssumption
  DEF ActivityInv, RangesOK, Leftovers, KnownGame, SelectClose, Select, Facing, statics,
      machine, windows, activity, history, Alive
<1> QED
  BY <1>1, <1>2, <1>3, <1>4, <1>5, <1>6, <1>7 DEF ActivityInv

LEMMA SelectQuitStep == ActivityInv /\ SelectQuit => ActivityInv'
<1> SUFFICES ASSUME ActivityInv, SelectQuit PROVE ActivityInv'
  OBVIOUS
<1>1. FlagsOK'
  BY ReopenTold, Zenon
  DEF ActivityInv, FlagsOK, SelectQuit, Select, Facing, statics, machine, windows, activity,
      history, Alive
<1>2. RangesOK'
  BY ReopenTold, NoneAssumption, BoundAssumption
  DEF ActivityInv, RangesOK, Lives, Managed, Dialogs, Children, Bundles, Holds, SelectQuit,
      Select, Facing, statics, machine, windows, activity, history, Alive
<1>3. Leftovers'
  BY ReopenTold, NoneAssumption
  DEF ActivityInv, RangesOK, Leftovers, Dialogs, Managed, Bundles, SelectQuit, Select, Facing,
      statics, machine, windows, activity, history, Alive
<1>4. Counted'
  BY SelectCounted DEF SelectQuit
<1>5. QuietBehind'
  BY ReopenTold, NoneAssumption
  DEF ActivityInv, RangesOK, Leftovers, Counted, QuietBehind, Holders, One, Holds, Dialogs,
      Managed, SelectQuit, Select, Facing, statics, machine, windows, activity, history, Alive
<1>6. StoppedByCount'
  BY ReopenTold, NoneAssumption
  DEF ActivityInv, RangesOK, Leftovers, Counted, StoppedByCount, Holders, One, Holds, Dialogs,
      Managed, SelectQuit, Select, Facing, statics, machine, windows, activity, history, Alive
<1>7. KnownGame'
  BY NoneAssumption
  DEF ActivityInv, RangesOK, Leftovers, KnownGame, SelectQuit, Select, Facing, statics, machine,
      windows, activity, history, Alive
<1> QED
  BY <1>1, <1>2, <1>3, <1>4, <1>5, <1>6, <1>7 DEF ActivityInv

LEMMA BackKeyStep == ActivityInv /\ BackKey => ActivityInv'
<1> SUFFICES ASSUME ActivityInv, BackKey PROVE ActivityInv'
  OBVIOUS
<1>1. FlagsOK'
  BY PauseTold, Zenon
  DEF ActivityInv, FlagsOK, BackKey, Reached, InFront, Facing, statics, machine, windows,
      activity, history, Alive
<1>2. RangesOK'
  BY PauseTold, NoneAssumption, BoundAssumption
  DEF ActivityInv, RangesOK, Lives, Managed, Dialogs, Children, Bundles, Holds, BackKey,
      Reached, InFront, Facing, statics, machine, windows, activity, history, Alive
<1>3. Leftovers'
  BY PauseTold, NoneAssumption
  DEF ActivityInv, RangesOK, Leftovers, Dialogs, Managed, Bundles, BackKey, Reached, InFront,
      Facing, statics, machine, windows, activity, history, Alive
<1>4. Counted'
  BY PauseTold, NoneAssumption
  DEF ActivityInv, RangesOK, Leftovers, Counted, Holders, One, Holds, Dialogs, Managed, BackKey,
      Reached, InFront, Facing, statics, machine, windows, activity, history, Alive
<1>5. QuietBehind'
  <2>1. CASE currentGame
    BY <2>1, PauseTold, NoneAssumption
    DEF ActivityInv, RangesOK, Leftovers, Counted, QuietBehind, Holders, One, Holds, Dialogs,
        Managed, BackKey, Reached, InFront, Facing, statics, machine, windows, activity,
        history, Alive
  <2>2. CASE ~currentGame
    BY <2>2, NoneAssumption
    DEF ActivityInv, RangesOK, Leftovers, Counted, QuietBehind, Holders, One, Holds, Dialogs,
        Managed, BackKey, Reached, InFront, Facing, statics, machine, windows, activity,
        history, Alive
  <2> QED
    BY <2>1, <2>2
<1>6. StoppedByCount'
  BY PauseTold, NoneAssumption
  DEF ActivityInv, RangesOK, Leftovers, Counted, StoppedByCount, Holders, One, Holds, Dialogs,
      Managed, BackKey, Reached, InFront, Facing, statics, machine, windows, activity, history,
      Alive
<1>7. KnownGame'
  BY NoneAssumption
  DEF ActivityInv, RangesOK, Leftovers, KnownGame, BackKey, Reached, InFront, Facing, statics,
      machine, windows, activity, history, Alive
<1> QED
  BY <1>1, <1>2, <1>3, <1>4, <1>5, <1>6, <1>7 DEF ActivityInv

LEMMA QuickKeyStep == ActivityInv /\ QuickKey => ActivityInv'
<1> SUFFICES ASSUME ActivityInv, QuickKey PROVE ActivityInv'
  OBVIOUS
<1>1. FlagsOK'
  BY Zenon
  DEF ActivityInv, FlagsOK, QuickKey, Reached, InFront, Facing, ProcessEnds, Gone, statics,
      machine, windows, activity, history, Alive
<1>2. RangesOK'
  BY NoneAssumption, BoundAssumption
  DEF ActivityInv, RangesOK, Lives, Managed, Dialogs, Children, Bundles, Holds, QuickKey,
      Reached, InFront, Facing, ProcessEnds, Gone, statics, machine, windows, activity, history,
      Alive
<1>3. Leftovers'
  BY NoneAssumption
  DEF ActivityInv, RangesOK, Leftovers, Dialogs, Managed, Bundles, QuickKey, Reached, InFront,
      Facing, ProcessEnds, Gone, statics, machine, windows, activity, history, Alive
<1>4. Counted'
  BY NoneAssumption
  DEF ActivityInv, RangesOK, Leftovers, Counted, Holders, One, Holds, Dialogs, Managed,
      QuickKey, Reached, InFront, Facing, ProcessEnds, Gone, statics, machine, windows,
      activity, history, Alive
<1>5. QuietBehind'
  BY NoneAssumption
  DEF ActivityInv, RangesOK, Leftovers, Counted, QuietBehind, Holders, One, Holds, Dialogs,
      Managed, QuickKey, Reached, InFront, Facing, ProcessEnds, Gone, statics, machine, windows,
      activity, history, Alive
<1>6. StoppedByCount'
  BY NoneAssumption
  DEF ActivityInv, RangesOK, Leftovers, Counted, StoppedByCount, Holders, One, Holds, Dialogs,
      Managed, QuickKey, Reached, InFront, Facing, ProcessEnds, Gone, statics, machine, windows,
      activity, history, Alive
<1>7. KnownGame'
  BY NoneAssumption
  DEF ActivityInv, RangesOK, Leftovers, KnownGame, QuickKey, Reached, InFront, Facing,
      ProcessEnds, Gone, statics, machine, windows, activity, history, Alive
<1> QED
  BY <1>1, <1>2, <1>3, <1>4, <1>5, <1>6, <1>7 DEF ActivityInv

----------------------------------------------------------------------------
(* A new activity.                                                         *)

(* What the instance state, if any, brings back.                           *)
Brought == IF saved = NONE THEN NoBundle ELSE saved

(* The dialogs that hold the game, one by one.                             *)
Quit(b) == "QUIT_GAME" \in b.managed
Save(b) == "SAVE_STATE" \in b.managed

LEMMA BroughtOK ==
  ASSUME ActivityInv
  PROVE  /\ Brought.game \in BOOLEAN /\ Brought.managed \subseteq Managed
         /\ Brought.dialog \in Managed \cup {NONE}
         /\ Brought.dialog # NONE => Brought.dialog \in Brought.managed
  BY DEF Brought, NoBundle, Bundles, ActivityInv, RangesOK

(* To restore takes one from the counter for each, and starts nothing.     *)
LEMMA RestoredTakes ==
  ASSUME NEW ids, NEW s, s.count \in Int, s.run \in BOOLEAN
  PROVE  /\ Restored(ids, s).count = s.count - One("QUIT_GAME" \in ids) - One("SAVE_STATE" \in ids)
         /\ Restored(ids, s).run \in BOOLEAN
         /\ Restored(ids, s).run => s.run
<1>1. CASE "QUIT_GAME" \in ids /\ "SAVE_STATE" \in ids
  BY <1>1 DEF Restored, Paused, One
<1>2. CASE "QUIT_GAME" \in ids /\ "SAVE_STATE" \notin ids
  BY <1>2 DEF Restored, Paused, One
<1>3. CASE "QUIT_GAME" \notin ids /\ "SAVE_STATE" \in ids
  BY <1>3 DEF Restored, Paused, One
<1>4. CASE "QUIT_GAME" \notin ids /\ "SAVE_STATE" \notin ids
  BY <1>4 DEF Restored, Paused, One
<1> QED
  BY <1>1, <1>2, <1>3, <1>4

(* What is taken is held by the dialog that is shown, or by none.          *)
LEMMA TakenIsHeldOrPhantom ==
  ASSUME ActivityInv
  PROVE  /\ Phantoms(Brought) \in Nat
         /\ One(Quit(Brought)) + One(Save(Brought)) = One(Holds(Brought.dialog)) + Phantoms(Brought)
<1>1. CASE Brought.dialog = "QUIT_GAME"
  BY <1>1, NoneAssumption, BroughtOK
  DEF Phantoms, One, Holds, Quit, Save, Dialogs, Managed
<1>2. CASE Brought.dialog = "SAVE_STATE"
  BY <1>2, NoneAssumption, BroughtOK
  DEF Phantoms, One, Holds, Quit, Save, Dialogs, Managed
<1>3. CASE ~Holds(Brought.dialog)
  BY <1>3 DEF Phantoms, One, Holds, Quit, Save
<1> QED
  BY <1>1, <1>2, <1>3 DEF Holds

LEMMA CreateTold ==
  ASSUME ActivityInv, NEW bios, NEW stateFile, NEW ok, Create(bios, stateFile, ok)
  PROVE  /\ resumeRequested' = resumeRequested - One(Quit(Brought)) - One(Save(Brought))
         /\ asked' \in BOOLEAN
         /\ asked' => (emulator /\ asked) \/ resumeRequested = 1
         /\ dialog' = IF bios THEN Brought.dialog ELSE "BIOS"
         /\ Brought.dialog # NONE => bios
         /\ orphans' = orphans + Phantoms(Brought) /\ surplus' = surplus
<1> DEFINE s == IF emulator THEN Now ELSE [Now EXCEPT !.run = FALSE]
           r == Refreshed(s)
<1>1. Tell(Restored(Brought.managed, r))
  BY DEF Create, Brought
<1>2. s.count = resumeRequested /\ s.run = (emulator /\ asked)
  BY DEF Now, ActivityInv, FlagsOK
<1>3. /\ r.count = (resumeRequested - 1) + 1
      /\ r.run = (((emulator /\ asked) /\ resumeRequested # 1) \/ resumeRequested - 1 = 0)
  BY <1>2 DEF Refreshed, Resumed, Paused
<1>4. resumeRequested \in Int
  BY DEF ActivityInv, RangesOK
<1>5. r.count = resumeRequested
  BY <1>3, <1>4
<1>6. r.run \in BOOLEAN /\ (r.run => (emulator /\ asked) \/ resumeRequested = 1)
  <2>1. resumeRequested - 1 = 0 <=> resumeRequested = 1
    BY <1>4
  <2> QED
    BY <1>3, <2>1, Zenon
<1> HIDE DEF s, r
<1>7. /\ Restored(Brought.managed, r).count
           = r.count - One("QUIT_GAME" \in Brought.managed) - One("SAVE_STATE" \in Brought.managed)
      /\ Restored(Brought.managed, r).run \in BOOLEAN
      /\ Restored(Brought.managed, r).run => r.run
  BY <1>4, <1>5, <1>6, RestoredTakes
<1>8. /\ resumeRequested' = Restored(Brought.managed, r).count
      /\ asked' = Restored(Brought.managed, r).run
  BY <1>1 DEF Tell
<1>9. resumeRequested' = resumeRequested - One(Quit(Brought)) - One(Save(Brought))
  BY <1>5, <1>7, <1>8 DEF Quit, Save
<1>10. asked' \in BOOLEAN /\ (asked' => (emulator /\ asked) \/ resumeRequested = 1)
  BY <1>6, <1>7, <1>8, Zenon
<1>11. /\ dialog' = IF bios THEN Brought.dialog ELSE "BIOS"
       /\ Brought.dialog # NONE => bios
       /\ orphans' = orphans + Phantoms(Brought) /\ surplus' = surplus
  BY DEF Create, Brought
<1> QED
  BY <1>9, <1>10, <1>11

LEMMA CreateStep ==
  ASSUME ActivityInv, NEW bios \in BOOLEAN, NEW stateFile \in BOOLEAN, NEW ok \in BOOLEAN,
         Create(bios, stateFile, ok)
  PROVE  ActivityInv'
<1>0. saved = NONE \/ (saved \in Bundles /\ saved # NONE)
  BY NoneAssumption DEF ActivityInv, RangesOK
<1>1. FlagsOK'
  <2>1. (IF saved = NONE THEN NoBundle ELSE saved).game \in BOOLEAN
    BY BroughtOK DEF Brought
  <2>2. asked' \in BOOLEAN
    BY CreateTold
  <2> QED
    BY <2>1, <2>2, Zenon DEF ActivityInv, FlagsOK, Create
<1>2. resumeRequested \in Int /\ surplus \in Int /\ orphans \in Nat /\ orphans' \in Nat
  BY CreateTold, TakenIsHeldOrPhantom, BoundAssumption DEF ActivityInv, RangesOK
<1>3. RangesOK'
  <2>1. resumeRequested' \in Int
    BY <1>2, CreateTold DEF One
  <2>2. dialog' \in Dialogs \cup {NONE}
    BY BroughtOK, CreateTold DEF Dialogs
  <2> QED
    BY <1>2, <2>1, <2>2 DEF ActivityInv, RangesOK, Create, Lives
<1>4. Leftovers'
  BY <1>0, NoneAssumption DEF ActivityInv, Leftovers, Create, NoBundle, Dialogs, Managed
<1>5. Counted /\ Holders = 1 /\ (~emulator => resumeRequested = 0 /\ surplus = 0 /\ orphans = 0)
  BY NoneAssumption DEF ActivityInv, Leftovers, Create, Holders, One, Holds, Dialogs, Managed
<1>6. resumeRequested = surplus - orphans
  BY <1>2, <1>5 DEF Counted
<1>7. Holders' = 1 + One(Holds(Brought.dialog))
  <2>1. Holds(dialog') <=> Holds(Brought.dialog)
    BY NoneAssumption, CreateTold DEF Holds, Dialogs, Managed
  <2>2. life' = "created" /\ isMenuShowing' = FALSE
    BY DEF Create
  <2> QED
    BY <2>1, <2>2 DEF Holders, One, Holds
<1>8. Counted'
  BY <1>2, <1>6, <1>7, CreateTold, TakenIsHeldOrPhantom DEF Counted, One
<1>9. QuietBehind'
  <2>1. orphans' = 0 => orphans = 0
    BY <1>2, CreateTold, TakenIsHeldOrPhantom
  <2>2. surplus = 0 /\ orphans = 0 => ~(emulator /\ asked) /\ resumeRequested # 1
    BY <1>5, <1>6 DEF ActivityInv, QuietBehind
  <2> QED
    BY <2>1, <2>2, CreateTold DEF QuietBehind
<1>10. StoppedByCount'
  BY DEF StoppedByCount, Create
<1>11. KnownGame'
  BY <1>0 DEF ActivityInv, Leftovers, FlagsOK, KnownGame, Create, NoBundle
<1> QED
  BY <1>1, <1>3, <1>4, <1>8, <1>9, <1>10, <1>11 DEF ActivityInv

----------------------------------------------------------------------------
(* The dialogs, and what other activities answer.                          *)

LEMMA CancelStep ==
  ASSUME ActivityInv, NEW id \in Managed, Cancel(id)
  PROVE  ActivityInv'
<1>1. FlagsOK'
  BY ResumeTold, Zenon
  DEF ActivityInv, FlagsOK, Cancel, DialogEnds, Facing, statics, machine, windows, activity,
      history, Alive
<1>2. RangesOK'
  BY ResumeTold, NoneAssumption, BoundAssumption
  DEF ActivityInv, RangesOK, Lives, Managed, Dialogs, Children, Bundles, Holds, Cancel,
      DialogEnds, Facing, statics, machine, windows, activity, history, Alive
<1>3. Leftovers'
  BY ResumeTold, NoneAssumption
  DEF ActivityInv, RangesOK, Leftovers, Dialogs, Managed, Bundles, Cancel, DialogEnds, Facing,
      statics, machine, windows, activity, history, Alive
<1>4. Counted'
  BY ResumeTold, NoneAssumption
  DEF ActivityInv, RangesOK, Leftovers, Counted, Holders, One, Holds, Dialogs, Managed, Cancel,
      DialogEnds, Facing, statics, machine, windows, activity, history, Alive
<1>5. QuietBehind'
  BY ResumeTold, NoneAssumption
  DEF ActivityInv, RangesOK, Leftovers, Counted, QuietBehind, Holders, One, Holds, Dialogs,
      Managed, Cancel, DialogEnds, Facing, statics, machine, windows, activity, history, Alive
<1>6. StoppedByCount'
  BY ResumeTold, NoneAssumption
  DEF ActivityInv, RangesOK, Leftovers, Counted, StoppedByCount, Holders, One, Holds, Dialogs,
      Managed, Cancel, DialogEnds, Facing, statics, machine, windows, activity, history, Alive
<1>7. KnownGame'
  BY NoneAssumption
  DEF ActivityInv, RangesOK, Leftovers, KnownGame, Cancel, DialogEnds, Facing, statics, machine,
      windows, activity, history, Alive
<1> QED
  BY <1>1, <1>2, <1>3, <1>4, <1>5, <1>6, <1>7 DEF ActivityInv

LEMMA SaveSlotStep ==
  ASSUME ActivityInv, SaveSlot
  PROVE  ActivityInv'
<1>1. FlagsOK'
  BY ResumeTold, Zenon
  DEF ActivityInv, FlagsOK, SaveSlot, DialogEnds, Facing, statics, machine, windows, activity,
      history, Alive
<1>2. RangesOK'
  BY ResumeTold, NoneAssumption, BoundAssumption
  DEF ActivityInv, RangesOK, Lives, Managed, Dialogs, Children, Bundles, Holds, SaveSlot,
      DialogEnds, Facing, statics, machine, windows, activity, history, Alive
<1>3. Leftovers'
  BY ResumeTold, NoneAssumption
  DEF ActivityInv, RangesOK, Leftovers, Dialogs, Managed, Bundles, SaveSlot, DialogEnds, Facing,
      statics, machine, windows, activity, history, Alive
<1>4. Counted'
  BY ResumeTold, NoneAssumption
  DEF ActivityInv, RangesOK, Leftovers, Counted, Holders, One, Holds, Dialogs, Managed,
      SaveSlot, DialogEnds, Facing, statics, machine, windows, activity, history, Alive
<1>5. QuietBehind'
  BY ResumeTold, NoneAssumption
  DEF ActivityInv, RangesOK, Leftovers, Counted, QuietBehind, Holders, One, Holds, Dialogs,
      Managed, SaveSlot, DialogEnds, Facing, statics, machine, windows, activity, history, Alive
<1>6. StoppedByCount'
  BY ResumeTold, NoneAssumption
  DEF ActivityInv, RangesOK, Leftovers, Counted, StoppedByCount, Holders, One, Holds, Dialogs,
      Managed, SaveSlot, DialogEnds, Facing, statics, machine, windows, activity, history, Alive
<1>7. KnownGame'
  BY NoneAssumption
  DEF ActivityInv, RangesOK, Leftovers, KnownGame, SaveSlot, DialogEnds, Facing, statics,
      machine, windows, activity, history, Alive
<1> QED
  BY <1>1, <1>2, <1>3, <1>4, <1>5, <1>6, <1>7 DEF ActivityInv

LEMMA UpgradeStep ==
  ASSUME ActivityInv, Upgrade
  PROVE  ActivityInv'
<1>1. FlagsOK'
  BY Zenon
  DEF ActivityInv, FlagsOK, Upgrade, DialogEnds, Facing, statics, machine, windows, activity,
      history, Alive
<1>2. RangesOK'
  BY NoneAssumption, BoundAssumption
  DEF ActivityInv, RangesOK, Lives, Managed, Dialogs, Children, Bundles, Holds, Upgrade,
      DialogEnds, Facing, statics, machine, windows, activity, history, Alive
<1>3. Leftovers'
  BY NoneAssumption
  DEF ActivityInv, RangesOK, Leftovers, Dialogs, Managed, Bundles, Upgrade, DialogEnds, Facing,
      statics, machine, windows, activity, history, Alive
<1>4. Counted'
  BY NoneAssumption
  DEF ActivityInv, RangesOK, Leftovers, Counted, Holders, One, Holds, Dialogs, Managed, Upgrade,
      DialogEnds, Facing, statics, machine, windows, activity, history, Alive
<1>5. QuietBehind'
  BY NoneAssumption
  DEF ActivityInv, RangesOK, Leftovers, Counted, QuietBehind, Holders, One, Holds, Dialogs,
      Managed, Upgrade, DialogEnds, Facing, statics, machine, windows, activity, history, Alive
<1>6. StoppedByCount'
  BY NoneAssumption
  DEF ActivityInv, RangesOK, Leftovers, Counted, StoppedByCount, Holders, One, Holds, Dialogs,
      Managed, Upgrade, DialogEnds, Facing, statics, machine, windows, activity, history, Alive
<1>7. KnownGame'
  BY NoneAssumption
  DEF ActivityInv, RangesOK, Leftovers, KnownGame, Upgrade, DialogEnds, Facing, statics,
      machine, windows, activity, history, Alive
<1> QED
  BY <1>1, <1>2, <1>3, <1>4, <1>5, <1>6, <1>7 DEF ActivityInv

LEMMA QuitToOtherStep ==
  ASSUME ActivityInv, QuitToOther
  PROVE  ActivityInv'
<1>1. FlagsOK'
  BY ResumeTold, Zenon
  DEF ActivityInv, FlagsOK, QuitToOther, DialogEnds, Facing, statics, machine, windows,
      activity, history, Alive
<1>2. RangesOK'
  BY ResumeTold, NoneAssumption, BoundAssumption
  DEF ActivityInv, RangesOK, Lives, Managed, Dialogs, Children, Bundles, Holds, QuitToOther,
      DialogEnds, Facing, statics, machine, windows, activity, history, Alive
<1>3. Leftovers'
  BY ResumeTold, NoneAssumption
  DEF ActivityInv, RangesOK, Leftovers, Dialogs, Managed, Bundles, QuitToOther, DialogEnds,
      Facing, statics, machine, windows, activity, history, Alive
<1>4. Counted'
  BY ResumeTold, NoneAssumption
  DEF ActivityInv, RangesOK, Leftovers, Counted, Holders, One, Holds, Dialogs, Managed,
      QuitToOther, DialogEnds, Facing, statics, machine, windows, activity, history, Alive
<1>5. QuietBehind'
  BY ResumeTold, NoneAssumption
  DEF ActivityInv, RangesOK, Leftovers, Counted, QuietBehind, Holders, One, Holds, Dialogs,
      Managed, QuitToOther, DialogEnds, Facing, statics, machine, windows, activity, history,
      Alive
<1>6. StoppedByCount'
  BY ResumeTold, NoneAssumption
  DEF ActivityInv, RangesOK, Leftovers, Counted, StoppedByCount, Holders, One, Holds, Dialogs,
      Managed, QuitToOther, DialogEnds, Facing, statics, machine, windows, activity, history,
      Alive
<1>7. KnownGame'
  BY NoneAssumption
  DEF ActivityInv, RangesOK, Leftovers, KnownGame, QuitToOther, DialogEnds, Facing, statics,
      machine, windows, activity, history, Alive
<1> QED
  BY <1>1, <1>2, <1>3, <1>4, <1>5, <1>6, <1>7 DEF ActivityInv

LEMMA QuitGameStep ==
  ASSUME ActivityInv, NEW remember \in BOOLEAN, QuitGame(remember)
  PROVE  ActivityInv'
<1>1. FlagsOK'
  BY Zenon
  DEF ActivityInv, FlagsOK, QuitGame, DialogEnds, Facing, statics, machine, windows, activity,
      history, Alive
<1>2. RangesOK'
  BY NoneAssumption, BoundAssumption
  DEF ActivityInv, RangesOK, Lives, Managed, Dialogs, Children, Bundles, Holds, QuitGame,
      DialogEnds, Facing, statics, machine, windows, activity, history, Alive
<1>3. Leftovers'
  BY NoneAssumption
  DEF ActivityInv, RangesOK, Leftovers, Dialogs, Managed, Bundles, QuitGame, DialogEnds, Facing,
      statics, machine, windows, activity, history, Alive
<1>4. Counted'
  BY NoneAssumption
  DEF ActivityInv, RangesOK, Leftovers, Counted, Holders, One, Holds, Dialogs, Managed,
      QuitGame, DialogEnds, Facing, statics, machine, windows, activity, history, Alive
<1>5. QuietBehind'
  BY NoneAssumption
  DEF ActivityInv, RangesOK, Leftovers, Counted, QuietBehind, Holders, One, Holds, Dialogs,
      Managed, QuitGame, DialogEnds, Facing, statics, machine, windows, activity, history, Alive
<1>6. StoppedByCount'
  BY NoneAssumption
  DEF ActivityInv, RangesOK, Leftovers, Counted, StoppedByCount, Holders, One, Holds, Dialogs,
      Managed, QuitGame, DialogEnds, Facing, statics, machine, windows, activity, history, Alive
<1>7. KnownGame'
  BY NoneAssumption
  DEF ActivityInv, RangesOK, Leftovers, KnownGame, QuitGame, DialogEnds, Facing, statics,
      machine, windows, activity, history, Alive
<1> QED
  BY <1>1, <1>2, <1>3, <1>4, <1>5, <1>6, <1>7 DEF ActivityInv

LEMMA BiosDialogStep ==
  ASSUME ActivityInv, NEW browse \in BOOLEAN, BiosDialog(browse)
  PROVE  ActivityInv'
<1>1. FlagsOK'
  BY Zenon
  DEF ActivityInv, FlagsOK, BiosDialog, DialogEnds, Facing, statics, machine, windows, activity,
      history, Alive
<1>2. RangesOK'
  BY NoneAssumption, BoundAssumption
  DEF ActivityInv, RangesOK, Lives, Managed, Dialogs, Children, Bundles, Holds, BiosDialog,
      DialogEnds, Facing, statics, machine, windows, activity, history, Alive
<1>3. Leftovers'
  BY NoneAssumption
  DEF ActivityInv, RangesOK, Leftovers, Dialogs, Managed, Bundles, BiosDialog, DialogEnds,
      Facing, statics, machine, windows, activity, history, Alive
<1>4. Counted'
  BY NoneAssumption
  DEF ActivityInv, RangesOK, Leftovers, Counted, Holders, One, Holds, Dialogs, Managed,
      BiosDialog, DialogEnds, Facing, statics, machine, windows, activity, history, Alive
<1>5. QuietBehind'
  BY NoneAssumption
  DEF ActivityInv, RangesOK, Leftovers, Counted, QuietBehind, Holders, One, Holds, Dialogs,
      Managed, BiosDialog, DialogEnds, Facing, statics, machine, windows, activity, history,
      Alive
<1>6. StoppedByCount'
  BY NoneAssumption
  DEF ActivityInv, RangesOK, Leftovers, Counted, StoppedByCount, Holders, One, Holds, Dialogs,
      Managed, BiosDialog, DialogEnds, Facing, statics, machine, windows, activity, history,
      Alive
<1>7. KnownGame'
  BY NoneAssumption
  DEF ActivityInv, RangesOK, Leftovers, KnownGame, BiosDialog, DialogEnds, Facing, statics,
      machine, windows, activity, history, Alive
<1> QED
  BY <1>1, <1>2, <1>3, <1>4, <1>5, <1>6, <1>7 DEF ActivityInv

LEMMA ResultStep ==
  ASSUME ActivityInv, NEW chosen \in BOOLEAN, NEW ok \in BOOLEAN, Result(chosen, ok)
  PROVE  ActivityInv'
<1>1. /\ resumeRequested' = resumeRequested
      /\ asked' \in BOOLEAN
      /\ (asked' <=> asked) \/ (asked' /\ resumeRequested = 1)
  <2>1. CASE child = "SETTINGS"
    BY <2>1, RefreshTold DEF Result
  <2>2. CASE child # "SETTINGS"
    BY <2>2, Zenon DEF Result, ActivityInv, FlagsOK
  <2> QED
    BY <2>1, <2>2
<1>2. FlagsOK'
  <2>1. /\ romLoaded' \in BOOLEAN /\ currentGame' \in BOOLEAN /\ nameOnly' \in BOOLEAN
    BY Zenon DEF Result, LoadROM, ActivityInv, FlagsOK
  <2> QED
    BY <1>1, <2>1, Zenon DEF Result, ActivityInv, FlagsOK, activity
<1>3. RangesOK'
  BY <1>1 DEF ActivityInv, RangesOK, Dialogs, Result, activity
<1>4. Leftovers'
  BY <1>1, NoneAssumption DEF ActivityInv, Leftovers, Result, activity, Alive, Managed
<1>5. Holders' = Holders
  BY NoneAssumption
  DEF Result, Holders, One, Holds, activity, Dialogs, Managed, ActivityInv, Leftovers
<1>6. life # "resumed" /\ Holders >= 1 /\ Holders \in Int
  BY DEF Result, Holders, One
<1>7. Counted'
  BY <1>1, <1>5 DEF ActivityInv, Counted, Result
<1>8. QuietBehind'
  BY <1>1, <1>5, <1>6 DEF ActivityInv, RangesOK, Counted, QuietBehind, Result
<1>9. StoppedByCount'
  BY <1>1 DEF ActivityInv, StoppedByCount, Result, activity
<1>10. KnownGame'
  BY DEF ActivityInv, KnownGame, Result, LoadROM, activity, Alive
<1> QED
  BY <1>2, <1>3, <1>4, <1>7, <1>8, <1>9, <1>10 DEF ActivityInv

----------------------------------------------------------------------------
(* A dialog is opened by showDialog, which adds it to what is managed, or  *)
(* brought back with all that was.                                         *)
LEMMA ManagedStep == ActivityInv /\ ManagedOK /\ [Next]_vars => ManagedOK'
<1> SUFFICES ASSUME ActivityInv, ManagedOK, [Next]_vars PROVE ManagedOK'
  OBVIOUS
<1>1. ASSUME UNCHANGED dialog, UNCHANGED managed PROVE ManagedOK'
  BY <1>1 DEF ManagedOK
<1>2. ASSUME NEW bios, NEW stateFile, NEW ok, Create(bios, stateFile, ok) PROVE ManagedOK'
  <2>1. managed' = Brought.managed
    BY <1>2 DEF Create, Brought
  <2> QED
    BY <1>2, <2>1, BroughtOK, CreateTold, NoneAssumption DEF ManagedOK, Dialogs, Managed
<1>3. ASSUME Gone PROVE ManagedOK'
  BY <1>3, NoneAssumption DEF Gone, ManagedOK, Dialogs, Managed
<1>4. ASSUME NEW id \in Managed \cup {NONE}, NEW started, Select(id, started) PROVE ManagedOK'
  BY <1>4, NoneAssumption DEF Select, ManagedOK, Dialogs
<1>5. ASSUME NEW id, DialogEnds(id) PROVE ManagedOK'
  BY <1>5, NoneAssumption DEF DialogEnds, ManagedOK, Dialogs
<1>6. CASE LifeCycle
  <2>1. CASE OnResume \/ OnPause \/ OnStop \/ OnDestroy \/ FocusGained \/ FocusLost
    <3>1. UNCHANGED <<dialog, managed>>
      BY <2>1 DEF OnResume, OnPause, OnStop, OnDestroy, FocusGained, FocusLost, windows, activity
    <3> QED
      BY <1>1, <3>1
  <2>2. CASE Recreate \/ Retire \/ Kill \/ Crash
    BY <1>3, <2>2 DEF Recreate, Retire, Kill, Crash, ProcessEnds
  <2> QED
    BY <1>2, <1>6, <2>1, <2>2, Zenon DEF LifeCycle
<1>7. CASE BackKey
  <2>1. CASE currentGame
    BY <1>7, <2>1 DEF BackKey, ManagedOK, Managed
  <2>2. CASE ~currentGame
    BY <1>1, <1>7, <2>2 DEF BackKey
  <2> QED
    BY <2>1, <2>2
<1>8. ASSUME NEW chosen, NEW ok, Result(chosen, ok) PROVE ManagedOK'
  BY <1>8 DEF Result, activity, ManagedOK, Managed
<1>9. CASE OpenMenu \/ CloseMenu \/ QuickKey
  BY <1>1, <1>3, <1>9 DEF OpenMenu, CloseMenu, QuickKey, ProcessEnds, activity
<1>10. CASE SelectOther \/ SelectState \/ SelectClose \/ SelectQuit
  BY <1>4, <1>10 DEF SelectOther, SelectState, SelectClose, SelectQuit, Managed
<1>11. CASE SaveSlot \/ Upgrade \/ QuitToOther \/ (\E id \in Managed : Cancel(id))
            \/ (\E choice \in BOOLEAN : QuitGame(choice) \/ BiosDialog(choice))
  BY <1>5, <1>11 DEF SaveSlot, Upgrade, QuitToOther, Cancel, QuitGame, BiosDialog
<1>12. CASE UNCHANGED vars
  BY <1>1, <1>12 DEF vars, windows, activity
<1> QED
  BY <1>6, <1>7, <1>8, <1>9, <1>10, <1>11, <1>12 DEF Next, User

(* ActivityInv holds of every reachable state: the counter is what is open *)
(* and what was given or taken astray, through every life cycle, with the  *)
(* restored dialogs that are prepared and not shown counted as astray.     *)
THEOREM ActivityInvariant == Spec => [](ActivityInv /\ ManagedOK)
<1>1. Init => ActivityInv /\ ManagedOK
  <2> SUFFICES ASSUME Init PROVE ActivityInv /\ ManagedOK
    OBVIOUS
  <2>1. FlagsOK
    BY DEF Init, FlagsOK
  <2>2. RangesOK
    BY BoundAssumption DEF Init, RangesOK, Lives
  <2>3. Counted
    BY DEF Init, Counted
  <2>4. Leftovers /\ QuietBehind /\ StoppedByCount /\ KnownGame
    BY DEF Init, Leftovers, QuietBehind, StoppedByCount, KnownGame
  <2>5. ManagedOK
    BY NoneAssumption DEF Init, ManagedOK, Dialogs
  <2> QED
    BY <2>1, <2>2, <2>3, <2>4, <2>5 DEF ActivityInv
<1>2. ActivityInv /\ ManagedOK /\ [Next]_vars => ActivityInv'
  <2> SUFFICES ASSUME ActivityInv, ManagedOK, [Next]_vars PROVE ActivityInv'
    OBVIOUS
  <2>1. CASE LifeCycle
    BY <2>1, CreateStep, OnResumeStep, OnPauseStep, OnStopStep, RecreateStep, RetireStep,
       OnDestroyStep, KillStep, CrashStep, FocusGainedStep, FocusLostStep DEF LifeCycle
  <2>2. CASE User
    BY <2>2, OpenMenuStep, CloseMenuStep, SelectOtherStep, SelectStateStep, SelectCloseStep,
       SelectQuitStep, BackKeyStep, QuickKeyStep, SaveSlotStep, UpgradeStep, QuitToOtherStep,
       CancelStep, QuitGameStep, BiosDialogStep, ResultStep DEF User
  <2>3. CASE UNCHANGED vars
    BY <2>3
    DEF vars, statics, machine, windows, activity, history, ActivityInv, FlagsOK, RangesOK,
        Leftovers, Counted, QuietBehind, StoppedByCount, KnownGame, Holders, Holds
  <2> QED
    BY <2>1, <2>2, <2>3 DEF Next
<1> QED
  BY <1>1, <1>2, ManagedStep, PTL DEF Spec

(* Every variable has its type in every reachable state.                   *)
THEOREM ActivityTypes == Spec => []TypeOK
<1>1. ActivityInv /\ ManagedOK => TypeOK
  BY DEF ActivityInv, ManagedOK, FlagsOK, RangesOK, TypeOK
<1> QED
  BY <1>1, ActivityInvariant, PTL

(* The counter is what is open, but for the dialogs that gave back what    *)
(* they never took, and for the holds that nothing on the screen gives     *)
(* back: of a dialog that went with its activity, and of each that had     *)
(* been closed before and is prepared again when Android restores them all *)
(* (pauseEmulator, resumeEmulator, onPrepareDialog).                       *)
THEOREM CounterIsWhatIsOpen == Spec => []Counted
<1>1. ActivityInv => Counted
  BY DEF ActivityInv
<1> QED
  BY <1>1, ActivityInvariant, PTL

(* While no hold was given back or taken too often, no game goes on behind *)
(* a menu, a dialog or another activity; once one was, as by a restored    *)
(* dialog that is not shown, nothing is claimed: the menu opened then does *)
(* not stop the game.                                                      *)
THEOREM NothingRunsBehind == Spec => []QuietBehind
<1>1. ActivityInv => QuietBehind
  BY DEF ActivityInv
<1> QED
  BY <1>1, ActivityInvariant, PTL

(* However many went astray, the game the user can reach has been told to  *)
(* run.                                                                    *)
THEOREM TheGameInFrontRuns == Spec => []RunsInFront
<1>1. ActivityInv => RunsInFront
  <2> SUFFICES ASSUME ActivityInv, Reached, ~asked PROVE FALSE
    BY DEF RunsInFront
  <2>1. Holders = 0 /\ emulator /\ hasFocus /\ ~finishing
    BY NoneAssumption DEF Reached, InFront, Facing, Alive, Holders, One, Holds, Dialogs, Managed
  <2>2. resumeRequested = 1 + surplus - orphans
    BY <2>1 DEF ActivityInv, Counted, RangesOK
  <2>3. resumeRequested <= 0 /\ 1 + surplus - orphans >= 1
    BY <2>1 DEF ActivityInv, StoppedByCount
  <2> QED
    BY <2>2, <2>3 DEF ActivityInv, RangesOK
<1> QED
  BY <1>1, ActivityInvariant, PTL

(* The activity's name and the machine's game go together, but for a name  *)
(* that was taken without its ROM.                                         *)
THEOREM NameGoesWithGame == Spec => []NameAndGame
<1>1. ActivityInv => NameAndGame
  BY DEF ActivityInv, KnownGame, NameAndGame, Alive
<1> QED
  BY <1>1, ActivityInvariant, PTL

-----------------------------------------------------------------------------
(***************************************************************************)
(* The keys of the game (KeyInput), which the activity merges.             *)
(***************************************************************************)

(* A key that is down on the keyboard is held in front of the game, and    *)
(* unless keys with a common direction were let go, each of those is down. *)
KeyboardHeld ==
  /\ focus => pressed \subseteq down
  /\ keyboard \subseteq Under(pressed)
  /\ ~torn => Under(pressed) \subseteq keyboard

KeypadTouched == keypad \subseteq (UNION {under[f] : f \in touching}) \cup lifted

(* When the window came back with the trackball rolled, the emulator was   *)
(* told that nothing is held.                                              *)
UntoldIsNothing == focus /\ untold => keyStates = {} /\ pressed = {}

(* What the guest reads is what the next frame compares with, but after a  *)
(* reset.                                                                  *)
KeyIsRead == ~forgot => P1 = key \cap Buttons

KeyInv ==
  /\ KeysTypeOK
  /\ KeyboardHeld /\ KeypadTouched /\ UntoldIsNothing /\ KeyIsRead
  /\ ToldIsMerged

LEMMA ResolvedKeeps ==
  ASSUME NEW s
  PROVE  /\ Resolved(s) \subseteq s
         /\ \A g \in s : g \in Resolved(s) \/ Opposite(g) \in s
BY DEF Resolved, Opposite

LEMMA TellsMerged ==
  ASSUME NEW kb \in SUBSET GameKeys, NEW kp \in SUBSET GameKeys,
         NEW tb \in SUBSET GameKeys, OnGameKeyChanged(kb, kp, tb)
  PROVE  /\ ToldIsMerged' /\ UntoldIsNothing'
         /\ keyboard' = kb /\ keypad' = kp /\ untold' = FALSE
         /\ {keyboard', keypad', trackball', keyStates'} \subseteq SUBSET GameKeys
<1>1. keyboard' = kb /\ keypad' = kp /\ untold' = FALSE
  BY DEF OnGameKeyChanged
<1>2. keyStates' = Merged'
  BY <1>1 DEF OnGameKeyChanged, Merged, Resolved
<1>3. {keyboard', keypad', trackball', keyStates'} \subseteq SUBSET GameKeys
  BY <1>1, ResolvedKeeps DEF OnGameKeyChanged
<1>. QED BY <1>1, <1>2, <1>3 DEF ToldIsMerged, UntoldIsNothing

LEMMA KeyInvInit == KeysInit => KeyInv
<1>. SUFFICES ASSUME KeysInit PROVE KeyInv
  OBVIOUS
<1>1. KeysTypeOK
  BY DEF KeysInit, KeysTypeOK, KeySetsOK, KeyFlagsOK, Control, Off
<1>2. KeyboardHeld /\ KeypadTouched /\ KeyIsRead
  BY DEF KeysInit, KeyboardHeld, KeypadTouched, KeyIsRead, Under
<1>3. UntoldIsNothing /\ ToldIsMerged
  BY DEF KeysInit, UntoldIsNothing, ToldIsMerged
<1>. QED BY <1>1, <1>2, <1>3 DEF KeyInv

LEMMA KeyDownStep ==
  ASSUME KeyInv, NEW p \in KeyCodes, KeyDown(p)
  PROVE  KeyInv'
<1>1. keysMap[p] \subseteq GameKeys
  BY KeyAssumption
<1>2. CASE focus
  <2>1. OnGameKeyChanged(keyboard \cup keysMap[p], keypad, trackball)
    BY <1>2 DEF KeyDown
  <2>2. /\ ToldIsMerged' /\ UntoldIsNothing'
        /\ keyboard' = keyboard \cup keysMap[p] /\ keypad' = keypad /\ untold' = FALSE
        /\ {keyboard', keypad', trackball', keyStates'} \subseteq SUBSET GameKeys
    BY <1>1, <2>1, TellsMerged DEF KeyInv, KeysTypeOK, KeySetsOK
  <2>3. KeySetsOK'
    BY <1>2, <2>2 DEF KeyDown, KeyInv, KeysTypeOK, KeySetsOK, keyMachine
  <2>6. KeyFlagsOK'
    BY <1>2, <2>2 DEF KeyDown, KeyInv, KeysTypeOK, KeyFlagsOK, keyMachine
  <2>4. KeyboardHeld'
    BY <1>2, <2>2 DEF KeyDown, KeyInv, KeyboardHeld, Under
  <2>5. KeypadTouched' /\ KeyIsRead'
    BY <2>2 DEF KeyDown, KeyInv, KeypadTouched, KeyIsRead, keyMachine
  <2>. QED BY <2>2, <2>3, <2>4, <2>5, <2>6 DEF KeyInv, KeysTypeOK
<1>3. CASE ~focus
  BY <1>3 DEF KeyDown, KeyInv, KeysTypeOK, KeySetsOK, KeyFlagsOK, KeyboardHeld, KeypadTouched,
              UntoldIsNothing, KeyIsRead, ToldIsMerged, Merged, states, keyMachine, Under
<1>. QED BY <1>2, <1>3

LEMMA KeyUpStep ==
  ASSUME KeyInv, NEW p \in KeyCodes, KeyUp(p)
  PROVE  KeyInv'
<1>2. CASE focus
  <2>1. OnGameKeyChanged(keyboard \ keysMap[p], keypad, trackball)
    BY <1>2 DEF KeyUp
  <2>2. /\ ToldIsMerged' /\ UntoldIsNothing'
        /\ keyboard' = keyboard \ keysMap[p] /\ keypad' = keypad /\ untold' = FALSE
        /\ {keyboard', keypad', trackball', keyStates'} \subseteq SUBSET GameKeys
    BY <2>1, TellsMerged DEF KeyInv, KeysTypeOK, KeySetsOK
  <2>3. KeySetsOK'
    BY <1>2, <2>2 DEF KeyUp, KeyInv, KeysTypeOK, KeySetsOK, keyMachine
  <2>4. KeyFlagsOK'
    BY <1>2, <2>2 DEF KeyUp, KeyInv, KeysTypeOK, KeyFlagsOK, keyMachine
  <2>5. KeyboardHeld'
    <3>1. pressed' = pressed \ {p} /\ down' = down \ {p} /\ focus' = focus
      BY <1>2 DEF KeyUp
    <3>2. keyboard' \subseteq Under(pressed')
      BY <2>2, <3>1 DEF KeyInv, KeyboardHeld, Under
    <3>3. ASSUME ~torn' PROVE Under(pressed') \subseteq keyboard'
      <4>1. \/ pressed' = {}
            \/ ~torn /\ \A o \in pressed' : keysMap[o] \cap keysMap[p] = {}
        BY <1>2, <3>3 DEF KeyUp
      <4>. QED BY <2>2, <3>1, <4>1 DEF KeyInv, KeyboardHeld, Under
    <3>. QED BY <1>2, <3>1, <3>2, <3>3 DEF KeyInv, KeyboardHeld, Under
  <2>6. KeypadTouched' /\ KeyIsRead'
    BY <2>2 DEF KeyUp, KeyInv, KeypadTouched, KeyIsRead, keyMachine
  <2>. QED BY <2>2, <2>3, <2>4, <2>5, <2>6 DEF KeyInv, KeysTypeOK
<1>3. CASE ~focus
  BY <1>3 DEF KeyUp, KeyInv, KeysTypeOK, KeySetsOK, KeyFlagsOK, KeyboardHeld, KeypadTouched,
              UntoldIsNothing, KeyIsRead, ToldIsMerged, Merged, states, keyMachine,
              Under
<1>. QED BY <1>2, <1>3

LEMMA RollStep ==
  ASSUME KeyInv, NEW tb \in SUBSET Directions, Roll(tb)
  PROVE  KeyInv'
<1>1. tb \subseteq GameKeys
  BY DEF GameKeys, Buttons
<1>2. /\ ToldIsMerged' /\ UntoldIsNothing'
      /\ keyboard' = keyboard /\ keypad' = keypad /\ untold' = FALSE
      /\ {keyboard', keypad', trackball', keyStates'} \subseteq SUBSET GameKeys
  BY <1>1, TellsMerged DEF Roll, KeyInv, KeysTypeOK, KeySetsOK
<1>3. KeySetsOK'
  BY <1>2 DEF Roll, KeyInv, KeysTypeOK, KeySetsOK, user, keyMachine
<1>4. KeyFlagsOK'
  BY <1>2 DEF Roll, KeyInv, KeysTypeOK, KeyFlagsOK, keyMachine
<1>5. KeyboardHeld' /\ KeypadTouched' /\ KeyIsRead'
  BY <1>2 DEF Roll, KeyInv, KeyboardHeld, KeypadTouched, KeyIsRead, Under,
              user, keyMachine
<1>. QED BY <1>2, <1>3, <1>4, <1>5 DEF KeyInv, KeysTypeOK

(* Every event of a touch that onTouch knows sets the keypad anew.         *)
LEMMA TouchedStep ==
  ASSUME KeyInv, NEW fs \in SUBSET Fingers, NEW at \in [Fingers -> SUBSET GameKeys],
         Touched(fs, at)
  PROVE  KeyInv'
<1> DEFINE new == UNION {at[f] : f \in fs}
<1>1. /\ ToldIsMerged' /\ UntoldIsNothing'
      /\ keyboard' = keyboard /\ keypad' = new /\ untold' \in BOOLEAN
      /\ {keyboard', keypad', trackball', keyStates'} \subseteq SUBSET GameKeys
  <2>1. new \in SUBSET GameKeys
    OBVIOUS
  <2>2. CASE new = keypad
    BY <2>2 DEF Touched, SetKeyStates, KeyInv, KeysTypeOK, KeySetsOK, KeyFlagsOK,
                states, ToldIsMerged, Merged, UntoldIsNothing
  <2>3. CASE new # keypad
    <3>1. OnGameKeyChanged(keyboard, new, trackball)
      BY <2>3 DEF Touched, SetKeyStates
    <3>. QED BY <2>1, <3>1, TellsMerged DEF KeyInv, KeysTypeOK, KeySetsOK
  <2>. QED BY <2>2, <2>3
<1>2. KeySetsOK'
  BY <1>1 DEF Touched, KeyInv, KeysTypeOK, KeySetsOK, keyMachine
<1>3. KeyFlagsOK'
  BY <1>1 DEF Touched, KeyInv, KeysTypeOK, KeyFlagsOK, keyMachine
<1>4. KeyboardHeld' /\ KeyIsRead'
  BY <1>1 DEF Touched, KeyInv, KeyboardHeld, KeyIsRead, Under, keyMachine
<1>5. KeypadTouched'
  BY <1>1 DEF Touched, KeypadTouched
<1>. QED BY <1>1, <1>2, <1>3, <1>4, <1>5 DEF KeyInv, KeysTypeOK

LEMMA PointerUpStep ==
  ASSUME KeyInv, NEW f \in Fingers, PointerUp(f)
  PROVE  KeyInv'
<1>1. KeySetsOK'
  BY DEF PointerUp, KeyInv, KeysTypeOK, KeySetsOK, states, keyMachine
<1>2. KeyFlagsOK' /\ KeyboardHeld' /\ KeyIsRead' /\ UntoldIsNothing' /\ ToldIsMerged'
  BY DEF PointerUp, KeyInv, KeysTypeOK, KeyFlagsOK, states, keyMachine,
         KeyboardHeld, KeyIsRead, UntoldIsNothing, ToldIsMerged, Merged, Under
<1>3. KeypadTouched'
  BY DEF PointerUp, KeyInv, KeypadTouched, KeysTypeOK, KeySetsOK, states
<1>. QED BY <1>1, <1>2, <1>3 DEF KeyInv, KeysTypeOK

LEMMA FocusStep ==
  ASSUME KeyInv, KeysFocusLost \/ KeysFocusGained
  PROVE  KeyInv'
<1>1. KeySetsOK'
  BY DEF KeysFocusLost, KeysFocusGained, KeyInv, KeysTypeOK, KeySetsOK, user, keyMachine
<1>2. KeyFlagsOK'
  BY DEF KeysFocusLost, KeysFocusGained, KeyInv, KeysTypeOK, KeyFlagsOK, keyMachine
<1>3. KeyboardHeld' /\ KeypadTouched' /\ KeyIsRead'
  BY DEF KeysFocusLost, KeysFocusGained, KeyInv, KeyboardHeld, KeypadTouched, KeyIsRead,
         Under, user, keyMachine
<1>4. UntoldIsNothing' /\ ToldIsMerged'
  BY DEF KeysFocusLost, KeysFocusGained, UntoldIsNothing, ToldIsMerged, Merged,
         Resolved
<1>. QED BY <1>1, <1>2, <1>3, <1>4 DEF KeyInv, KeysTypeOK

LEMMA ResumeStep ==
  ASSUME KeyInv, ResumeEmulator
  PROVE  KeyInv'
<1>1. /\ ToldIsMerged' /\ UntoldIsNothing'
      /\ keyboard' = {} /\ keypad' = {} /\ untold' = FALSE
      /\ {keyboard', keypad', trackball', keyStates'} \subseteq SUBSET GameKeys
  BY TellsMerged DEF ResumeEmulator
<1>2. KeySetsOK'
  BY <1>1 DEF ResumeEmulator, KeyInv, KeysTypeOK, KeySetsOK, user, keyMachine
<1>3. KeyFlagsOK'
  BY <1>1 DEF ResumeEmulator, KeyInv, KeysTypeOK, KeyFlagsOK, keyMachine
<1>4. KeyboardHeld' /\ KeypadTouched' /\ KeyIsRead'
  BY <1>1 DEF ResumeEmulator, KeyInv, KeyboardHeld, KeypadTouched, KeyIsRead, Under,
              keyMachine
<1>. QED BY <1>1, <1>2, <1>3, <1>4 DEF KeyInv, KeysTypeOK

(* The emulator thread changes nothing of what the user interface keeps.   *)
LEMMA MachineStep ==
  ASSUME KeyInv,
         \/ UpdateInput \/ ResetGba
         \/ \E cnt \in Controls : SetP1CNT(cnt)
         \/ \E s \in Saved : LoadState(s)
  PROVE  KeyInv'
<1>1. UNCHANGED <<user, focus, states, keyStates, keyHistory>>
  BY DEF UpdateInput, ResetGba, SetP1CNT, LoadState
<1>2. KeyboardHeld' /\ KeypadTouched' /\ UntoldIsNothing' /\ ToldIsMerged'
  BY <1>1 DEF KeyInv, KeyboardHeld, KeypadTouched, UntoldIsNothing, ToldIsMerged, Merged,
              Under, user, states, keyHistory
<1>3. KeyIsRead'
  BY DEF UpdateInput, ResetGba, SetP1CNT, LoadState, KeyInv, KeyIsRead
<1>4. key' \subseteq GameKeys /\ P1' \subseteq Buttons /\ P1CNT' \in Control
  <2>1. CASE UpdateInput
    BY <2>1 DEF UpdateInput, KeyInv, KeysTypeOK, KeySetsOK, GameKeys, Buttons
  <2>2. CASE ResetGba
    BY <2>2 DEF ResetGba, KeyInv, KeysTypeOK, KeySetsOK, Control, Off
  <2>3. ASSUME NEW cnt \in Controls, SetP1CNT(cnt)
        PROVE  key' \subseteq GameKeys /\ P1' \subseteq Buttons /\ P1CNT' \in Control
    BY KeyAssumption, <2>3 DEF SetP1CNT, KeyInv, KeysTypeOK, KeySetsOK
  <2>4. ASSUME NEW s \in Saved, LoadState(s)
        PROVE  key' \subseteq GameKeys /\ P1' \subseteq Buttons /\ P1CNT' \in Control
    <3>1. s.key \subseteq GameKeys /\ s.P1 \subseteq Buttons /\ s.P1CNT \in Control
      BY KeyAssumption
    <3>. QED BY <2>4, <3>1 DEF LoadState
  <2>. QED BY <2>1, <2>2, <2>3, <2>4
<1>5. KeySetsOK'
  BY <1>1, <1>4 DEF KeyInv, KeysTypeOK, KeySetsOK, user, states, keyHistory
<1>6. KeyFlagsOK'
  <2>1. turbo' \in BOOLEAN /\ irq' \in BOOLEAN /\ forgot' \in BOOLEAN
    BY DEF UpdateInput, ResetGba, SetP1CNT, LoadState, KeyInv, KeysTypeOK,
           KeyFlagsOK
  <2>. QED BY <1>1, <2>1 DEF KeyInv, KeysTypeOK, KeyFlagsOK, keyHistory
<1>. QED BY <1>2, <1>3, <1>5, <1>6 DEF KeyInv, KeysTypeOK

LEMMA KeyStep ==
  ASSUME KeyInv, [KeysNext]_keyVars
  PROVE  KeyInv'
<1>1. ASSUME NEW p \in KeyCodes, KeyDown(p) \/ KeyUp(p)
      PROVE  KeyInv'
  BY <1>1, KeyDownStep, KeyUpStep
<1>2. ASSUME \/ \E d \in Balls : Roll({d})
             \/ Roll({})
      PROVE  KeyInv'
  BY KeyAssumption, <1>2, RollStep
<1>3. ASSUME NEW f \in Fingers, PointerUp(f)
      PROVE  KeyInv'
  BY <1>3, PointerUpStep
<1>4. ASSUME NEW f \in Fingers, NEW z \in Zones, PointerDown(f, z) \/ Move(f, z)
      PROVE  KeyInv'
  <2>1. [under EXCEPT ![f] = z] \in [Fingers -> SUBSET GameKeys]
    BY KeyAssumption DEF KeyInv, KeysTypeOK, KeySetsOK
  <2>2. touching \in SUBSET Fingers /\ touching \cup {f} \in SUBSET Fingers
    BY DEF KeyInv, KeysTypeOK, KeySetsOK
  <2>. QED BY <1>4, <2>1, <2>2, TouchedStep DEF PointerDown, Move
<1>5. CASE Up
  BY <1>5, TouchedStep DEF Up
<1>6. CASE KeysFocusLost \/ KeysFocusGained \/ ResumeEmulator
  BY <1>6, FocusStep, ResumeStep
<1>7. CASE \/ UpdateInput \/ ResetGba
           \/ \E cnt \in Controls : SetP1CNT(cnt)
           \/ \E s \in Saved : LoadState(s)
  BY <1>7, MachineStep
<1>8. CASE UNCHANGED keyVars
  BY <1>8 DEF keyVars, user, states, keyMachine, keyHistory, KeyInv, KeysTypeOK,
              KeySetsOK, KeyFlagsOK, KeyboardHeld, KeypadTouched, UntoldIsNothing, KeyIsRead,
              ToldIsMerged, Merged, Under
<1>. QED BY <1>1, <1>2, <1>3, <1>4, <1>5, <1>6, <1>7, <1>8 DEF KeysNext

(* Whatever keys, fingers and states there are, each frame of the machine  *)
(* and each event of the user interface (Agba.java, emulator.cpp, input.c) *)
(* keep the invariant.                                                     *)
THEOREM KeyInvariant == KeysSpec => []KeyInv
<1>1. KeyInv /\ [KeysNext]_keyVars => KeyInv'
  BY KeyStep
<1>. QED BY <1>1, KeyInvInit, PTL DEF KeysSpec

(* Whenever the window has the focus, the native side was last told the    *)
(* merge of the keys that are held (onGameKeyChanged), unless the          *)
(* trackball was rolled away from it and nothing was told since.           *)
THEOREM KeysAreTold == KeysSpec => []ToldIsMerged
<1>1. KeyInv => ToldIsMerged
  BY DEF KeyInv
<1>. QED BY <1>1, KeyInvariant, PTL

(* No key is told to the game that nobody holds: each comes from a key     *)
(* that is down, a finger that touches, or the trackball, but for the zone *)
(* of a finger that was lifted while others stayed.                        *)
THEOREM NoKeyStuck == KeysSpec => []NothingStuck
<1>1. ASSUME KeyInv, focus
      PROVE  keyStates \subseteq Under(down) \cup (UNION {under[f] : f \in touching})
                                   \cup trackball \cup lifted
  <2>1. keyboard \subseteq Under(down)
    BY <1>1 DEF KeyInv, KeyboardHeld, Under
  <2>2. Merged \subseteq keyboard \cup keypad \cup trackball
    BY ResolvedKeeps DEF Merged
  <2>3. keyStates \subseteq keyboard \cup keypad \cup trackball
    BY <1>1, <2>2 DEF KeyInv, ToldIsMerged, UntoldIsNothing
  <2>. QED BY <1>1, <2>1, <2>3 DEF KeyInv, KeypadTouched
<1>2. KeyInv => NothingStuck
  BY <1>1 DEF NothingStuck
<1>. QED BY <1>2, KeyInvariant, PTL

(* No key that is held is lost in the merge, but for one of two opposite   *)
(* directions or after a key that shares directions was let go.            *)
THEOREM HeldKeysAreTold == KeysSpec => []HeldIsTold
<1>1. ASSUME KeyInv, focus, ~torn, NEW p \in pressed, NEW g \in keysMap[p]
      PROVE  g \in keyStates \/ Opposite(g) \in keyboard \cup keypad
  <2> DEFINE keys == keyboard \cup keypad
  <2>1. g \in keyboard
    BY <1>1 DEF KeyInv, KeyboardHeld, Under
  <2>2. keyStates = Merged
    BY <1>1 DEF KeyInv, UntoldIsNothing, ToldIsMerged
  <2>3. CASE keys \cap Directions = {}
    BY <2>1, <2>2, <2>3 DEF Merged, Resolved, Directions
  <2>4. CASE keys \cap Directions # {}
    BY <2>1, <2>2, <2>4, ResolvedKeeps DEF Merged
  <2>. QED BY <2>3, <2>4
<1>2. KeyInv => HeldIsTold
  BY <1>1 DEF HeldIsTold
<1>. QED BY <1>2, KeyInvariant, PTL

(* A frame that makes the pressed keys meet the guest's condition asks for *)
(* the key interrupt, but right after a reset (update_input).              *)
THEOREM PressesInterrupt == KeysSpec => PressInterrupts
<1>1. ASSUME KeyInv, [KeysNext]_keyVars, turbo' # turbo,
             Selected(P1CNT, P1'), ~Selected(P1CNT, P1)
      PROVE  irq' \/ forgot
  <2>1. UpdateInput
    BY <1>1 DEF KeysNext, keyVars, KeyDown, KeyUp, Roll, PointerUp,
       PointerDown, Move, Touched, Up, KeysFocusLost, KeysFocusGained,
       ResumeEmulator, ResetGba, SetP1CNT, LoadState, keyMachine
  <2> DEFINE new == keyStates \cup {b \in {"A", "B"} : turbo' /\ Turbo(b) \in keyStates}
  <2>2. /\ irq' <=> ~(new \subseteq key) /\ Selected(P1CNT, new)
        /\ P1' = new \cap Buttons
    BY <2>1 DEF UpdateInput
  <2>3. P1CNT.keys \subseteq Buttons
    BY <1>1 DEF KeyInv, KeysTypeOK, KeySetsOK, Control
  <2>4. Selected(P1CNT, new)
    BY <1>1, <2>2, <2>3 DEF Selected
  <2>5. ASSUME new \subseteq key, ~forgot PROVE FALSE
    <3>1. P1' \subseteq P1
      BY <1>1, <2>2, <2>5 DEF KeyInv, KeyIsRead
    <3>. QED BY <1>1, <3>1 DEF Selected
  <2>. QED BY <2>2, <2>4, <2>5
<1>2. KeyInv /\ [KeysNext]_keyVars
        => [turbo' # turbo /\ Selected(P1CNT, P1') /\ ~Selected(P1CNT, P1)
              => irq' \/ forgot]_keyVars
  BY <1>1
<1>. QED BY <1>2, KeyInvariant, PTL DEF KeysSpec, PressInterrupts
=============================================================================
