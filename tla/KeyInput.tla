------------------------------ MODULE KeyInput ------------------------------
(***************************************************************************)
(* From the keys of the telephone to the key register of the machine: the  *)
(* keyboard, the trackball and the touched keypad (gba/input/*.java), the  *)
(* activity that merges them (Agba.java), the word through which the       *)
(* user interface tells the emulator thread (emulator.cpp), and            *)
(* update_input, which reads it once in each frame (input.c).              *)
(*                                                                         *)
(* A set of bits is a set of keys.  Left out: where the controls are,      *)
(* vibration, keys the activity takes for itself, when the machine runs    *)
(* (AgbaActivity, EmuThread: a frame may come at any time), the trackball  *)
(* and the keypad switched off, and a recreated activity, which begins as  *)
(* after ResumeEmulator.                                                   *)
(***************************************************************************)
EXTENDS Integers, FiniteSets

CONSTANTS
  KeyCodes,    \* keys of the telephone
  keysMap,     \* the game keys that each is mapped to
  Zones,       \* the game keys under a finger, for each place of the keypad
  Fingers,
  Balls,       \* the directions of the trackball
  Controls,    \* what the guest may write to P1CNT
  Saved        \* the states there are to load: [key, P1, P1CNT] of each

Directions == {"UP", "DOWN", "LEFT", "RIGHT"}
Buttons    == Directions \cup {"A", "B", "SELECT", "START", "TL", "TR"}
Turbo(b)   == CASE b = "A" -> "A_TURBO" [] b = "B" -> "B_TURBO" [] OTHER -> "NONE"
GameKeys   == Buttons \cup {"A_TURBO", "B_TURBO"}

Control    == [on : BOOLEAN, all : BOOLEAN, keys : SUBSET Buttons]
Off        == [on |-> FALSE, all |-> FALSE, keys |-> {}]

ASSUME KeyAssumption ==
  /\ keysMap \in [KeyCodes -> SUBSET GameKeys]
  /\ Zones \subseteq SUBSET GameKeys /\ Balls \subseteq Directions
  /\ Controls \subseteq Control
  /\ Saved \subseteq [key : SUBSET GameKeys, P1 : SUBSET Buttons, P1CNT : Control]
  /\ \A s \in Saved : s.P1 \in {{}, s.key \cap Buttons}   \* {}: no frame since a reset

VARIABLES
  down,        \* the keys that are held down (the user)
  touching,    \* the fingers on the screen (the user)
  under,       \* the game keys under each finger, if it is there
  focus,       \* the window's
  keyboard, trackball, keypad,   \* the keyStates of each
  keyStates,   \* of emulator.cpp
  key, turbo,  \* of input.c
  P1,          \* the buttons that the guest sees pressed
  P1CNT,       \* [on, all, keys]: interrupt enabled, for all or any of the keys
  irq,         \* the last frame raised the keypad's interrupt
  pressed,     \* the keys pressed since the keyboard was reset (history)
  torn,        \* a key was released that shares a game key with a held one (history)
  lifted,      \* the zones of fingers lifted while another stayed (history)
  untold,      \* the trackball was kept, and the emulator told otherwise (history)
  forgot       \* the machine was reset, and key was not, now or before it
               \* was saved (history)

user       == <<down, touching, under>>
states     == <<keyboard, trackball, keypad>>
keyMachine == <<key, turbo, P1, P1CNT, irq, forgot>>
keyHistory == <<pressed, torn, lifted, untold>>
keyVars    == <<user, focus, states, keyStates, keyMachine, keyHistory>>

KeysInit ==
  /\ down = {} /\ touching = {} /\ under = [f \in Fingers |-> {}] /\ focus = FALSE
  /\ keyboard = {} /\ trackball = {} /\ keypad = {} /\ keyStates = {}
  /\ key = {} /\ turbo = FALSE /\ P1 = {} /\ P1CNT = Off /\ irq = FALSE
  /\ pressed = {} /\ torn = FALSE /\ lifted = {} /\ untold = FALSE /\ forgot = FALSE

----------------------------------------------------------------------------
(* The user interface.                                                     *)

(* "resolve conflict keys"                                                 *)
MutResolved(s) ==
  IF {"LEFT", "RIGHT"} \subseteq s \/ {"UP", "DOWN"} \subseteq s THEN s \ Directions ELSE s

Resolved(s) ==
  s \ ({d \in {"LEFT", "RIGHT"} : {"LEFT", "RIGHT"} \subseteq s}
       \cup {d \in {"UP", "DOWN"} : {"UP", "DOWN"} \subseteq s})

(* onGameKeyChanged, with the new states of the keyboard, keypad and ball. *)
OnGameKeyChanged(kb, kp, tb) ==
  LET steered == (kb \cup kp) \cap Directions # {}
      ball == IF steered THEN {} ELSE tb
  IN /\ keyboard' = kb /\ keypad' = kp /\ trackball' = ball
     /\ keyStates' = Resolved(kb \cup kp \cup ball)
     /\ untold' = FALSE

(* Keyboard.onKey, with repeat count 0.  A game key may be held by two     *)
(* keys, by one of them as half of a diagonal.                             *)
KeyDown(p) ==
  /\ p \notin down
  /\ down' = down \cup {p}
  /\ IF focus
     THEN /\ OnGameKeyChanged(keyboard \cup keysMap[p], keypad, trackball)
          /\ pressed' = pressed \cup {p}
     ELSE UNCHANGED <<states, keyStates, untold, pressed>>
  /\ UNCHANGED <<touching, under, focus, keyMachine, torn, lifted>>

KeyUp(p) ==
  /\ p \in down
  /\ down' = down \ {p}
  /\ IF focus
     THEN /\ OnGameKeyChanged(keyboard \ keysMap[p], keypad, trackball)
          /\ pressed' = pressed \ {p}
          /\ torn' = (pressed' # {} /\
                        (torn \/ \E o \in pressed' : keysMap[o] \cap keysMap[p] # {}))
     ELSE UNCHANGED <<states, keyStates, untold, pressed, torn>>
  /\ UNCHANGED <<touching, under, focus, keyMachine, lifted>>

(* Trackball.onKey: a direction, or none for the centre.  There is no end  *)
(* to a direction but another one.                                         *)
Roll(tb) ==
  /\ focus
  /\ tb # trackball
  /\ OnGameKeyChanged(keyboard, keypad, tb)
  /\ UNCHANGED <<user, focus, keyMachine, pressed, torn, lifted>>

(* VirtualKeypad.setKeyStates.                                             *)
MutSetKeyStates(new) ==
  /\ keypad' = new
  /\ keyStates' = Resolved(keyboard \cup keypad \cup trackball)
  /\ UNCHANGED <<keyboard, trackball, untold>>

SetKeyStates(new) ==
  IF new = keypad THEN UNCHANGED <<states, keyStates, untold>>
  ELSE OnGameKeyChanged(keyboard, new, trackball)

(* VirtualKeypad.onTouch.  The window that a finger came down on has the   *)
(* fingers that follow.                                                    *)
Touched(fs, at) ==
  /\ touching' = fs
  /\ under' = at
  /\ SetKeyStates(UNION {at[f] : f \in fs})
  /\ lifted' = {}
  /\ UNCHANGED <<down, focus, keyMachine, pressed, torn>>

PointerDown(f, z) ==
  /\ f \notin touching
  /\ focus \/ touching # {}
  /\ Touched(touching \cup {f}, [under EXCEPT ![f] = z])

Move(f, z) ==
  /\ f \in touching
  /\ Touched(touching, [under EXCEPT ![f] = z])

Up ==
  /\ touching # {}
  /\ Cardinality(touching) = 1 \/ ~focus     \* the last finger, or ACTION_CANCEL
  /\ Touched({}, [f \in Fingers |-> {}])

(* Another finger stays: the event is one that onTouch does not know.      *)
PointerUp(f) ==
  /\ f \in touching /\ touching # {f}
  /\ touching' = touching \ {f}
  /\ under' = [under EXCEPT ![f] = {}]
  /\ lifted' = lifted \cup under[f]
  /\ UNCHANGED <<down, focus, states, keyStates, keyMachine, pressed, torn, untold>>

(* onWindowFocusChanged, of the activity and then of the keypad.           *)
KeysFocusLost ==
  /\ focus
  /\ focus' = FALSE
  /\ keypad' = {} /\ lifted' = {}
  /\ UNCHANGED <<user, keyboard, trackball, keyStates, keyMachine, pressed, torn, untold>>

MutKeysFocusGained ==
  /\ ~focus
  /\ focus' = TRUE
  /\ keypad' = {} /\ keyStates' = {}
  /\ untold' = (trackball # {})
  /\ pressed' = {} /\ torn' = FALSE /\ lifted' = {}
  /\ UNCHANGED <<user, keyboard, trackball, keyMachine>>

KeysFocusGained ==
  /\ ~focus
  /\ focus' = TRUE
  /\ keyboard' = {} /\ keypad' = {} /\ keyStates' = {}
  /\ untold' = (trackball # {})
  /\ pressed' = {} /\ torn' = FALSE /\ lifted' = {}
  /\ UNCHANGED <<user, trackball, keyMachine>>

(* resumeEmulator, when the last of the dialogs and menus is gone.         *)
ResumeEmulator ==
  /\ ~focus
  /\ OnGameKeyChanged({}, {}, {})
  /\ pressed' = {} /\ torn' = FALSE /\ lifted' = {}
  /\ UNCHANGED <<user, focus, keyMachine>>

----------------------------------------------------------------------------
(* The machine, on the emulator thread.                                    *)

(* trigger_key.                                                            *)
Selected(cnt, ks) ==
  cnt.on /\ IF cnt.all THEN cnt.keys \subseteq ks ELSE cnt.keys \cap ks # {}

(* update_input.                                                           *)
MutUpdateInput ==
  LET new == keyStates \cup {b \in {"A", "B"} : turbo' /\ Turbo(b) \in keyStates}
  IN /\ turbo' = ~turbo
     /\ key' = new
     /\ irq' = (~(new \subseteq key') /\ Selected(P1CNT, new))
     /\ P1' = new \cap Buttons
     /\ forgot' = FALSE
     /\ UNCHANGED <<user, focus, states, keyStates, P1CNT, keyHistory>>

UpdateInput ==
  LET new == keyStates \cup {b \in {"A", "B"} : turbo' /\ Turbo(b) \in keyStates}
  IN /\ turbo' = ~turbo
     /\ irq' = (~(new \subseteq key) /\ Selected(P1CNT, new))
     /\ key' = new
     /\ P1' = new \cap Buttons
     /\ forgot' = FALSE
     /\ UNCHANGED <<user, focus, states, keyStates, P1CNT, keyHistory>>

SetP1CNT(cnt) ==
  /\ P1CNT' = cnt
  /\ irq' = FALSE
  /\ UNCHANGED <<user, focus, states, keyStates, key, turbo, P1, forgot, keyHistory>>

(* init_memory clears the register of what is pressed, not key.            *)
ResetGba ==
  /\ P1' = {} /\ P1CNT' = Off /\ irq' = FALSE
  /\ forgot' = (key # {})
  /\ UNCHANGED <<user, focus, states, keyStates, key, turbo, keyHistory>>

(* input_read_savestate, with the registers of the same state: when no     *)
(* frame had been since a reset, they are apart in it.                     *)
LoadState(s) ==
  /\ key' = s.key /\ P1' = s.P1 /\ P1CNT' = s.P1CNT
  /\ irq' = FALSE
  /\ forgot' = (s.P1 # s.key \cap Buttons)
  /\ UNCHANGED <<user, focus, states, keyStates, turbo, keyHistory>>

KeysNext ==
  \/ \E p \in KeyCodes : KeyDown(p) \/ KeyUp(p)
  \/ \E d \in Balls : Roll({d})
  \/ Roll({})
  \/ \E f \in Fingers : PointerUp(f) \/ \E z \in Zones : PointerDown(f, z) \/ Move(f, z)
  \/ Up
  \/ KeysFocusLost \/ KeysFocusGained \/ ResumeEmulator
  \/ UpdateInput \/ ResetGba
  \/ \E cnt \in Controls : SetP1CNT(cnt)
  \/ \E s \in Saved : LoadState(s)

KeysSpec == KeysInit /\ [][KeysNext]_keyVars

----------------------------------------------------------------------------
(* Properties.                                                             *)

KeyFlagsOK ==
  /\ focus \in BOOLEAN /\ turbo \in BOOLEAN /\ irq \in BOOLEAN
  /\ torn \in BOOLEAN /\ untold \in BOOLEAN /\ forgot \in BOOLEAN

KeySetsOK ==
  /\ down \subseteq KeyCodes /\ pressed \subseteq KeyCodes
  /\ touching \subseteq Fingers /\ under \in [Fingers -> SUBSET GameKeys]
  /\ {keyboard, trackball, keypad, keyStates, key, lifted} \subseteq SUBSET GameKeys
  /\ P1 \subseteq Buttons /\ P1CNT \in Control

KeysTypeOK == KeySetsOK /\ KeyFlagsOK

Merged ==
  LET keys == keyboard \cup keypad
  IN Resolved(IF keys \cap Directions = {} THEN keys \cup trackball ELSE keys)

(* Whoever changes a key tells the emulator: with the window in front, it  *)
(* knows what keyboard, keypad and trackball hold together, but for the    *)
(* trackball that onWindowFocusChanged forgets to reset.                   *)
ToldIsMerged == focus /\ ~untold => keyStates = Merged

Under(ps) == UNION {keysMap[p] : p \in ps}

(* No key of the game goes on by itself: the user holds it, or rolled the  *)
(* trackball there, or has lifted one of two fingers and not moved the     *)
(* other yet (ACTION_POINTER_UP falls through onTouch).                    *)
NothingStuck ==
  focus => keyStates \subseteq
             Under(down) \cup (UNION {under[f] : f \in touching}) \cup trackball \cup lifted

Opposite(g) ==
  CASE g = "LEFT" -> "RIGHT" [] g = "RIGHT" -> "LEFT" [] g = "UP" -> "DOWN"
    [] g = "DOWN" -> "UP" [] OTHER -> "NONE"

(* What is pressed in front of the game reaches it, whatever other keys    *)
(* come and go, but for its opposite, and for the release of a diagonal    *)
(* key that shares a direction with it.                                    *)
HeldIsTold ==
  focus /\ ~torn =>
    \A p \in pressed : \A g \in keysMap[p] :
      g \in keyStates \/ Opposite(g) \in keyboard \cup keypad

(* A frame with which the selected buttons come to be pressed interrupts   *)
(* the guest, unless a reset, before the frame or before the state that    *)
(* was loaded was saved, forgot what key remembers.                        *)
PressInterrupts ==
  [][turbo' # turbo /\ Selected(P1CNT, P1') /\ ~Selected(P1CNT, P1) => irq' \/ forgot]_keyVars
=============================================================================
