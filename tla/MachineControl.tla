--------------------------- MODULE MachineControl ---------------------------
(***************************************************************************)
(* What the native host of the emulator promises: the emulated machine has *)
(* one holder at a time.  The host (the JNI calls) may replace the machine *)
(* and take away or provide what the guest needs (surface, media peer,     *)
(* game pak) only while it holds the machine; the guest only runs when it  *)
(* has all it needs, and never on from the middle of a machine that is no  *)
(* longer there.                                                           *)
(***************************************************************************)
VARIABLES
  holder,  \* "host" or "guest"
  ready,   \* the guest has a surface, a media peer and a game pak
  fresh    \* the machine is the one the guest last started from

vars == <<holder, ready, fresh>>

(* The contract's variables keep their types.                              *)
TypeOK == holder \in {"host", "guest"} /\ ready \in BOOLEAN /\ fresh \in BOOLEAN

Init == holder = "host" /\ ready = FALSE /\ fresh = TRUE

(* A JNI call works on the machine or on what the guest needs.             *)
HostWork ==
  /\ holder = "host"
  /\ holder' = "host"
  /\ ready' \in BOOLEAN
  /\ fresh' \in {fresh, FALSE}

(* The guest is let run: on from where it was, or restarted from the       *)
(* registers of the machine that is there now.                             *)
Enter ==
  /\ holder = "host"
  /\ ready
  /\ holder' = "guest"
  /\ fresh' = TRUE
  /\ UNCHANGED ready

(* The guest gives the machine back at the end of a frame.                 *)
Leave ==
  /\ holder = "guest"
  /\ holder' = "host"
  /\ UNCHANGED <<ready, fresh>>

Next == HostWork \/ Enter \/ Leave

Spec == Init /\ [][Next]_vars

(* The guest only ever runs on a machine that is complete and current.     *)
GuestSafe == holder = "guest" => ready /\ fresh
=============================================================================
