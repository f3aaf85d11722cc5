----------------------------- MODULE MCKeyInput -----------------------------
(* A diagonal key, one that shares a direction with it and a turbo key; the *)
(* keypad and the trackball have the opposite direction, the keypad also    *)
(* the button of the turbo key.  One state was saved in the frame after a   *)
(* reset.                                                                   *)
EXTENDS KeyInput, TLC

MCKeyCodes == {"diagonal", "left", "turbo"}
MCKeysMap ==
  [p \in MCKeyCodes |->
    CASE p = "diagonal" -> {"UP", "LEFT"} [] p = "left" -> {"LEFT"}
      [] p = "turbo" -> {"A_TURBO"}]
MCZones    == {{"RIGHT"}, {"A"}}
MCControls == {[on |-> TRUE, all |-> TRUE, keys |-> {"A", "LEFT"}]}
MCSaved    == {[key |-> {"A"}, P1 |-> p, P1CNT |-> c] : p \in {{}, {"A"}}, c \in MCControls}
MCFingers  == Permutations(Fingers)
=============================================================================
