CONSTANTS
  KeyCodes <- MCKeyCodes
  keysMap <- MCKeysMap
  Zones <- MCZones
  Fingers = {f1, f2}
  Balls = {"RIGHT"}
  Controls <- MCControls
  Saved <- MCSaved
SYMMETRY MCFingers
SPECIFICATION KeysSpec
INVARIANTS ToldIsMerged NothingStuck HeldIsTold
PROPERTY PressInterrupts
