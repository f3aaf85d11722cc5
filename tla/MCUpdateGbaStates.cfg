CONSTANTS
  Visible = 1
  Lines = 2
  Draw = 3
  HBlank = 2
  EventFrames = 2
  Timers = {}
  Reloads = {2}
  Irqs = {"VBLANK"}
  CountFloor = 3
  SavesStates = TRUE
SPECIFICATION Spec
INVARIANT PcFollowed
PROPERTIES HaltedWakes
