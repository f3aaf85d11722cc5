CONSTANTS
  Visible = 1
  Lines = 2
  Draw = 2
  HBlank = 1
  EventFrames = 1
  Timers = {0, 1}
  Reloads = {1, 3}
  Irqs = {"TIMER1"}
  CountFloor = 1
  SavesStates = FALSE
SPECIFICATION Spec
INVARIANTS RasterClock SliceStopsInTime
PROPERTIES PauseAnswered
