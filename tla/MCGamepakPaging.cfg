CONSTANTS
  SpacePages  = 4
  BufferPages = 3
  TimeModulus = 4
  Games       = {"large", "small"}
  RomPages    <- MCRomPages
  NULL        = NULL
SPECIFICATION Spec
INVARIANTS MapCoherent CopiesAgree
PROPERTIES LoadsRight
