CONSTANTS
  MaxSurplus = 2
  NONE = NONE
SPECIFICATION Spec
INVARIANTS Counted QuietBehind RunsInFront NameAndGame
