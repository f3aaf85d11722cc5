CONSTANTS
  Channels = {"A"}
  Block = 3
  Widths = {1, 2}
  NONE = NONE
SPECIFICATION Spec
INVARIANTS InOrder NeverStarves DmaCoherent
