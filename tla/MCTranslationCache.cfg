CONSTANTS
  EwramPages = 3
  PageSize = 2
  Base = 4
  Room = 3
  FirstTag = 7
  MaxBlock = 2
  MaxDma = 2
  MaxLeft = 1
  Entries <- MCEntries
  None = None
SPECIFICATION Spec
INVARIANTS BlocksFound BlocksWithinBounds Fresh NoneAstray
CONSTRAINT FewLeft
