CONSTANTS
  ShortLen = 1
  LongLen = 3
  CommandPos = 0
  WordBits = 2
  Addresses <- MCAddresses
  Contents <- MCContents
  NULL = NULL
SPECIFICATION Spec
INVARIANTS InSync Kept AnswersRight
