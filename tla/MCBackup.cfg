CONSTANTS Delay = 2 SavesStates = TRUE
SPECIFICATION Spec
INVARIANTS ChipCoherent OnTime
PROPERTIES QuietIsWrittenOut
