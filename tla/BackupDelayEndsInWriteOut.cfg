CONSTANTS Delay = 2 SavesStates = TRUE
SPECIFICATION Spec
PROPERTY DelayEndsInWriteOut
