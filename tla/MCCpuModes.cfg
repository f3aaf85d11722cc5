CONSTANTS
  Modes = {"USER", "IRQ", "SUPERVISOR", "FIQ"}
  Regs = {3, 5, 9, 13, 14}
  OLD = OLD
SPECIFICATION ModesSpec
INVARIANTS RegistersKept NoInterruptWaits
CONSTRAINT MCBounded
