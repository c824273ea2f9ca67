\* The device's clock: it wraps before the u32 subtraction does.  A command can
\* be new, old or the one before that.
CONSTANTS
  SeqMod = 3
  ClockMod = 10
  ClockWrap = 8
  Window = 3
  Wdt = 1
  RxCap = 2
  Value = {z, g}
  Safe = z
  Off = off
SPECIFICATION FairSpec
INVARIANTS DeadMan StaleBufferInert InWindowDrives
PROPERTIES IsDeadManSwitch StatusTruth SilenceFloors
