\* Silence for a whole period of the device clock.
CONSTANTS
  SeqMod = 2
  ClockMod = 8
  ClockWrap = 6
  Window = 2
  Wdt = 1
  RxCap = 1
  Value = {z, g}
  Safe = z
  Off = off
SPECIFICATION Spec
INVARIANT DeadManLatches
