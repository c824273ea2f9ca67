\* The wheels: one window of one millisecond, one frame in the buffer at a
\* time.  The Blaster: its own periods and timeouts in units of 10 ms.
CONSTANTS
  SeqMod = 2
  ClockMod = 4
  ClockWrap = 3
  Window = 1
  Wdt = 1
  RxCap = 1
  Value = {z, g}
  Safe = z
  Off = off
  UsWrap = 23
  RangePeriod = 5
  PosePeriod = 1
  EchoTimeout = 3
  WakeDelay = 1
  Slack = 1
  HostCap = 1
SPECIFICATION Spec
INVARIANTS SpeedsAreCurrent RelayedInTime PoseHeard PoseFromAwake
PROPERTIES EachWheelIsAHub
