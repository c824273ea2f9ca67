SPECIFICATION PartSpec
CONSTANTS
  wheel = wheel
  led = led
  Slot = {wheel, led}
  Floored = {wheel}
  Value = {good, bad}
  Malformed = {bad}
  NoValue = NoValue
  SeqStart = 1
  SeqMod = 2
  WireCap = 2
  MaxWrites <- MCMaxWrites
  left = left
  right = right
  Wheel = {left, right}
  Wheels <- LeftThenRight
  StartEnabled = FALSE
  Bound = 2
  PathCap = 1
  BoxCap = 3
INVARIANTS DisarmObeyed DisableObeyed
PROPERTIES
  NoManufacturedAdvance
  OncePerWrite
  LatestSent
  StopHolds
  ArmedResumes
