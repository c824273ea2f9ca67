SPECIFICATION Spec
CONSTANTS
  NoPid = NoPid
  NoSlot = NoSlot
  Pid = {p1, p2, p3}
  Slot = {s1, s2}
  MaxCrash = 1
INVARIANTS SoleWriter NeverWedged
SYMMETRY Interchangeable
CHECK_DEADLOCK FALSE
