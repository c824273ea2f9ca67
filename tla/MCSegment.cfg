SPECIFICATION Spec
CONSTANTS
  root = root
  leaf = leaf
  wheel = wheel
  led = led
  Device = {root, leaf}
  Key = {wheel, led}
  OwnerOf <- MCOwnerOf
  MaxSlots = 2
  MaxFrags = 3
  SeqMod = 4
  SeqLoMod = 2
  MaxBodies <- MCMaxBodies
  TxCap = 3
  MaxBoots = 1
INVARIANTS
  WholeAndInOrder
  UnbrokenIsDelivered
  TurnedOnlyWhenCrowded
  OnlyAliasesFailCrc
CHECK_DEADLOCK FALSE
