SPECIFICATION Spec
CONSTANTS
  Declared <- Pair
  Hub <- MCHub
  Root <- MCRoot
  Bus <- MCBus
  Table <- MCTable
  Lossy = FALSE
  RxCap = 8
  MaxSend = 1
  MaxDisarm = 0
  MaxEmit <- BusEmits
INVARIANT SamplesArrive
CHECK_DEADLOCK FALSE
