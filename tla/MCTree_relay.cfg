SPECIFICATION LiveSpec
CONSTANTS
  Declared <- Chain
  Hub <- MCHub
  Root <- MCRoot
  Bus <- MCBus
  Table <- MCTable
  Lossy = TRUE
  RxCap = 2
  MaxSend = 2
  MaxDisarm = 1
  MaxEmit <- BusEmits
INVARIANTS InOrderOnce NoCommandEchoed
PROPERTY CommandsArrive
CHECK_DEADLOCK FALSE
