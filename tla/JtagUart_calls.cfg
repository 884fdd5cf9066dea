SPECIFICATION FairSpec
CONSTANTS
  MaxTyped = 2
  MaxCalls = 2
  BufLen = 3
  FifoLen = 2
  Threshold = 0
  MaxCall = 3
  IntMax = 4
  DefaultTimeout = 2
INVARIANTS NoLostWakeup
PROPERTIES ImplementsConsole CallsReturn
