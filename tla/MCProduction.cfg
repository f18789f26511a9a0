SPECIFICATION ProdSpec
CONSTANTS
  N = 2
  Repetitions = 2
  Own <- One
  Lag = 2
  SyncAge = 2
  MaxSlot = 6
  MaxPauses = 2
  MaxStarts = 1
INVARIANTS ProdTypeOK SignsUpwards WakesInTime HandlerIsCurrent LoopAlive
CHECK_DEADLOCK FALSE
