SPECIFICATION WalkSpec
CONSTANTS
  Thread = {t1, t2, t3}
  NoThread = NoThread
  MaxIndex = 3
  MaxGen = 1
  MaxPins = 1
  IsMap = FALSE
  Children <- CyclicGraph
  MaxCalls = 1
CHECK_DEADLOCK FALSE
INVARIANTS NoWaitCycle WalkNeverReenters SleepersHaveReason
PROPERTIES CallsEnd DestroyedNodeGoes
