SPECIFICATION CallsSpec
CONSTANTS
  t1 = t1
  t2 = t2
  Threads <- TwoThreads
  Kinds <- AllKinds
  MaxReq = 3
  MaxGoalTurns = 0
  MaxQueuePerThread = 1
  MaxTotalQueue = 1
  w1 = w1 w2 = w2 w3 = w3
  Windows = {w1, w2, w3}
  NoWindow = NoWindow
  CallPlans <- WindowPlans
  MaxAttached = 2
  MaxGone = 2
  Stages = {"queue", "windows", "limit"}
  LimitThreads = {t1, t2}
  NoBatch = NoBatch NoThread = NoThread
  MaxWorkStarts = 3
  MaxLimitSwitches = 2
SYMMETRY Symmetry
INVARIANT EachRequestInOnePlace
INVARIANT QueueWithinLimits
INVARIANT ServedOnce
INVARIANT ReadyMeansExhausted
CHECK_DEADLOCK FALSE
PROPERTY BarrierHoldsWork
PROPERTY ContinuesStoppedOnly
