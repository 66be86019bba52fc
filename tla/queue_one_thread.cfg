SPECIFICATION FairCallsSpec
CONSTANTS
  t1 = t1
  t2 = t2
  Threads <- OneThread
  Kinds <- ManagedKinds
  MaxReq = 3
  MaxGoalTurns = 1
  MaxQueuePerThread = 2
  MaxTotalQueue = 2
  w1 = w1 w2 = w2 w3 = w3
  Windows = {w1, w2, w3}
  NoWindow = NoWindow
  CallPlans <- WindowPlans
  MaxAttached = 2
  MaxGone = 2
  Stages = {"queue", "windows"}
  LimitThreads = {t1}
  NoBatch = NoBatch NoThread = NoThread
  MaxWorkStarts = 0
  MaxLimitSwitches = 0
INVARIANT OneStartAtATime
INVARIANT NoResurrection
INVARIANT QuietThreadIsIdle
PROPERTIES EveryRequestAnswered EveryCallAnswered
CHECK_DEADLOCK FALSE
