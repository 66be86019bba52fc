SPECIFICATION Spec
CONSTANTS
  t1 = t1
  t2 = t2
  Threads <- OneThread
  Kinds <- AllKinds
  MaxReq = 2
  MaxGoalTurns = 0
  MaxQueuePerThread = 2
  MaxTotalQueue = 2
INVARIANT HeldStartSentAfterTurn
CHECK_DEADLOCK FALSE
