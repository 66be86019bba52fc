CONSTANTS
  t1 = t1 t2 = t2 a1 = a1  a2 = a2
  Threads <- OneThread
  Accounts <- TwoAccounts
  InitAccount = a1
  Policies = {"interrupt"}
  MaxSwitches = 1
  MaxTurns = 1
  MaxStarts = 1
  InitGoals <- AnyGoal
  RecentSets <- NothingRecent
  Timeouts <- AllTimeouts
SPECIFICATION FairSpec
PROPERTIES BarrierLowers
CHECK_DEADLOCK FALSE
