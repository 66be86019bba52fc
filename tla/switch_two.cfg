CONSTANTS
  t1 = t1 t2 = t2 a1 = a1  a2 = a2
  Threads <- TwoThreads
  Accounts <- TwoAccounts
  InitAccount = a1
  Policies = {"defer", "interruptAndContinue"}
  MaxSwitches = 1
  MaxTurns = 2
  MaxStarts = 1
  InitGoals <- FirstGoal
  RecentSets <- NothingRecent
  Timeouts <- SafeTimeouts
SPECIFICATION Spec
INVARIANTS CutThreadsGoOn NoGoalLeftPaused
CHECK_DEADLOCK FALSE
