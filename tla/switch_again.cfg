CONSTANTS
  t1 = t1 t2 = t2 a1 = a1  a2 = a2
  Threads <- OneThread
  Accounts <- TwoAccounts
  InitAccount = a1
  Policies = {"interruptAndContinue"}
  MaxSwitches = 2
  MaxTurns = 2
  MaxStarts = 1
  InitGoals <- AnyGoal
  RecentSets <- AnyRecent
  Timeouts <- NoTimeouts
SPECIFICATION Spec
INVARIANTS CutoverMeetsNoOrdinaryTurn AccountsAgree
PROPERTIES OutcomeFinal ImplementsCutover
CHECK_DEADLOCK FALSE
