SPECIFICATION RecoverySpec
CONSTANTS
  Runs = {"run1", "run2"}
  NoEntry = NoEntry
  MaxWork = 1
  MaxTurns = 2
  MaxSwitched = 2
  MaxRefusals = 1
  h1 = h1 h2 = h2
  x = x y = y
  SwitchHosts = {h1, h2}
  CapacityHosts = {h2}
  NoSwitch = NoSwitch
  PoolAccounts = {x, y}
  Reserves = {y}
  NoBand = NoBand
  MaxBand = 2
  SwitchThreshold = 0
  MaxUse = 2
  MaxSwitchFaults = 1
  s1 = s1 s2 = s2 s3 = s3 d1 = d1 d2 = d2
  NoDir = NoDir NoShim = NoShim
  Shims = {s1, s2, s3}
  Before = {s3}
  Dirs = {d1, d2}
  CrashAt <- NotBeforeRecord
  OnTime = FALSE
INVARIANTS EntryHasOwner
PROPERTIES ContinueOnlyWhenOwed FailureAnswered RotationEnds RecordKeepsOwner LostOwnerStops EveryoneSettles
CHECK_DEADLOCK FALSE
