SPECIFICATION StorageSpec
CONSTANTS
  c1 = c1 c2 = c2 d1 = d1 d2 = d2 h1 = h1 h2 = h2 x = x y = y r1 = r1 r2 = r2 q1 = q1 w1 = w1 w2 = w2
  Callers = {c1, c2}
  Remote = {c2}
  LockDirs = {d1, d2}
  NoLock = NoLock NoCaller = NoCaller
  IndexHosts = {h1, h2}
  IndexAccounts = {x, y}
  FirstAccounts = {x}
  NoAccount = NoAccount Absent = Absent NoIndex = NoIndex
  MaxEdits = 2
  MaxFailures = 1
  Windows = {w1, w2}
  RefreshCalls = {r1, r2}
  PlainWriters = {q1}
  CallWindow <- WindowOfCall
  NoCall = NoCall Login = Login
  MaxLogins = 1
  NoEvidence = NoEvidence
  ObservedKinds = {"usable", "auth_unavailable"}
  TTL = 2
  MaxCredentials = 2
  MaxClock = 3
  MaxRuntimes = 2
  MaxEvents = 3
  WakeHosts = {w1, w2}
  Manned = {w2}
  Fragile = {w1}
  NoHost = NoHost NoChange = NoChange
  MaxWakeTime = 2
  MaxWakeRuns = 2
  MaxWakeEdits = 1
INVARIANTS StorageTypesOK LeaseExclusive NoEditLost NeverAskedTwice UsablePairStays NewestVerdictShown OccurrenceRunsOnce InterruptedMeansGone
PROPERTIES LastEditReachesFile
CONSTRAINT StoresHaveNotSlipped
CHECK_DEADLOCK FALSE
