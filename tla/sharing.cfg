SPECIFICATION SharingSpec
CONSTANTS
  NoSync = NoSync NoRecord = NoRecord NoUpdate = NoUpdate
  MaxRenewals = 1
  MaxFaults = 1
  a = a b = b
  NoLease = NoLease NoTransfer = NoTransfer
  LentAccounts = {a, b}
  MaxRenewed = 2
  MaxReturns = 1
  MaxLeaseFaults = 1
  p = p q = q
  InboxHosts = {p, q}
  NoImporter = NoImporter
  ImportJobs = {1, 2}
  MaxInboxDeaths = 1
  MaxLostResults = 1
INVARIANTS AcknowledgedIsStored CredentialKept OneSideUses
PROPERTIES SyncCatchesUp LentComesBack EveryJobAnswered
CONSTRAINT LeaseHasNotSlipped
CHECK_DEADLOCK FALSE
