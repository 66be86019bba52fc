SPECIFICATION FairSyncSpec
CONSTANTS
  NoSync = NoSync NoRecord = NoRecord NoUpdate = NoUpdate
  MaxRenewals = 1
  MaxFaults = 0
PROPERTIES StopRemovesAccount
CHECK_DEADLOCK FALSE
