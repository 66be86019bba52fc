SPECIFICATION FairSeamlessSpec
CONSTANTS
  SwitchHosts = {"h1", "h2"}
  NoSwitch = NoSwitch
  PoolAccounts = {"x", "y"}
  CapacityHosts = {"h1", "h2"}
  Reserves = {"y"}
  NoBand = NoBand
  MaxBand = 1
  SwitchThreshold = 0
  MaxUse = 2
  MaxSwitchFaults = 0
PROPERTY CapacitySwitches
CHECK_DEADLOCK FALSE
