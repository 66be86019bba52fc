SPECIFICATION Spec
CONSTANTS
  s1 = s1 s2 = s2 s3 = s3 d1 = d1 d2 = d2
  NoDir = NoDir NoShim = NoShim
  Shims <- ThreeShims
  Before <- Third
  Dirs <- TwoDirs
  CrashAt = {}
  OnTime = TRUE
INVARIANT OneAppServer
CHECK_DEADLOCK FALSE
