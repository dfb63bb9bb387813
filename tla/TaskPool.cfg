SPECIFICATION FairSpec
CONSTANTS
  sh1 = sh1
  sh2 = sh2
  sp1 = sp1
  sp2 = sp2
  pos = pos
  NULL = NULL
  Svcs = {sh1, sh2, sp1, sp2}
  Positions = {pos}
  Config <- MCConfig
  GrowStep = 1
  MaxRef = 2
  QueueSize = 1
  MaxPool = 2
  MaxImpl = 2
  MaxFail = 1
  MaxRequests = 2
  Quiet = FALSE
CHECK_DEADLOCK FALSE
INVARIANTS TypeOK RefExact UsedPoolsLive
PROPERTY ReleasedPoolEnds
