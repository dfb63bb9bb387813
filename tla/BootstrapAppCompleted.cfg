SPECIFICATION Spec
CONSTANTS
  boot = boot
  sys1 = sys1
  app1 = app1
  app2 = app2
  test1 = test1
  dyn1 = dyn1
  dyn2 = dyn2
  shared = shared
  own = own
  SysServices = {boot, sys1}
  AppServices = {app1, app2}
  TestServices = {test1}
  DynServices = {}
  BootService = boot
  Pools = {shared, own}
  PoolOf <- MCPoolOf
  QueueSize <- MCQueueSize
  Main = main
  LoadServices = {}
  NULL = null
INVARIANT AppCompletedMeansInitialised
CHECK_DEADLOCK FALSE
