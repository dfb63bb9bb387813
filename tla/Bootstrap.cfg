SPECIFICATION FairSpec
CONSTANTS
  boot = boot
  sys1 = sys1
  app1 = app1
  app2 = app2
  test1 = test1
  dyn1 = dyn1
  dyn2 = dyn2
  shared = shared
  own = own
  SysServices = {boot, sys1}
  AppServices = {app1}
  TestServices = {}
  DynServices = {}
  BootService = boot
  Pools = {shared, own}
  PoolOf <- LoadPoolOf
  QueueSize <- LongQueue
  Main = main
  LoadServices = {dyn1, dyn2}
  NULL = null
INVARIANTS QueuesBeforeInitialize CoreOnceAndFirst
PROPERTY BootCompletes
CHECK_DEADLOCK FALSE
