SPECIFICATION FairSpec
CONSTANTS
  Tasks = {t1, t2}
  Main = main
  Calls = {c1}
  Shared = shared
  Leaving = {t1}
  QueueSize = 1
  MallocFails = TRUE
  Receivers = {t1, t2}
  SharedTypes = {"MSG_NON", "MSG_CON", "MSG_DIRECT"}
  NULL = null
INVARIANTS TypeOK RefExact FreedOnce NoUseAfterFree NoLeak HandlerAtMostOnce
PROPERTY EventuallyAnswered
CHECK_DEADLOCK FALSE
