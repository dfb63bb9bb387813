SPECIFICATION FairSpec
CONSTANTS
  Timers = {a}
  Intervals = {0, 1}
  Repeats <- MCRepeats
  TimeMax = 1
  CounterMax = 3
  QueueSize = 5
  MaxUpdates = 1
  MaxOthers = 1
  HistoryMax = 3
INVARIANT FewTicksWait
PROPERTY TicksGoOn
CHECK_DEADLOCK FALSE
