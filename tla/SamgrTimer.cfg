SPECIFICATION Spec
CONSTANTS
  Timers = {a, b}
  Intervals = {0, 3}
  Repeats = {2}
  TimeMax = 2
  CounterMax = 3
  QueueSize = 2
  MaxUpdates = 1
  MaxOthers = 0
  HistoryMax = 7
INVARIANTS TypeOK ListedWhileOwed NeverAhead
PROPERTY DueFired
SYMMETRY Symm
CHECK_DEADLOCK FALSE
