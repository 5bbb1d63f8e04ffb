SPECIFICATION MutexFairSpec
CONSTANTS
  a = a
  b = b
  c = c
  d = d
  Thread = {a, b, c, d}
  Cond = {x, y}
  NoThread = NoThread
CHECK_DEADLOCK FALSE
INVARIANTS MutualExclusion QueuedOnce NoLostWakeup
PROPERTY ImplementsMonitor
