SPECIFICATION PCFairSpec
CONSTANTS
  p1 = p1
  p2 = p2
  c1 = c1
  c2 = c2
  Producer = {p1, p2}
  Consumer = {c1, c2}
  Thread = {p1, p2, c1, c2}
  lock = lock
  isNotEmpty = isNotEmpty
  isNotFull = isNotFull
  Sem = {lock, isNotEmpty, isNotFull}
  Initial <- AsCreated
  NoSem = NoSem
  MaxValue = 3
  MAX_ITEMS = 2
  NUM_ITERATIONS = 2
CHECK_DEADLOCK FALSE
INVARIANTS AssertsHold Accounted
PROPERTIES Terminates ImplementsSemaphore
