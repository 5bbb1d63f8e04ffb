SPECIFICATION FairSpec
CONSTANTS
  p1 = p1
  p2 = p2
  c1 = c1
  c2 = c2
  Producer = {p1, p2}
  Consumer = {c1, c2}
  Thread = {p1, p2, c1, c2}
  add = add
  rem = rem
  Cond = {add, rem}
  NoThread = NoThread
  MAX_ITEMS = 1
  NUM_ITERATIONS = 3
CHECK_DEADLOCK FALSE
INVARIANTS AssertsHold HistogramComplete ItemsOffered
PROPERTY Terminates
