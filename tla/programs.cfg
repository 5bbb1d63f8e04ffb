SPECIFICATION MCSpec
CONSTANTS
  t0 = t0
  t1 = t1
  t2 = t2
  barrier = barrier
  oneCanGo = oneCanGo
  twoCanGo = twoCanGo
  Thread = {t0, t1, t2}
  Cond = {barrier, oneCanGo, twoCanGo}
  NoThread = NoThread
  N = 2
  NUM_PEOPLE = 6
  NUM_ITERATIONS = 3
  MAX_OCCUPANCY = 3
  Programs = {"sRead", "aRead", "tRead", "treasureHunt"}
  NumBlocks = 3
  Story <- SmallStory
  Garbage = 100
  MaxDepth = 3
INVARIANTS
  OutputRight
  WellSafe
  StuckOnOneKind
  RightAnswer
  DataBeforeReader
  OpenToInterrupts
PROPERTIES
  ProgramEnds
  EvenCrowdFinishes
  Finishes
CHECK_DEADLOCK FALSE
