SPECIFICATION MCSpec
CONSTANTS
  INITIAL_SIZE = 1
  GROWTH_FACTOR = 2
  Uninitialized = 99
  Args <- SomeArgs
  MaxArgs = 5
  Lists = {"a", "b", "c"}
  Elements = {1, 2}
  MaxLen <- Lengths
  MaxElements = 4
  Values = {1, 2}
  SIZE = 3
  Inputs = {0, 1, 3, 5}
  MaxInputs = 4
  Keys = {1, 2, 3}
  MaxKeys = 4
  STATIC = 3
INVARIANTS
  TruncRight
  CountsRight
  SetOutlivesStack
  OutputSorted
PROPERTIES
  ListsAreSequences
CHECK_DEADLOCK FALSE
