SPECIFICATION Spec
CONSTANTS
  MemSize = 30
  Images <- SmallImages
  Starts <- NoStart
  RegisterFiles <- SmallRegisters
  MaxSteps = 3
INVARIANTS
  TablesAgree
  JavaAgrees
  ConversionsInverse
PROPERTIES
  FaultsChangeNothing
CHECK_DEADLOCK FALSE
