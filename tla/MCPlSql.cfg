SPECIFICATION Spec
CONSTANTS
  None = None
  Blocks <- MCBlocks
  Loops <- MCLoops
  Before = 1
  MAX_CALL_DEPTH = 1
  MaxStack = 3
  MaxLog = 2
INVARIANTS
  StacksMatchControl
  FailedBlockUndone
PROPERTIES
  InnermostHandlerRuns
  QueriesChangeNothing
CHECK_DEADLOCK FALSE
