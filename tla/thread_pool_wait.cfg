SPECIFICATION Spec
CONSTANTS
  MaxThreads = 2
  Counts = {1}
  Loops <- MCLoops
  MaxTasks = 1
  Wrap = 16
  Nested = FALSE
INVARIANTS WaiterWoken
CHECK_DEADLOCK FALSE
