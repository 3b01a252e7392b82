SPECIFICATION Spec
CONSTANTS
  MaxThreads = 2
  Counts = {2}
  Loops <- MCLoops
  MaxTasks = 2
  Wrap = 16
  Nested = TRUE
PROPERTIES WaitsForAll
CHECK_DEADLOCK FALSE
