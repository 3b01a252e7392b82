SPECIFICATION Spec
CONSTANTS
  MaxThreads = 2
  Counts = {1, 2}
  Loops <- MCLoops
  MaxTasks = 3
  Wrap = 16
  Nested = TRUE
INVARIANTS FirstInFirstOut TotalRight BlocksPartition
PROPERTIES WaitLeaves TaskRuns
CHECK_DEADLOCK FALSE
