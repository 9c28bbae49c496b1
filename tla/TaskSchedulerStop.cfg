\* Two threads call Stop().
CONSTANTS
  TaskKinds <- MCTaskKinds
  Stoppers = {s1, s2}
  uBatchTask = 2
  MaxTasks = 1
  MaxTime = 1
  MaxLag = 0
SPECIFICATION Spec
INVARIANT StopIsSynchronous
