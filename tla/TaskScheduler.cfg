\* Three tasks of three kinds, batches of two: a batch that is full, due times that
\* collide, tasks posted, cancelled and stopped in the middle of a batch.
CONSTANTS
  TaskKinds <- MCTaskKinds
  Stoppers = {s1}
  uBatchTask = 2
  MaxTasks = 3
  MaxTime = 1
  MaxLag = 1
SPECIFICATION FairSpec
INVARIANTS TypeOK TasksAreKept CancelledStaysQuiet StopIsSynchronous
PROPERTIES NeverEarly SchedulerGoesOn
