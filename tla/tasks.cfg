SPECIFICATION FairSpec
CONSTANTS
  MaxTasks = 3
  MaxWorkers = 2
  OwnersStart = TRUE
INVARIANTS SleepersWait ReadyIsEnded GatherInOrder RunsOnce JoinedIsEnded
PROPERTIES WaitsEnd
CHECK_DEADLOCK FALSE
