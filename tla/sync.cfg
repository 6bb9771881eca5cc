SPECIFICATION FairSpec
CONSTANTS
  Thread = {t1, t2, t3, t4}
  NoThread = NoThread
  Lock = {l1}
  Sem = {s1}
  InitialPermits <- MCPermits
  MaxI32 = 2
INVARIANTS TypeOK LockWakeup SemWakeups
PROPERTIES NoStealing NobodyForgotten
CHECK_DEADLOCK FALSE
