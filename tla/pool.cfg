SPECIFICATION FairSpec
CONSTANTS
  Thread = {t1, t2, t3}
  Task = {k1, k2}
  NULL = NULL
  THREAD_RESERVE = 1
  MaxChecks = 2
  MayShutdown = TRUE
INVARIANTS
  SetsHoldLiveThreads  NobodyForgotten
PROPERTIES
  TasksRun OrderlyShutdownEnds
CHECK_DEADLOCK FALSE
