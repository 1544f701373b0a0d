SPECIFICATION FairSpec
CONSTANTS
  Client = {c1}
  Query = {q1, q2}
  Buffer = {b1}
  BufferSize = 2
  Connection = {k1, k2}
  ExecuteThread = exec
  QueryThread = flush
  Main = main
  NULL = NULL
  BEGIN = BEGIN
  COMMIT = COMMIT
  SpuriousWakeups = TRUE
  MaxCalls = 2
  MaxFaults = 1
INVARIANTS
  WaitsForWork OwnConnection CommittedOnce InOrder Together
PROPERTIES
  QueuedIsPerformed CallsReturn EndThreadsReturns
CHECK_DEADLOCK FALSE
