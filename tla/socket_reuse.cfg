SPECIFICATION FairSpec
CONSTANTS
  Socket = {1, 2, 3}
  Fd = {f1}
  App = {a1}
  Worker = worker
  LISTEN = listen
  NULL = null
  Size = 1
  KernelRoom = 1
  MaxUInt = 3
  MaxSends = 0
  MaxCloses = 1
CHECK_DEADLOCK FALSE
INVARIANTS
  QueuedIsGone WorkerOnOwn
PROPERTIES
  ClosedIsQueued
