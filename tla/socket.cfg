SPECIFICATION FairSpec
CONSTANTS
  Socket = {1}
  Fd = {f1}
  App = {a1}
  Worker = worker
  LISTEN = listen
  NULL = null
  Size = 3
  KernelRoom = 1
  MaxUInt = 3
  MaxSends = 2
  MaxCloses = 1
CHECK_DEADLOCK FALSE
INVARIANTS
  WritesArePosted
  LockMatchesEvent
PROPERTIES
  ContiguousIsSent
