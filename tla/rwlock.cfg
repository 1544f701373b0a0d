SPECIFICATION LockFairSpec
CONSTANTS
  Reader = {r1, r2}
  Writer = {w1, w2}
  NOBODY = NOBODY
  MaxCalls = 2
INVARIANTS
  Exclusive
PROPERTIES
  ReadersServed LoneWriterServed
CHECK_DEADLOCK FALSE
