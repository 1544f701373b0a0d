CONSTANTS
  Base = 16
  LongBytes = 6
  HashMod = 1024
  Table <- SomeTable
  Objects <- SomeObjects
  Sizes = {2, 8, 64}
  Deflated = {1, 12}
  MaxLoops = 2
SPECIFICATION Spec
INVARIANTS WritesInside RoundTrip 
CHECK_DEADLOCK FALSE
