SPECIFICATION Spec
CONSTANTS
  MaxObj = 8
  MaxShared = 2
  MaxOps = 5
  MaxItems = 1
  Ops = {"leaf", "tuple", "global", "instance", "newobj", "reduce"}
  Classes <- Calling
INVARIANTS
  NoDangling RegisteredInPlace
CHECK_DEADLOCK FALSE
