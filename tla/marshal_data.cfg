SPECIFICATION Spec
CONSTANTS
  MaxObj = 5
  MaxShared = 1
  MaxOps = 5
  MaxItems = 2
  Ops = {"singleton", "leaf", "list", "dict", "ref", "instance", "row"}
  Classes <- Keeping
INVARIANTS
  CountsExact OnlyFailuresLeak ErrorReturnsNull
CHECK_DEADLOCK FALSE
