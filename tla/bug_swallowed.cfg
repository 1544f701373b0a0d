SPECIFICATION Spec
CONSTANTS
  MaxObj = 9
  MaxShared = 0
  MaxOps = 7
  MaxItems = 2
  Ops = {"tuple", "global", "newobj"}
  Classes <- OneClass
INVARIANTS
  ErrorReturnsNull
CHECK_DEADLOCK FALSE
