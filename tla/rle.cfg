CONSTANTS
  Run = 2
  RowBytes = 10
  PacketBytes = 3
  Rows <- SomeRows
  Packets <- SomePackets
  Slack = {0, 1, 2, 3, 4, 5}
SPECIFICATION Spec
INVARIANTS Fits Restored
CHECK_DEADLOCK FALSE
