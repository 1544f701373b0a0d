SPECIFICATION FairSpec
CONSTANTS
  Socket = {s1}
  Worker = {w1, w2}
  App = {a1}
  Acceptor = acceptor
  Main = main
  NULL = null
  Size = 2
  MaxSends = 2
  MaxReads = 1

   
PROPERTIES
   ClosedIsQueued CloseAllEnds
CHECK_DEADLOCK FALSE
