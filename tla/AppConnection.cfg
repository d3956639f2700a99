SPECIFICATION LiveSpec
CONSTANTS
  Sockets = {s1, s2}
  NULL = NULL
  MaxReconnect = 2
  MaxEvents = 2
  MaxLate = 1
  MaxUpdates = 1
INVARIANTS NoneLeftBehind  OpenIsWatched 
CHECK_DEADLOCK FALSE
 
