SPECIFICATION LiveSpec
CONSTANTS
  EnvTask = EnvTask
  HttpdTask = HttpdTask
  Blocks = {b1, b2, b3}
  Sockets = {s1, s2}
  Handles = {h1}
  QueueSize = 2
  NoBlock = NoBlock
  NoSocket = NoSocket
  NULL = NULL
  Unread = Unread
INVARIANTS PayloadOwned AtMostOneStale KickedOrOrphaned
PROPERTIES LossyFifo PayloadFreed DeadClientForgotten
