SPECIFICATION Spec
CONSTANTS
  EnvTask = EnvTask
  HttpdTask = HttpdTask
  Blocks = {b1, b2, b3}
  Sockets = {s1, s2}
  Handles = {h1}
  QueueSize = 1
  NoBlock = NoBlock
  NoSocket = NoSocket
  NULL = NULL
  Unread = Unread
PROPERTY ForgetsOnlyTheFailedClient
