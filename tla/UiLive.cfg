SPECIFICATION LiveSpec
CONSTANTS
  daemon = daemon
  httpd = httpd
  loop = loop
  Tasks = {daemon, httpd}
  Daemon = daemon
  Ops <- CommandOps
  Pages = {p1}
  Boot = boot
  TimerQueue = 1
PROPERTY TimedOverlayEnds
