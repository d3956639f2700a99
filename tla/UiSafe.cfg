SPECIFICATION Spec
CONSTANTS
  daemon = daemon
  httpd = httpd
  loop = loop
  Tasks = {daemon, httpd, loop}
  Daemon = daemon
  Ops <- ScreenOps
  Pages = {p1}
  Boot = boot
  TimerQueue = 1
INVARIANTS
  
  OverlayHasTimer
