SPECIFICATION LiveSpec
CONSTANTS
  Httpd = httpd
  Callers = {httpd, loop}
  MaxBeeps = 3
  TimerQueue = 2
  AlarmBeeps = {2}
INVARIANTS
  BuzzerHasTimer
  BeepsAsAsked
  RequestSettled
  
PROPERTY ToneEnds
