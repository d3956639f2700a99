SPECIFICATION LiveSpec
CONSTANT MaxEvents = 4
INVARIANTS
  
  NoAlarmWhileServing
  
PROPERTIES
  SeenLinkEndsWait
  MissingCableAnnounced
