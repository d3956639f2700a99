SPECIFICATION LiveSpec
CONSTANT MaxEvents = 2
PROPERTY BootWaitEnds
