SPECIFICATION FairSpec
CONSTANTS
  TimerQueueLength = 20
INVARIANTS
  ObjectsExistWhenUsed
PROPERTIES
  TimersTick
  InterruptsAreServed
CHECK_DEADLOCK FALSE
