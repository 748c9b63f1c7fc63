SPECIFICATION FairSpec
CONSTANTS
  Threads = {t1, t2}
  Events = {e1, e2}
  MaxTime = 3
  NoDeadline = NoDeadline
  NoEvent = NoEvent
  NoWait = NoWait
CHECK_DEADLOCK FALSE
INVARIANTS
  TimerCoversData
PROPERTIES
  Implements
  EventHandled

