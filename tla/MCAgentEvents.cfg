CONSTANTS
  Consumers = {c1}
  EventCapacity = 2
  PollMax = 1
  MaxModels = 2
  MaxEvents = 4
SPECIFICATION FairEventsSpec
INVARIANTS EachOnce NoSilentHole Accounted
PROPERTIES CatchesUp
CHECK_DEADLOCK FALSE
