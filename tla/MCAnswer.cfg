SPECIFICATION Spec
CONSTANTS
  Plans = {"p1"}
  Asks = {"a1"}
  Streams = {"s1"}
  MaxRetries = 1
  InitialDelay = 1
  MaxDelay = 1
  Deadline = 2
  RetryAfters = {0, 1, 2}
  Timeout = 1
  Threshold = 2
  Before = 1
  Reset = 1
  MaxDeltas = 1
  MaxClock = 1
INVARIANTS
  StopsWithinOneEvent FramesTellTheTruth HealthSound CallBounded
PROPERTIES EverythingEnds
