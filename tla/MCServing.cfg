SPECIFICATION ServingSpec
CONSTANTS
  Workers = {"w1"}
  Threads = {t1, t2}
  Served = "gemini"
  Aliases = {"google", "vertex_ai"}
  Baseline <- MCBaseline
  Documents <- MCDocuments
  MaxWrites = 2
  Viewers = {v1, v2}
  MaxFrames = 2
  Capacity = 2
  Calls <- MCCalls
  Limits <- MCLimits
  SessionLimit = 1
  UserLimit = 1
  Window = 2
  Cleanup = 2
  Ceiling = 1024
  MaxTicks = 9
INVARIANTS
  CatalogueSound
  RefreshTakesEffect
  WindowExact
  OneAnswer
  FramesSound
  BufferSound
PROPERTIES
  ClientIsTold
CHECK_DEADLOCK FALSE
