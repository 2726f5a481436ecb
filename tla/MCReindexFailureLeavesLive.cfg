SPECIFICATION ReindexSpec
CONSTANTS
  Chunks = {k1}
  Stamps = {s1, s2}
  Clients = {c1}
  Batch = 2
INVARIANTS
  FailureLeavesLive
CHECK_DEADLOCK FALSE
