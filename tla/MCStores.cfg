SPECIFICATION StoresSpec
CONSTANTS
  Workers = {w1, w2}
  Accessions = {a1, a2}
  Keys = {a1, a2}
  Key <- OwnKey
  Slices = 2
  Chunks = {a1, a2}
  Stamps = {s1, s2}
  Clients = {w1, w2}
  Batch = 1
INVARIANTS
  OneWriterPerFiling
  StoresAgree
  VectorsSound
  DoneKeepsAll
  InterruptedKeepsAll
PROPERTIES
  CallsComplete
SYMMETRY CallSymmetry
CHECK_DEADLOCK FALSE
