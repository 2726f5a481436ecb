SPECIFICATION Spec
CONSTANTS
  NumTasks = 2
  Accessions = {a1, a2}
  WorkLists <- AllWorkLists
  Tenants = {1}
  Resets = {r1}
  MaxActive = 2
  MaxFilings = 1
  Buffer = 0
  Demo = TRUE
  TimeLimit = FALSE
INVARIANTS
  CeilingKept
  CancelledLeavesNothing
  ManagerSound
PROPERTIES
  ImplementsQueue
SYMMETRY FilingSymmetry
CHECK_DEADLOCK FALSE
