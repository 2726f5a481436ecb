SPECIFICATION FairSpec
CONSTANTS
  NumTasks = 2
  Accessions = {a1}
  WorkLists <- OneOrNone
  Tenants = {1}
  Resets = {r1}
  MaxActive = 2
  MaxFilings = 1
  Buffer = 0
  Demo = FALSE
  TimeLimit = TRUE
PROPERTIES
  ThreadsRunToCompletion
CHECK_DEADLOCK FALSE
