SPECIFICATION PipelineSpec
CONSTANTS
  Limit = 5
  Tolerance = 1
  Overlap = 2
  Docs <- DocsDef
  MaxSentences = 5
  MaxSize = 6
  Corpus <- CorpusDef
  TopK = 2
  OverFetch = 2
  PerSection = 1
  PerFiling = 1
  Floor = 4
  MaxCitations = 2
  Questions <- QuestionsDef
  Runs = 2
  MaxFilings = 2
  Forms <- MCForms
  Catalogue <- MCCatalogue
  Encoders = {e1, e2}
  IdleTimeout = 2
  MaxTime = 5
  MaxLoads = 3
INVARIANTS
  ChunksFaithful
  AnswerGrounded
  OwnIdentity
  ListWorkedThrough
  OneModel
PROPERTIES
  EveryRunEnds
  IdleIsReleased
CHECK_DEADLOCK FALSE
