SPECIFICATION BatchSpec
CONSTANTS
  short = short
  long = long
  mine = mine
  other = other
  BatchModels <- MCBatchModels
  ModelId = mine
  Prompts <- MCPrompts
  Words <- MCWords
  ReplyWords = 3
  MaxBatch = 3
  MaxBatches = 3
INVARIANTS
  WorkConserved
  CacheIsServedPrompts
  ObservationsSumUp
