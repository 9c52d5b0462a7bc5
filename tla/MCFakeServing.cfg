SPECIFICATION FakeSpec
CONSTANTS
  r1 = r1
  r2 = r2
  short = short
  long = long
  mine = mine
  foreign = foreign
  NoModel = NoModel
  Models <- MCModels
  Allowlist <- MCModels
  BackendModels <- OnlyMine
  Requests <- MCRequests
  Kinds <- MCKinds
  MaxChunks = 1
  TokenCounts = {4, 5}
  BatchModels <- MCModels
  ModelId = mine
  Prompts <- MCPrompts
  Words <- MCWords
  ReplyWords = 3
SYMMETRY Symmetry
INVARIANTS
  BatchCountsAnswers
  TokensDifferByStreams
  OnlyForeignModelsFail
