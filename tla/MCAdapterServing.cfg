SPECIFICATION MCFairSpec
CONSTANTS
  r1 = r1
  r2 = r2
  model = model
  NoModel = NoModel
  Models <- MCModels
  Allowlist = {}
  BackendModels <- MCModels
  Requests <- MCRequests
  Kinds <- MCKinds
  MaxChunks = 2
  TokenCounts = {0, 1}
  PoolSize = 1
INVARIANTS
  CallMatchesCaller
  StreamContainsAnswer
PROPERTIES
  ServingFairSpec
  ConnectionsReturned
  RequestsEnd
  StreamsEnd
  DrainCompletes
