SPECIFICATION Spec
CONSTANTS
  r1 = r1
  r2 = r2
  allowed = allowed
  other = other
  NoModel = NoModel
  Models <- MCModels
  Allowlist <- MCAllowlist
  BackendModels <- MCModels
  Requests <- TwoRequests
  Kinds <- EveryKind
  MaxChunks = 2
  TokenCounts <- MCTokenCounts
SYMMETRY Symmetry
INVARIANTS
  TypeOK
  TranscriptWellFormed
  GenerationErrorsReachHttp
  HttpErrorsExplained
  AllowlistHolds
PROPERTIES
  StreamLedgerSpec
