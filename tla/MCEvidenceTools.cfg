SPECIFICATION Spec
CONSTANTS
  p1 = p1
  p2 = p2
  vllm = vllm
  other = other
  allowed = allowed
  refused = refused
  run1 = run1
  sub = sub
  env = env
  doc = doc
  requests = requests
  hits = hits
  Malformed = Malformed
  Procs <- TwoProcs
  Backends <- TwoBackends
  Reasons <- TwoReasons
  Dirs <- TwoDirs
  ReportDirs <- OneDir
  Inside <- Nested
  Files <- TwoFiles
  Forbidden <- OneForbidden
  RequiredMetrics <- TwoMetrics
  RequestsMetric <- requests
  FirstTrees <- MCFirstTrees
  Exports <- MCExports
  Benchmarks <- MCBenchmarks
  MaxStarts = 2
  MaxChanges = 1
  MaxEdits = 1
SYMMETRY Symmetry
INVARIANTS
  BundlesAsBuilt
  ReportsOfOneProbe
  PercentilesAreNearestRank
  ScansMatchCommits
  ManifestsNamePublishable
CHECK_DEADLOCK FALSE
