SPECIFICATION GateSpec
CONSTANTS
  s1 = s1
  s2 = s2
  small = small
  tight = tight
  over = over
  large = large
  wrong = wrong
  unknown = unknown
  NoReport = NoReport
  Starts <- MCStarts
  Models <- MCModels
  Needs <- MCNeeds
  Ceiling = 100
SYMMETRY Symmetry
INVARIANTS
  ServersCleared
  RefusalsExplained
  SoleServerReported
