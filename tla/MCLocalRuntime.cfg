SPECIFICATION FairSpec
CONSTANTS
  p1 = p1
  p2 = p2
  p3 = p3
  up = up
  down = down
  NoPid = NoPid
  Pids <- TwoPids
  Starters <- OneStarter
  Stoppers <- OneStopper
INVARIANTS
  DownReleasesRuntime
  OnlyRuntimePidsStopped
PROPERTIES
  StartsEnd
  DownsEnd
