SPECIFICATION Spec
CONSTANTS
  p1 = p1
  p2 = p2
  p3 = p3
  up = up
  down = down
  NoPid = NoPid
  Pids <- ThreePids
  Starters <- OneStarter
  Stoppers <- OneStopper
SYMMETRY Symmetry
INVARIANTS
  OnlyRuntimeStopped
