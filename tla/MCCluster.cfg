SPECIFICATION Spec
CONSTANTS
  small = small
  large = large
  None = None
  Models <- TwoModels
  Nodes <- MCNodes
  Claims <- MCClaims
  MaxNodes = 3
  MaxDecisions = 2
INVARIANTS
  DecisionsReplay
CHECK_DEADLOCK FALSE
