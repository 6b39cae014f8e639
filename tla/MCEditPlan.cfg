SPECIFICATION Spec
CONSTANTS
  Lengths <- MCLengths
  Points <- MCPoints
  Paddings <- MCPaddings
  Losses <- MCLosses
INVARIANTS
  ApprovedIsBuildable
  AcceptedCoversPlan
CHECK_DEADLOCK FALSE
