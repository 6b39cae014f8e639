SPECIFICATION Spec
CONSTANTS
  Lengths <- MCLengths
  Points <- MCPoints
  Paddings <- MCPaddings
  Losses <- MCLosses
INVARIANT
  PlanEndsInSource
CHECK_DEADLOCK FALSE
