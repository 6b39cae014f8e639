SPECIFICATION GuidedSpec
CONSTANTS
  None = None
  Garbage = Garbage
  Partial = Partial
  s1 = s1
  p1 = p1
  p2 = p2
  e1 = e1
  e2 = e2
  x = x
  c1 = c1
  Ids = {c1}
  Digests <- MCDigests
  Engines = {e1}
  Sources = {s1}
  Plans = {p1, p2}
  Strays = {x}
  Legacy <- MCLegacy
  MaxEdits = 0
  EditContents <- MCStatusEdits
  BusyThings <- MCBusyThings
  Blind <- MCBlind
  Restoring = FALSE
  Size <- MCSize
PROPERTY
  GuidanceConverges
CHECK_DEADLOCK FALSE
