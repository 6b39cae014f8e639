SPECIFICATION ViewSpec
CONSTANTS
  None = None
  Garbage = Garbage
  Partial = Partial
  s1 = s1
  p1 = p1
  p2 = p2
  e1 = e1
  e2 = e2
  x = x
  c1 = c1
  Ids = {c1}
  Digests <- MCDigests
  Engines = {e1, e2}
  Sources = {s1}
  Plans = {p1}
  Strays = {x}
  Legacy <- MCLegacy
  MaxEdits = 1
  EditContents <- MCStatusEdits
  BusyThings <- MCBusyThings
  Blind <- MCBlind
  Restoring = FALSE
  Size <- MCSize
INVARIANTS
  ReadyHolds
  PendingReported
  AdviceFits
