SPECIFICATION Spec
CONSTANTS
  None = None
  Garbage = Garbage
  Partial = Partial
  s1 = s1
  p1 = p1
  p2 = p2
  e1 = e1
  e2 = e2
  x = x
  c1 = c1
  Ids = {c1}
  Digests <- MCDigests
  Engines = {e1, e2}
  Sources = {s1}
  Plans = {p1, p2}
  Strays = {x}
  Legacy = {}
  MaxEdits = 2
  EditContents <- MCEditContents
  BusyThings <- MCBusyThings
  Blind <- MCBlind
  Restoring = FALSE
INVARIANTS
  TypeOK
  MasterAccounted
  Provenance
  QaOfMaster
  ManifestBound
PROPERTIES
  ImplementsLifecycle
  NoClobber
  ReceiptOutlivesBuild
