SPECIFICATION FairDurableSpec
CONSTANTS
  None = None
  Garbage = Garbage
  c1 = c1
  c2 = c2
  a = a
  b = b
  e = e
  Ids = {c1, c2}
  Digests = {a, b}
  Engines = {e}
  Mutations <- MCMutations
  ForeignStates = {}
  ForeignRecords = {}
  EditPcs = {}
  MaxKills = 2
INVARIANTS
  TypeOK
  PendingOneSide
  JournalInv
  DiskOneSide
  AckedSurvives
  ToldSurvives
PROPERTIES
  DiskImplementsLifecycle
  PendingResolved
CHECK_DEADLOCK FALSE
