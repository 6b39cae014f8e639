SPECIFICATION OpenSpec
CONSTANTS
  None = None
  Garbage = Garbage
  c1 = c1
  c2 = c2
  a = a
  b = b
  e = e
  Ids = {c1, c2}
  Digests = {a, b}
  Engines = {e}
  Mutations <- MCMutations
  ForeignStates <- MCForeignStates
  ForeignRecords <- MCForeignRecords
  EditPcs <- MCEditPcs
PROPERTIES
  ProgramStepsAreTransitions
  RecordClearedOnlyWhenApplied
  AmbiguousUntouched
