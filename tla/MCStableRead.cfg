SPECIFICATION Spec
CONSTANTS
  None = None
  Error = Error
  Symlink = Symlink
  Inodes = {i1, i2}
  Chunks = {x, y}
  MaxSize = 2
  MaxBytes = 1
  MaxEdits = 3
  FineClock = TRUE
PROPERTIES
  ImplementsSnapshot
  RefusedOnlyForCause
SYMMETRY MCSymmetry
