SPECIFICATION Spec
CONSTANTS
  None = None
  Error = Error
  Symlink = Symlink
  Inodes = {i1, i2}
  Chunks = {x, y}
  MaxSize = 2
  MaxBytes = 1
  MaxEdits = 2
  FineClock = FALSE
PROPERTY
  DigestOfOneVersion
SYMMETRY MCSymmetry
