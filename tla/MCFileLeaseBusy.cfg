SPECIFICATION Spec
CONSTANTS
  q1 = q1
  q2 = q2
  q3 = q3
  i1 = i1
  i2 = i2
  i3 = i3
  Absent = Absent
  Empty = Empty
  Foreign = Foreign
  Procs = {q1, q2}
  Inodes = {i1, i2}
  Crashes = FALSE
  ForeignWrites = FALSE
  Removals = FALSE
INVARIANT
  ContenderToldBusy
