SPECIFICATION Spec
CONSTANTS
  None = None
  Footage = Footage
  Procs = {p1, p2}
  Projects = {w1, w2}
  Encoders = {k1, k2, k3}
  MaxKills = 2
SYMMETRY MCSymmetry
INVARIANT
  OneEncoder
