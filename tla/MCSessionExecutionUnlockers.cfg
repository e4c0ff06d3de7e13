CONSTANTS
  Procs = {p1, p2}
  Operators = {u1, u2}
  Captures = {c1}
  NoCapture = NoCapture
  MaxSeq = 1
SPECIFICATION Spec
SYMMETRY Symmetry
PROPERTY NoSequenceReuse
