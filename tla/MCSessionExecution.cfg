CONSTANTS
  Procs = {p1, p2}
  Operators = {u1}
  Captures = {c1, c2}
  NoCapture = NoCapture
  MaxSeq = 1
SPECIFICATION FairSpec
INVARIANTS TypeOK MutualExclusion ReadyIsFresh
PROPERTIES NoSequenceReuse ImplementsCapability CommandsEnd
