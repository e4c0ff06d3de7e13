CONSTANTS
  m1 = m1
  m2 = m2
  o1 = o1
  o2 = o2
  Items <- MCItems
  Matching <- MCMatching
  NoItem = NoItem
  MaxDeletions = 2
  MaxSeq = 13
  MaxMarked = 1
  MaxMeddling = 1
SYMMETRY Symmetry
SPECIFICATION Spec
INVARIANTS OnlyMatchingDeleted
