CONSTANTS
  m1 = m1
  m2 = m2
  o1 = o1
  o2 = o2
  Items <- MCItems
  Matching <- MCMatching
  NoItem = NoItem
  MaxDeletions = 2
  MaxSeq = 13
  MaxMarked = 2
  MaxMeddling = 2
SYMMETRY Symmetry
SPECIFICATION Spec
INVARIANTS TypeOK CountIsHonest SuccessIsComplete OnlyMatchingOrOverlooked HeadroomSuffices
