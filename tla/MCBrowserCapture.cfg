CONSTANTS
  repA = repA
  repB = repB
  NoLanguage = NoLanguage
  Reports = {repA, repB, repS}
  Drafts = {repA, repB}
  Created = repN
  NoReport = NoReport
  Places = {w1, w2}
  Home = w1
  Auths = {0, 1}
  Sessions <- MCSessions
SYMMETRY Symmetry
SPECIFICATION Spec
INVARIANTS TypeOK SequencesFollow RootIsLive ReceiptProfileIsTrue
