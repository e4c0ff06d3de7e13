CONSTANTS
  Names = {n1, n2}
  KeyIds = {k1, k2, k3}
  Data = {d1, d2}
  NoKey = NoKey
  NoData = NoData
  MaxFaults = 2
SYMMETRY Symmetry
SPECIFICATION Spec
INVARIANTS TypeOK KeysOutliveCiphertext NoSilentOrphan AcknowledgedSurvives
CONSTRAINT Scope
