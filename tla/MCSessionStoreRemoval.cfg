CONSTANTS
  Names = {n1}
  KeyIds = {k1}
  Data = {d1}
  NoKey = NoKey
  NoData = NoData
  MaxFaults = 2
SPECIFICATION Spec
PROPERTY RemovalReportsKey
