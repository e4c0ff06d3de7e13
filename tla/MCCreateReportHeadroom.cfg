CONSTANTS
  MaxSeq = 12
  MaxReceipts = 2
  HeaderHeadroom = 2
  LinesHeadroom = 2
  Requests <- WithoutReceipts
  NoRequest = NoRequest
SPECIFICATION Spec
INVARIANT HeadroomSuffices
