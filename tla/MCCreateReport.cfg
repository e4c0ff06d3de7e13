CONSTANTS
  MaxSeq = 28
  MaxReceipts = 2
  HeaderHeadroom = 2
  LinesHeadroom = 2
  Requests <- AllRequests
  NoRequest = NoRequest
SPECIFICATION Spec
INVARIANTS TypeOK NoIncompleteSubmission CheckpointIsCurrent PlanIsExact ReceiptHeadroomSuffices
PROPERTY KeepsPromise
