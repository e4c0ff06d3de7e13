CONSTANTS
  rep1 = rep1
  rep2 = rep2
  rep3 = rep3
  ada = ada
  bob = bob
  bo2 = bo2
  cyd = cyd
  key1 = key1
  key2 = key2
  r1 = r1
  r2 = r2
  r3 = r3
  Reports <- MCReports
  Listed <- MCListed
  Target = rep1
  NoReport = NoReport
  Workers <- MCWorkers
  NameOf <- MCNameOf
  Blank = Blank
  MaxApprovers = 3
  HeaderInputs <- MCHeaderInputs
  ReportApprovers <- MCReportApprovers
  Keys = {key1, key2}
  OtherKey = OtherKey
  LineInputs <- MCLineInputs
  NoList = NoList
  ReportLines <- MCReportLines
  Receipts <- MCReceipts
  Named <- MCNamed
  MaxUploads = 2
  Looks <- MCLooks
  NoMerchant = NoMerchant
  NoReceipt = NoReceipt
  ReportReceiptSets <- MCReportReceiptSets
SPECIFICATION SmallSpec
INVARIANT SuccessAttaches
