--------------------------- MODULE MCCreateReport ---------------------------
(* CreateReport on all small requests, and apart on those without receipts *)
(* (the Go method CreateReport rather than CreateReportWithReceipts).      *)
EXTENDS CreateReport

AllRequests == Request
WithoutReceipts == {r \in Request : r.receipts = 0}
=============================================================================
