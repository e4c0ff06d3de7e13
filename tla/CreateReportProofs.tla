------------------------- MODULE CreateReportProofs -------------------------
(***************************************************************************)
(* Proofs about CreateReport, for any sequence space, number of receipts   *)
(* and headroom of the edits: what the caller is told is true, and no      *)
(* report is submitted incomplete; the saved checkpoint follows every      *)
(* number sent, the plan announces the requests that are sent, and an      *)
(* operation with receipts that was admitted never runs out of numbers.    *)
(***************************************************************************)
EXTENDS CreateReport, TLAPS

USE ConstantsAssumption

Early == {"idle", "open", "create"}

-----------------------------------------------------------------------------
(* Type correctness, and where the parts of a request are dealt with.      *)

Progress ==
  /\ posted \in {"none", at}
  /\ posted = "none" \/ at \in Exchanges
  /\ at \in Early \cup {"header", "lines", "activate"} => attached = 0
  /\ at \in ReceiptSteps => attached < request.receipts
  /\ at \in Final => attached = request.receipts /\ at = request.final
  /\ at = "header" => request.approvers
  /\ at = "lines" => request.lines
  /\ at = "activate" => request.receipts > 0
  /\ verdict = "nil" <=> at = "done"
  /\ verdict \in {"expired", "other"} => at \in {"idle", "open"}

LEMMA InitialProgress == Init => TypeOK /\ Progress
BY DEF Init, TypeOK, Progress, Early, Exchanges, Edits, ReceiptSteps, Final,
       Verdicts, NoReport, Report

\* A known request.
LEMMA RequestTypes ==
  ASSUME TypeOK, at # "idle"
  PROVE  /\ request \in Request
         /\ request.receipts \in 0 .. MaxReceipts /\ request.receipts \in Nat
         /\ request.final \in Final
         /\ request.approvers \in BOOLEAN /\ request.lines \in BOOLEAN
<1>1. request \in Request
  BY DEF TypeOK
<1> QED
  BY <1>1 DEF Request

\* What Dynamics makes of a report is a report.
LEMMA EffectTypes ==
  ASSUME TypeOK, NEW step \in Exchanges
  PROVE  Effects(step) \subseteq Report
<1>1. report \in Report
  BY DEF TypeOK
<1>2. CASE step \in {"upload", "complete", "confirm"}
  <2>1. Effects(step) = {report, [report EXCEPT !.receipts = @ + 1]}
    BY <1>2 DEF Effects
  <2>2. [report EXCEPT !.receipts = @ + 1] \in Report
    BY <1>1 DEF Report
  <2> QED
    BY <1>1, <2>1, <2>2
<1>3. CASE step = "submit"
  <2>1. Effects(step) = {report} \cup
          {[report EXCEPT !.status = "Submitted", !.closed = c] : c \in BOOLEAN}
    BY <1>3 DEF Effects
  <2>2. ASSUME NEW c \in BOOLEAN
        PROVE  [report EXCEPT !.status = "Submitted", !.closed = c] \in Report
    BY <1>1 DEF Report
  <2> QED
    BY <1>1, <2>1, <2>2
<1>4. CASE step \in {"create", "header", "lines", "save"}
  <2>1. Effects(step) \subseteq
          {report, [report EXCEPT !.status = "Draft"],
           [report EXCEPT !.header = TRUE], [report EXCEPT !.lines = TRUE],
           [report EXCEPT !.closed = TRUE]}
    BY <1>4 DEF Effects
  <2>2. /\ [report EXCEPT !.status = "Draft"] \in Report
        /\ [report EXCEPT !.header = TRUE] \in Report
        /\ [report EXCEPT !.lines = TRUE] \in Report
        /\ [report EXCEPT !.closed = TRUE] \in Report
    BY <1>1 DEF Report
  <2> QED
    BY <1>1, <2>1, <2>2
<1>5. CASE step \in {"open", "activate", "preflight", "close", "reopen",
                     "documents", "check"}
  <2>1. Effects(step) = {report}
    BY <1>5 DEF Effects
  <2> QED
    BY <1>1, <2>1
<1> QED
  BY <1>2, <1>3, <1>4, <1>5 DEF Exchanges, Edits, ReceiptSteps, Final

LEMMA NumberTypes ==
  ASSUME TypeOK, at \in Exchanges
  PROVE  Number \in Nat /\ ByReceiptClient \in BOOLEAN
BY RequestTypes DEF TypeOK, Number, ByReceiptClient

LEMMA AdvanceTypes ==
  ASSUME TypeOK, NEW n \in Nat, NEW ends \in BOOLEAN, Advance(n, ends)
  PROVE  next' \in Nat /\ receiptNext' \in Nat
BY DEF TypeOK, Advance

LEMMA AcknowledgeTypes ==
  ASSUME TypeOK, at \in Exchanges, NEW ends \in BOOLEAN, Acknowledge(ends)
  PROVE  next' \in Nat /\ receiptNext' \in Nat
<1>1. CASE at = "upload"
  BY <1>1, NumberTypes, AdvanceTypes DEF Acknowledge
<1>2. CASE at # "upload"
  <2>1. PICK ack \in 0 .. top : Advance(ack + 1, ends)
    BY <1>2 DEF Acknowledge
  <2>2. ack + 1 \in Nat
    BY DEF TypeOK
  <2> QED
    BY <2>1, <2>2, AdvanceTypes
<1> QED
  BY <1>1, <1>2

\* Where an accepted answer leads.
LEMMA Successors ==
  ASSUME TypeOK, Progress, at \in Exchanges
  PROVE  /\ Successor[at] \in Exchanges \cup {"done"}
         /\ at = "open" => Successor[at] = "create"
         /\ at = "create" => Successor[at] = ToHeader
         /\ at = "header" => Successor[at] = ToLines
         /\ at = "lines" => Successor[at] = ToReceipts
         /\ at = "activate" => Successor[at] = "preflight"
         /\ at = "preflight" => Successor[at] = "close"
         /\ at = "close" => Successor[at] = "reopen"
         /\ at = "reopen" => Successor[at] = "documents"
         /\ at = "documents" => Successor[at] = "check"
         /\ at = "check" => Successor[at] = "upload"
         /\ at = "upload" => Successor[at] = "complete"
         /\ at = "complete" => Successor[at] = "confirm"
         /\ at = "confirm" => Successor[at] = ToNextReceipt
         /\ at \in Final => Successor[at] = "done"
<1>1. request.final \in Final
  BY RequestTypes DEF Exchanges, Edits, ReceiptSteps, Final
<1> QED
  BY <1>1 DEF Successor, ToHeader, ToLines, ToReceipts, ToNextReceipt,
              Exchanges, Edits, ReceiptSteps, Final

LEMMA TypeInvariance ==
  TypeOK /\ Progress /\ [Next]_vars => TypeOK' /\ Progress'
<1> SUFFICES ASSUME TypeOK, Progress, [Next]_vars PROVE TypeOK' /\ Progress'
  OBVIOUS
<1>1. ASSUME NEW r \in Requests, Start(r) PROVE TypeOK' /\ Progress'
  <2>1. r \in Request /\ r.receipts \in Nat /\ r # NoRequest
    BY DEF Request
  <2>2. /\ at = "idle" /\ verdict = "pending" /\ attached = 0
        /\ posted = "none"
        /\ \/ request' = r /\ at' = "open" /\ verdict' = verdict
           \/ verdict' = "other" /\ request' = request /\ at' = at
        /\ UNCHANGED <<posted, left, attached, next, receiptNext, report, top, requests>>
    BY <1>1 DEF Start, Pending, ErrorClass, Progress, Early, Exchanges, Edits,
                ReceiptSteps, Final
  <2> QED
    BY <2>1, <2>2
       DEF Start, Pending, ErrorClass, TypeOK, Progress, Early, Exchanges, Edits,
           ReceiptSteps, Final, Verdicts
<1>2. CASE Post
  <2>1. at \in Exchanges /\ Number \in Nat
    BY <1>2, NumberTypes DEF Post, Ready
  <2>2. top' \in Nat /\ requests' \in Nat /\ left' \in Nat
    BY <1>2, <2>1 DEF Post, Ready, TypeOK, Messages
  <2> QED
    BY <1>2, <2>1, <2>2 DEF Post, Ready, TypeOK, Progress, Exchanges
<1>3. CASE Accept
  <2>1. at \in Exchanges /\ at # "idle" /\ posted = at /\ verdict = "pending"
    BY <1>3 DEF Accept, Waiting, Pending, Progress, Exchanges, Edits,
                ReceiptSteps, Final
  <2>2. next' \in Nat /\ receiptNext' \in Nat
    <3> DEFINE ends == at \in {"confirm"} \cup Final
    <3>1. Acknowledge(ends)
      BY <1>3 DEF Accept
    <3>2. ends \in BOOLEAN
      OBVIOUS
    <3> HIDE DEF ends
    <3> QED
      BY <2>1, <3>1, <3>2, AcknowledgeTypes
  <2>3. report' \in Report
    BY <1>3, <2>1, EffectTypes DEF Accept
  <2>4. left' \in Nat
    BY <1>3 DEF Accept, Allowance, TypeOK
  <2>5. at' = Successor[at] \/ (at \in Edits /\ at' = at)
    BY <1>3 DEF Accept
  <2>6. /\ at' \in Exchanges \cup {"done"} /\ at' # "idle"
        /\ verdict' = IF at' = "done" THEN "nil" ELSE "pending"
    BY <1>3, <2>1, <2>5, Successors
       DEF Accept, Exchanges, Edits, ReceiptSteps, Final
  <2>7. /\ request' = request /\ posted' = "none" /\ top' = top
        /\ requests' = requests
        /\ attached' = IF at = "confirm" THEN attached + 1 ELSE attached
    BY <1>3 DEF Accept
  <2>8. /\ attached \in Nat /\ attached <= request.receipts
        /\ request.receipts \in Nat
        /\ request.approvers \in BOOLEAN /\ request.lines \in BOOLEAN
        /\ request.final \in Final
    BY <2>1, RequestTypes DEF TypeOK
  <2>9. attached' \in Nat /\ attached' <= request'.receipts
    BY <2>7, <2>8 DEF Progress, ReceiptSteps
  <2>10. TypeOK'
    BY <2>1, <2>2, <2>3, <2>4, <2>6, <2>7, <2>9 DEF TypeOK, Verdicts
  <2>11. /\ at' \in Early \cup {"header", "lines", "activate"} => attached' = 0
         /\ at' \in ReceiptSteps => attached' < request'.receipts
         /\ at' \in Final => attached' = request'.receipts /\ at' = request'.final
         /\ at' = "header" => request'.approvers
         /\ at' = "lines" => request'.lines
         /\ at' = "activate" => request'.receipts > 0
    BY <2>1, <2>5, <2>7, <2>8, Successors
       DEF Progress, Early, Exchanges, Edits, ReceiptSteps, Final,
           ToHeader, ToLines, ToReceipts, ToNextReceipt
  <2> QED
    BY <2>6, <2>7, <2>10, <2>11 DEF Progress
<1>4. CASE Reject
  <2>1. at \in Exchanges /\ posted = at /\ verdict = "pending"
    BY <1>4 DEF Reject, Waiting, Pending, Progress
  <2>2. next' \in Nat /\ receiptNext' \in Nat
    BY <1>4, <2>1, AcknowledgeTypes, AdvanceTypes, NumberTypes DEF Reject
  <2>3. report' \in Report
    BY <1>4, <2>1, EffectTypes DEF Reject
  <2>4. /\ verdict' \in {"expired", "other", "uncertain"}
        /\ verdict' # "uncertain" => at \in {"idle", "open"}
    BY <1>4 DEF Reject, ErrorClass
  <2> QED
    BY <1>4, <2>1, <2>2, <2>3, <2>4
       DEF Reject, TypeOK, Progress, Verdicts, Exchanges, Edits, ReceiptSteps, Final
<1>5. CASE GiveUp \/ Abandon
  <2>1. at \in Exchanges /\ verdict = "pending"
    BY <1>5 DEF GiveUp, Abandon, Waiting, Pending, Progress
  <2>2. next' \in Nat /\ receiptNext' \in Nat
    BY <1>5, <2>1, AdvanceTypes, NumberTypes DEF GiveUp, Abandon
  <2>3. /\ verdict' \in {"other", "uncertain"}
        /\ verdict' # "uncertain" => at \in {"idle", "open"}
    BY <1>5 DEF GiveUp, Abandon, ErrorClass
  <2> QED
    BY <1>5, <2>1, <2>2, <2>3
       DEF GiveUp, Abandon, TypeOK, Progress, Verdicts, Exchanges, Edits,
           ReceiptSteps, Final
<1>6. CASE LateEffect
  <2>1. posted = at /\ at \in Exchanges
    BY <1>6 DEF LateEffect, Progress
  <2>2. report' \in Report
    BY <1>6, <2>1, EffectTypes DEF LateEffect
  <2> QED
    BY <1>6, <2>1, <2>2 DEF LateEffect, client, TypeOK, Progress
<1>7. CASE UNCHANGED vars
  BY <1>7 DEF vars, TypeOK, Progress
<1> QED
  BY <1>1, <1>2, <1>3, <1>4, <1>5, <1>6, <1>7 DEF Next, Stop

(* Every variable keeps to its type: attached receipts never exceed those  *)
(* requested, a request is known once the operation has started.           *)
THEOREM TypeCorrect == Spec => []TypeOK
<1>1. Init => TypeOK /\ Progress
  BY InitialProgress
<1>2. TypeOK /\ Progress /\ [Next]_vars => TypeOK' /\ Progress'
  BY TypeInvariance
<1> QED
  BY <1>1, <1>2, PTL DEF Spec

-----------------------------------------------------------------------------
(* What Dynamics can have made of the report when an exchange is due, and  *)
(* that the verdict fits it.                                               *)

Shape ==
  /\ at \in {"idle", "open"} => report.status = "none"
  /\ report.status = "none" => report = NoReport
  /\ at = "create" => report.status \in {"none", "Draft"}
  /\ at \notin Early => report.status \in {"Draft", "Submitted"}
  /\ report.status = "Submitted" => at \in {"submit", "done"}
  /\ at # "header" => (report.header <=> at \notin Early /\ request.approvers)
  /\ at # "lines" =>
       (report.lines <=> at \notin Early \cup {"header"} /\ request.lines)
  /\ at \notin {"upload", "complete", "confirm"} => report.receipts = attached
  /\ at \notin Final \cup {"done"} => ~report.closed
  /\ at = "done" => attached = request.receipts /\ report = Wanted

\* Which parts of the report a request leaves alone.
LEMMA EffectFrame ==
  ASSUME TypeOK, NEW step \in Exchanges, NEW r \in Effects(step)
  PROVE  /\ step \notin {"create", "submit"} => r.status = report.status
         /\ step = "create" => r.status \in {report.status, "Draft"}
         /\ step = "submit" => r.status \in {report.status, "Submitted"}
         /\ step # "header" => r.header = report.header
         /\ step # "lines" => r.lines = report.lines
         /\ step \notin {"upload", "complete", "confirm"} => r.receipts = report.receipts
         /\ step \notin Final => r.closed = report.closed
         /\ r.status = report.status /\ step \in {"open", "create"} => r = report
<1>1. report \in Report
  BY DEF TypeOK
<1>2. CASE step \in {"upload", "complete", "confirm"}
  <2>1. r \in {report, [report EXCEPT !.receipts = @ + 1]}
    BY <1>2 DEF Effects
  <2> QED
    BY <1>1, <1>2, <2>1 DEF Report, Final
<1>3. CASE step = "submit"
  <2>1. r = report \/
          \E c \in BOOLEAN : r = [report EXCEPT !.status = "Submitted", !.closed = c]
    BY <1>3 DEF Effects
  <2> QED
    BY <1>1, <1>3, <2>1 DEF Report, Final
<1>4. CASE step = "create"
  <2>1. r \in {report, [report EXCEPT !.status = "Draft"]}
    BY <1>4 DEF Effects
  <2>2. report.status = "Draft" => [report EXCEPT !.status = "Draft"] = report
    BY <1>1 DEF Report
  <2> QED
    BY <1>1, <1>4, <2>1, <2>2 DEF Report, Final
<1>5. CASE step = "header"
  <2>1. r \in {report, [report EXCEPT !.header = TRUE]}
    BY <1>5 DEF Effects
  <2> QED
    BY <1>1, <1>5, <2>1 DEF Report, Final
<1>6. CASE step = "lines"
  <2>1. r \in {report, [report EXCEPT !.lines = TRUE]}
    BY <1>6 DEF Effects
  <2> QED
    BY <1>1, <1>6, <2>1 DEF Report, Final
<1>7. CASE step = "save"
  <2>1. r \in {report, [report EXCEPT !.closed = TRUE]}
    BY <1>7 DEF Effects
  <2> QED
    BY <1>1, <1>7, <2>1 DEF Report, Final
<1>8. CASE step \in {"open", "activate", "preflight", "close", "reopen",
                     "documents", "check"}
  <2>1. r = report
    BY <1>8 DEF Effects
  <2> QED
    BY <1>8, <2>1 DEF Final
<1> QED
  BY <1>2, <1>3, <1>4, <1>5, <1>6, <1>7, <1>8
     DEF Exchanges, Edits, ReceiptSteps, Final

\* A report is known by its parts.
LEMMA ReportParts ==
  ASSUME NEW r \in Report, NEW s \in Report,
         r.status = s.status, r.header = s.header, r.lines = s.lines,
         r.receipts = s.receipts, r.closed = s.closed
  PROVE  r = s
BY DEF Report

LEMMA WantedType ==
  ASSUME TypeOK, at # "idle"
  PROVE  /\ Wanted \in Report /\ Wanted # NoReport
         /\ Wanted.status = IF request.final = "submit" THEN "Submitted" ELSE "Draft"
         /\ Wanted.header = request.approvers /\ Wanted.lines = request.lines
         /\ Wanted.receipts = request.receipts /\ Wanted.closed = TRUE
BY RequestTypes DEF Wanted, Report, NoReport

\* The report changes, the exchange stays: nothing is out of shape.
LEMMA ShapeUnderEffect ==
  ASSUME TypeOK, Progress, Shape, at \in Exchanges,
         report' \in Effects(at), UNCHANGED <<at, request, attached>>
  PROVE  Shape'
<1>1. at # "done" /\ report \in Report /\ report' \in Report
  BY EffectTypes DEF TypeOK, Exchanges, Edits, ReceiptSteps, Final
<1>2. /\ at \notin {"create", "submit"} => report'.status = report.status
      /\ at = "create" => report'.status \in {report.status, "Draft"}
      /\ at = "submit" => report'.status \in {report.status, "Submitted"}
      /\ at # "header" => report'.header = report.header
      /\ at # "lines" => report'.lines = report.lines
      /\ at \notin {"upload", "complete", "confirm"} => report'.receipts = report.receipts
      /\ at \notin Final => report'.closed = report.closed
      /\ report'.status = report.status /\ at \in {"open", "create"} => report' = report
  BY EffectFrame
<1>3. report'.status = "none" => report' = NoReport
  BY <1>1, <1>2 DEF Shape, Early, Exchanges, Edits, ReceiptSteps, Final
<1> QED
  BY <1>1, <1>2, <1>3 DEF Shape, Early, Exchanges, Edits, ReceiptSteps, Final

LEMMA ShapeInvariance ==
  ASSUME TypeOK, Progress, Shape, [Next]_vars, TypeOK', Progress'
  PROVE  Shape'
<1>1. ASSUME NEW r \in Requests, Start(r) PROVE Shape'
  <2>1. /\ at = "idle" /\ UNCHANGED <<report, attached>>
        /\ at' \in {"idle", "open"}
    BY <1>1 DEF Start
  <2> QED
    BY <2>1 DEF Shape, Early, Final
<1>2. CASE Post
  BY <1>2 DEF Post, Shape, Wanted
<1>3. CASE Accept
  <2>1. at \in Exchanges /\ posted = at
    BY <1>3 DEF Accept, Waiting, Progress
  <2>2. /\ report' \in Effects(at) /\ report' \in Report /\ report \in Report
        /\ request' = request
        /\ attached' = IF at = "confirm" THEN attached + 1 ELSE attached
    BY <1>3 DEF Accept, TypeOK
  <2>3. CASE at' = at /\ at \in Edits
    BY <2>1, <2>2, <2>3, ShapeUnderEffect DEF Edits
  <2>4. CASE Confirms(at, report') /\ at' = Successor[at]
    <3>1. /\ at \notin {"create", "submit"} => report'.status = report.status
          /\ at = "create" => report'.status \in {report.status, "Draft"}
          /\ at = "submit" => report'.status \in {report.status, "Submitted"}
          /\ at # "header" => report'.header = report.header
          /\ at # "lines" => report'.lines = report.lines
          /\ at \notin {"upload", "complete", "confirm"} => report'.receipts = report.receipts
          /\ at \notin Final => report'.closed = report.closed
          /\ report'.status = report.status /\ at \in {"open", "create"} => report' = report
      BY <2>1, <2>2, EffectFrame
    <3>2. /\ at = "create" => report'.status = "Draft"
          /\ at = "header" => report'.header
          /\ at = "lines" => report'.lines
          /\ at = "confirm" => report'.receipts = attached + 1
          /\ at = "save" => report'.closed
          /\ at = "submit" => report'.status = "Submitted" /\ report'.closed
      BY <2>4 DEF Confirms, Counted
    <3>3. /\ request.final \in Final /\ request.approvers \in BOOLEAN
          /\ request.lines \in BOOLEAN /\ request.receipts \in Nat
          /\ at # "idle"
      BY <2>1, RequestTypes DEF Exchanges, Edits, ReceiptSteps, Final
    <3>4. CASE at \in Final
      <4>1. /\ at' = "done" /\ attached' = attached /\ attached = request.receipts
            /\ at = request.final
        BY <2>1, <2>2, <2>4, <3>4, Successors DEF Progress, Final
      <4>2. report' = Wanted
        BY <2>2, <3>1, <3>2, <3>3, <3>4, <4>1, WantedType, ReportParts
           DEF Shape, Early, Final, Report
      <4>3. Wanted' = Wanted
        BY <2>2 DEF Wanted
      <4> QED
        BY <2>2, <3>3, <4>1, <4>2, <4>3, WantedType DEF Shape, Early, Final
    <3>5. CASE at \notin Final
      <4>1. at' # "done" /\ at' \in Exchanges \ {"open"}
        BY <2>1, <2>4, <3>3, <3>5, Successors
           DEF Progress, Exchanges, Edits, ReceiptSteps, Final,
               ToHeader, ToLines, ToReceipts, ToNextReceipt
      <4>2. /\ report'.status = "none" => report' = NoReport
            /\ at' = "create" => report'.status \in {"none", "Draft"}
            /\ at' \notin Early => report'.status \in {"Draft", "Submitted"}
            /\ report'.status = "Submitted" => at' \in {"submit", "done"}
        BY <2>1, <2>2, <2>4, <3>1, <3>2, <3>5, <4>1, Successors
           DEF Shape, Early, Exchanges, Edits, ReceiptSteps, Final
      <4>3. at' # "header" => (report'.header <=> at' \notin Early /\ request.approvers)
        BY <2>1, <2>2, <2>4, <3>1, <3>2, <3>3, <3>5, <4>1, Successors
           DEF Shape, Progress, Early, Exchanges, Edits, ReceiptSteps, Final, Report,
               ToHeader, ToLines, ToReceipts, ToNextReceipt
      <4>4. at' # "lines" => (report'.lines <=>
              at' \notin Early \cup {"header"} /\ request.lines)
        BY <2>1, <2>2, <2>4, <3>1, <3>2, <3>3, <3>5, <4>1, Successors
           DEF Shape, Progress, Early, Exchanges, Edits, ReceiptSteps, Final, Report,
               ToHeader, ToLines, ToReceipts, ToNextReceipt
      <4>5. at' \notin {"upload", "complete", "confirm"} => report'.receipts = attached'
        BY <2>1, <2>2, <2>4, <3>1, <3>2, <3>5, <4>1, Successors
           DEF Shape, Exchanges, Edits, ReceiptSteps, Final
      <4>6. ~report'.closed
        BY <2>1, <3>1, <3>5 DEF Shape, Exchanges, Edits, ReceiptSteps, Final
      <4> QED
        BY <2>2, <4>1, <4>2, <4>3, <4>4, <4>5, <4>6
           DEF Shape, Early, Exchanges, Edits, ReceiptSteps, Final
    <3> QED
      BY <3>4, <3>5
  <2> QED
    BY <1>3, <2>3, <2>4 DEF Accept
<1>4. CASE Reject \/ LateEffect
  <2>1. at \in Exchanges /\ report' \in Effects(at)
    BY <1>4 DEF Reject, LateEffect, Waiting, Progress
  <2>2. UNCHANGED <<at, request, attached>>
    BY <1>4 DEF Reject, LateEffect, client
  <2> QED
    BY <2>1, <2>2, ShapeUnderEffect
<1>5. CASE GiveUp \/ Abandon
  BY <1>5 DEF GiveUp, Abandon, Shape, Wanted
<1>6. CASE UNCHANGED vars
  BY <1>6 DEF vars, Shape, Wanted
<1> QED
  BY <1>1, <1>2, <1>3, <1>4, <1>5, <1>6 DEF Next, Stop

IInv == TypeOK /\ Progress /\ Shape

THEOREM Invariance == Spec => []IInv
<1>1. Init => IInv
  <2>1. Init => Shape
    BY DEF Init, Shape, NoReport, Early, Final
  <2> QED
    BY <2>1, InitialProgress DEF IInv
<1>2. IInv /\ [Next]_vars => IInv'
  BY TypeInvariance, ShapeInvariance DEF IInv
<1> QED
  BY <1>1, <1>2, PTL DEF Spec

(* No report is submitted without its receipts and its approvers.          *)
THEOREM SubmissionsAreComplete == Spec => []NoIncompleteSubmission
<1>1. IInv => NoIncompleteSubmission
  <2> SUFFICES ASSUME IInv, report.status = "Submitted"
               PROVE  /\ report.receipts = request.receipts
                      /\ report.header = request.approvers
    BY DEF NoIncompleteSubmission
  <2>1. at \in {"submit", "done"} /\ report \in Report
    BY DEF IInv, Shape, TypeOK
  <2>2. report.receipts = attached /\ attached = request.receipts
    BY <2>1 DEF IInv, Shape, Progress, Final
  <2>3. request.approvers \in BOOLEAN /\ report.header \in BOOLEAN
    BY <2>1, RequestTypes DEF IInv, Report
  <2>4. report.header <=> request.approvers
    BY <2>1 DEF IInv, Shape, Early
  <2> QED
    BY <2>2, <2>3, <2>4
<1> QED
  BY <1>1, Invariance, PTL

-----------------------------------------------------------------------------
(* The verdict and the remote effect follow the abstract RemoteMutation.   *)

LEMMA EffectBars ==
  ASSUME report' # NoReport
  PROVE  effectBar' \in {"partial", "complete"}
BY DEF effectBar

LEMMA VerdictBars ==
  ASSUME TypeOK, TypeOK'
  PROVE  /\ verdict = "pending" => verdictBar = "pending"
         /\ verdict = "uncertain" => verdictBar = "uncertain"
         /\ verdict' = "pending" => verdictBar' = "pending"
         /\ verdict' = "nil" => verdictBar' = "success"
         /\ verdict' = "uncertain" => verdictBar' = "uncertain"
         /\ verdict' \in {"expired", "other"} => verdictBar' = "failure"
BY DEF TypeOK, Verdicts, verdictBar

\* Nothing undoes an effect.
LEMMA NeverUndone ==
  ASSUME IInv, at \in Exchanges, report' \in Effects(at)
  PROVE  report' = report \/ report' # NoReport
<1>1. CASE at \in {"open", "create"}
  BY <1>1, EffectFrame DEF IInv, Shape, Early, NoReport
<1>2. CASE at \notin {"open", "create"}
  <2>1. report'.status \in {report.status, "Submitted"}
    BY <1>2, EffectFrame DEF IInv
  <2>2. report.status \in {"Draft", "Submitted"}
    BY <1>2 DEF IInv, Shape, Early, Exchanges, Edits, ReceiptSteps, Final
  <2> QED
    BY <2>1, <2>2 DEF NoReport
<1> QED
  BY <1>1, <1>2

LEMMA PromiseStep ==
  ASSUME IInv, IInv', [Next]_vars
  PROVE  [Promise!Change \/ Promise!End]_(Promise!vars)
<1> USE DEF Promise!vars
<1>1. ASSUME NEW r \in Requests, Start(r)
      PROVE  Promise!End \/ UNCHANGED <<effectBar, verdictBar>>
  <2>1. /\ at = "idle" /\ verdict = "pending" /\ report' = report
        /\ verdict' \in {"pending", "other"}
        /\ verdict' # verdict => UNCHANGED <<request, at>>
    BY <1>1 DEF Start, Pending, ErrorClass
  <2>2. report = NoReport
    BY <2>1 DEF IInv, Shape
  <2>3. effectBar = "none" /\ effectBar' = "none"
    BY <2>1, <2>2 DEF effectBar
  <2> QED
    BY <2>1, <2>3, VerdictBars DEF IInv, Promise!End, verdictBar
<1>2. CASE Post
  BY <1>2 DEF Post, effectBar, verdictBar, Wanted
<1>3. CASE Accept
  <2>1. /\ at \in Exchanges /\ verdict = "pending" /\ report' \in Effects(at)
        /\ verdict' = IF at' = "done" THEN "nil" ELSE "pending"
    BY <1>3 DEF Accept, Waiting, Pending, IInv, Progress
  <2>2. CASE at' = "done"
    <3>1. report' = Wanted'
      BY <2>2 DEF IInv, Shape
    <3>2. Wanted' # NoReport
      BY DEF Wanted, NoReport
    <3>3. effectBar' = "complete"
      BY <3>1, <3>2 DEF effectBar
    <3> QED
      BY <2>1, <2>2, <3>3, VerdictBars DEF IInv, Promise!End
  <2>3. CASE at' # "done"
    <3>1. verdictBar = "pending" /\ verdictBar' = "pending"
      BY <2>1, <2>3, VerdictBars DEF IInv
    <3>2. CASE report' = report
      <4>1. request' = request
        BY <1>3 DEF Accept
      <4> QED
        BY <3>1, <3>2, <4>1 DEF effectBar, Wanted
    <3>3. CASE report' # NoReport
      BY <3>1, <3>3, EffectBars DEF Promise!Change, Promise!Effects
    <3> QED
      BY <2>1, <3>2, <3>3, NeverUndone
  <2> QED
    BY <2>2, <2>3
<1>4. CASE Reject \/ GiveUp \/ Abandon
  <2>1. /\ at \in Exchanges /\ verdict = "pending" /\ UNCHANGED <<request, at>>
        /\ report' = report \/ report' \in Effects(at)
        /\ verdict' \in {"expired", "other", "uncertain"}
        /\ verdict' # "uncertain" => at \in {"idle", "open"}
    BY <1>4 DEF Reject, GiveUp, Abandon, Waiting, Pending, ErrorClass, IInv, Progress
  <2>2. effectBar' \in Promise!Effects
    BY DEF effectBar, Promise!Effects
  <2>3. CASE verdict' = "uncertain"
    BY <2>1, <2>2, <2>3, VerdictBars DEF IInv, Promise!End
  <2>4. CASE verdict' # "uncertain"
    <3>1. report = NoReport /\ report' = NoReport
      BY <2>1, <2>4 DEF IInv, Shape
    <3>2. effectBar = "none" /\ effectBar' = "none"
      BY <3>1 DEF effectBar
    <3> QED
      BY <2>1, <2>4, <3>2, VerdictBars DEF IInv, Promise!End
  <2> QED
    BY <2>3, <2>4
<1>5. CASE LateEffect
  <2>1. /\ at \in Exchanges /\ report' \in Effects(at)
        /\ verdict # "pending" /\ UNCHANGED <<request, at, verdict>>
    BY <1>5 DEF LateEffect, Pending, client, IInv, Progress
  <2>2. verdictBar' = verdictBar
    BY <2>1 DEF verdictBar
  <2>3. CASE report' = report
    BY <2>1, <2>2, <2>3 DEF effectBar, Wanted
  <2>4. CASE report' # report
    <3>1. report' # NoReport /\ effectBar' \in {"partial", "complete"}
      BY <2>1, <2>4, NeverUndone, EffectBars
    <3>2. at \notin {"idle", "open", "done"}
      BY <2>1, <2>4, <3>1 DEF IInv, Shape, NoReport, Exchanges, Edits, ReceiptSteps, Final
    <3>3. verdict = "uncertain"
      BY <2>1, <3>2 DEF IInv, Progress, TypeOK, Verdicts
    <3> QED
      BY <2>2, <3>1, <3>3, VerdictBars DEF IInv, Promise!Change, Promise!Effects
  <2> QED
    BY <2>3, <2>4
<1>6. CASE UNCHANGED vars
  BY <1>6 DEF vars, effectBar, verdictBar, Wanted
<1> QED
  BY <1>1, <1>2, <1>3, <1>4, <1>5, <1>6 DEF Next, Stop

(* What the caller is told is what happened, or will have happened, in     *)
(* Dynamics: report creation implements RemoteMutation.                    *)
THEOREM CreationKeepsItsPromise == Spec => KeepsPromise
<1>1. Init => Promise!Init
  BY DEF Init, Promise!Init, effectBar, verdictBar
<1>2. IInv /\ IInv' /\ [Next]_vars => [Promise!Change \/ Promise!End]_(Promise!vars)
  BY PromiseStep
<1> QED
  BY <1>1, <1>2, Invariance, PTL DEF Spec, KeepsPromise, Promise!Spec

-----------------------------------------------------------------------------
(* A session saved as ready after a creation continues with the number     *)
(* after the last one sent.                                                *)
THEOREM CheckpointsAreCurrent == Spec => []CheckpointIsCurrent
<1>1. Init => CheckpointIsCurrent
  BY DEF Init, CheckpointIsCurrent
<1>2. IInv /\ IInv' /\ CheckpointIsCurrent /\ [Next]_vars => CheckpointIsCurrent'
  <2> SUFFICES ASSUME IInv, IInv', CheckpointIsCurrent, [Next]_vars
               PROVE  CheckpointIsCurrent'
    OBVIOUS
  <2>1. CASE Accept
    <3> SUFFICES ASSUME verdict' = "nil" PROVE next' = top' + 1
      BY DEF CheckpointIsCurrent
    <3>1. at \in Exchanges /\ at' = "done" /\ verdict = "pending"
      BY <2>1 DEF Accept, Waiting, Pending, IInv, Progress
    <3>2. at \in Final
      BY <2>1, <3>1, Successors, RequestTypes
         DEF Accept, IInv, Exchanges, Edits, ReceiptSteps, Final,
             ToHeader, ToLines, ToReceipts, ToNextReceipt
    <3>3. Acknowledge(TRUE)
      BY <2>1, <3>2 DEF Accept
    <3>4. PICK ack \in 0 .. top : Trusted(ack) /\ Advance(ack + 1, TRUE)
      BY <3>2, <3>3 DEF Acknowledge, Final
    <3> QED
      BY <2>1, <3>4 DEF Trusted, Advance, Accept
  <2>2. CASE \E r \in Requests : Start(r)
    BY <2>2 DEF Start, Pending, CheckpointIsCurrent
  <2>3. CASE Post
    BY <2>3 DEF Post, Ready, Pending, CheckpointIsCurrent
  <2>4. CASE Reject \/ GiveUp \/ Abandon
    BY <2>4 DEF Reject, GiveUp, Abandon, ErrorClass, CheckpointIsCurrent
  <2>5. CASE LateEffect \/ UNCHANGED vars
    BY <2>5 DEF LateEffect, client, vars, CheckpointIsCurrent
  <2> QED
    BY <2>1, <2>2, <2>3, <2>4, <2>5 DEF Next, Stop
<1> QED
  BY <1>1, <1>2, Invariance, PTL DEF Spec

-----------------------------------------------------------------------------
(* Request counts.                                                         *)

Rank == [preflight |-> 0, close |-> 1, reopen |-> 2, documents |-> 3,
         check |-> 4, upload |-> 5, complete |-> 6, confirm |-> 7]

\* Requests sent before the exchange step is due, n receipts being attached.
Before(step, n) ==
  IF step \in {"idle", "open"} THEN 0
  ELSE IF step = "create" THEN 1
  ELSE IF step \in Edits \cup {"activate"} THEN 2
  ELSE IF step \in ReceiptSteps THEN 3 + n * 8 + Rank[step]
  ELSE (IF request.receipts = 0 THEN 2 ELSE 3 + n * 8)
       + (IF step = "done" THEN 1 ELSE 0)

Tally ==
  verdict \in {"pending", "nil"} =>
    requests = Before(at, attached)
               + (IF posted = "none" \/ at \in Edits THEN 0 ELSE 1)

(* The plan shows the number of requests a successful creation sends.      *)
THEOREM PlansAreExact == Spec => []PlanIsExact
<1>1. Init => Tally
  BY DEF Init, Tally, Before, Edits
<1>2. IInv /\ IInv' /\ Tally /\ [Next]_vars => Tally'
  <2> SUFFICES ASSUME IInv, IInv', Tally, [Next]_vars
               PROVE  Tally'
    OBVIOUS
  <2>1. ASSUME NEW r \in Requests, Start(r) PROVE Tally'
    <3>1. posted = "none" /\ at = "idle" /\ verdict = "pending"
      BY <2>1 DEF Start, Pending, IInv, Progress, Exchanges, Edits, ReceiptSteps, Final
    <3> QED
      BY <2>1, <3>1 DEF Start, Tally, Before, Edits
  <2>2. CASE Post
    <3>1. at \in Exchanges /\ posted = "none" /\ verdict = "pending" /\ requests \in Nat
      BY <2>2 DEF Post, Ready, Pending, IInv, TypeOK
    <3>2. UNCHANGED <<request, at, attached, verdict>> /\ posted' = at
          /\ requests' = IF at \in Edits THEN requests ELSE requests + 1
      BY <2>2 DEF Post
    <3>3. Before(at, attached)' = Before(at, attached)
      BY <3>2 DEF Before
    <3>4. requests = Before(at, attached) + 0
      BY <3>1 DEF Tally
    <3>5. at # "none"
      BY <3>1 DEF Exchanges, Edits, ReceiptSteps, Final
    <3> DEFINE b == Before(at, attached)
    <3>6. b' = b /\ requests = b + 0
      BY <3>3, <3>4
    <3>7. b \in Nat
      BY <3>1 DEF Before, IInv, TypeOK, Rank, Exchanges, Edits, ReceiptSteps, Final
    <3> HIDE DEF b
    <3>8. requests' = b' + (IF posted' = "none" \/ at' \in Edits THEN 0 ELSE 1)
      BY <3>1, <3>2, <3>5, <3>6, <3>7
    <3> QED
      BY <3>8 DEF Tally, b
  <2>3. CASE Accept
    <3>1. /\ at \in Exchanges /\ posted = at /\ verdict = "pending"
          /\ at # "idle" /\ at # "none"
      BY <2>3 DEF Accept, Waiting, Pending, IInv, Progress, Exchanges, Edits,
                  ReceiptSteps, Final
    <3>2. /\ attached \in Nat /\ request.receipts \in Nat
          /\ request.final \in Final /\ requests \in Nat
          /\ at \in ReceiptSteps => attached < request.receipts
          /\ at \in Early \cup {"header", "lines", "activate"} => attached = 0
          /\ at \in Final => attached = request.receipts
          /\ at = "activate" => request.receipts > 0
      BY <3>1, RequestTypes DEF IInv, TypeOK, Progress
    <3>3. /\ posted' = "none" /\ request' = request /\ requests' = requests
          /\ attached' = IF at = "confirm" THEN attached + 1 ELSE attached
      BY <2>3 DEF Accept
    <3>4. requests = Before(at, attached) + (IF at \in Edits THEN 0 ELSE 1)
      BY <3>1 DEF Tally
    <3>5. CASE at' = at /\ at \in Edits
      BY <3>1, <3>2, <3>3, <3>4, <3>5 DEF Tally, Before, Edits
    <3>6. CASE at' = Successor[at]
      <4>1. CASE at \in {"open", "create"} \cup Edits
        BY <3>1, <3>2, <3>3, <3>4, <3>6, <4>1, Successors
           DEF IInv, Early, Tally, Before, Edits, Final, ReceiptSteps,
               ToHeader, ToLines, ToReceipts
      <4>2. CASE at = "activate"
        BY <3>1, <3>2, <3>3, <3>4, <3>6, <4>2, Successors
           DEF IInv, Early, Tally, Before, Edits, Final, ReceiptSteps, Rank
      <4>3. CASE at \in ReceiptSteps \ {"confirm"}
        BY <3>1, <3>2, <3>3, <3>4, <3>6, <4>3, Successors
           DEF IInv, Tally, Before, Edits, Final, ReceiptSteps, Rank
      <4>4. CASE at = "confirm"
        BY <3>1, <3>2, <3>3, <3>4, <3>6, <4>4, Successors
           DEF IInv, Tally, Before, Edits, Final, ReceiptSteps, Rank, ToNextReceipt
      <4>5. CASE at \in Final
        BY <3>1, <3>2, <3>3, <3>4, <3>6, <4>5, Successors
           DEF IInv, Tally, Before, Edits, Final, ReceiptSteps
      <4> QED
        BY <3>1, <4>1, <4>2, <4>3, <4>4, <4>5 DEF Exchanges
    <3> QED
      BY <2>3, <3>5, <3>6 DEF Accept
  <2>4. CASE Reject \/ GiveUp \/ Abandon
    <3>1. verdict' \in {"expired", "other", "uncertain"}
      BY <2>4 DEF Reject, GiveUp, Abandon, ErrorClass
    <3> QED
      BY <3>1 DEF Tally
  <2>5. CASE LateEffect
    <3>1. verdict # "pending" /\ posted # "none" /\ verdict' = verdict
      BY <2>5 DEF LateEffect, Pending
    <3>2. verdict # "nil"
      BY <3>1 DEF IInv, Progress, Exchanges, Edits, ReceiptSteps, Final
    <3> QED
      BY <3>1, <3>2 DEF Tally
  <2>6. CASE UNCHANGED vars
    BY <2>6 DEF vars, Tally, Before
  <2> QED
    BY <2>1, <2>2, <2>3, <2>4, <2>5, <2>6 DEF Next, Stop
<1>3. IInv /\ Tally => PlanIsExact
  <2> SUFFICES ASSUME IInv, Tally, verdict = "nil"
               PROVE  requests = RequestCount(request)
    BY DEF PlanIsExact
  <2>1. at = "done" /\ posted = "none" /\ attached = request.receipts
    BY DEF IInv, Progress, Shape, Exchanges, Edits, ReceiptSteps, Final
  <2>2. request.receipts \in Nat
    BY <2>1, RequestTypes DEF IInv
  <2> QED
    BY <2>1, <2>2 DEF Tally, Before, Edits, ReceiptSteps, RequestCount, ReceiptRequestCount
<1> QED
  BY <1>1, <1>2, <1>3, Invariance, PTL DEF Spec

-----------------------------------------------------------------------------
(* Sequence headroom.                                                      *)

\* Messages an accepted creation may still send from the exchange step on,
\* that exchange included, when n of its receipts are attached and its
\* current edit may send e more.
ForReceipts(n) == (request.receipts - n) * 8 + 1
ForLines == IF request.lines THEN LinesHeadroom ELSE 0
ForHeader == IF request.approvers THEN HeaderHeadroom ELSE 0
Need(step, n, e) ==
  IF step = "open" THEN 4 + ForHeader + ForLines + ForReceipts(n)
  ELSE IF step = "create" THEN 3 + ForHeader + ForLines + ForReceipts(n)
  ELSE IF step = "header" THEN 1 + e + ForLines + ForReceipts(n)
  ELSE IF step = "lines" THEN 1 + e + ForReceipts(n)
  ELSE IF step = "activate" THEN 1 + ForReceipts(n)
  ELSE IF step = "preflight" THEN ForReceipts(n)
  ELSE IF step = "close" THEN ForReceipts(n) - 1
  ELSE IF step = "reopen" THEN ForReceipts(n) - 2
  ELSE IF step = "documents" THEN ForReceipts(n) - 3
  ELSE IF step = "check" THEN ForReceipts(n) - 5
  ELSE IF step \in {"upload", "complete"} THEN ForReceipts(n) - 6
  ELSE IF step = "confirm" THEN ForReceipts(n) - 7
  ELSE 1

\* Messages of an edit that are yet to be answered or sent.
Unanswered == IF posted \in Edits THEN left + 1 ELSE left

Reserve ==
  /\ top < MaxSeq
  /\ at = "idle" => top = 0
  /\ verdict = "pending" /\ at \in Exchanges =>
       /\ request.receipts > 0
       /\ Number + Need(at, attached, Unanswered) <= MaxSeq
       /\ posted \notin {"none", "upload"} => top = Number + Messages(at) - 1

\* What is still needed is a natural number.
LEMMA NeedTypes ==
  ASSUME NEW step \in Exchanges, NEW n \in Nat, NEW e \in Nat,
         request.receipts \in Nat, n <= request.receipts,
         step \in ReceiptSteps => n < request.receipts
  PROVE  Need(step, n, e) \in Nat
<1> DEFINE k == ForReceipts(n)
<1>1. k \in Nat /\ (step \in ReceiptSteps => k >= 9)
  BY DEF ForReceipts
<1>2. ForHeader \in Nat /\ ForLines \in Nat
  BY ConstantsAssumption DEF ForHeader, ForLines
<1> HIDE DEF k
<1> QED
  BY <1>1, <1>2 DEF Need, k, ReceiptSteps

\* A step needs at least the numbers of its own messages.
LEMMA NeedCovers ==
  ASSUME IInv, at \in Exchanges, request.receipts > 0, NEW e \in Nat
  PROVE  /\ Need(at, attached, e) \in Nat
         /\ Messages(at) \in Nat
         /\ Messages(at) <= Need(at, attached, e)
         /\ at = "preflight" => Need(at, attached, e) >= 9
<1>1. /\ attached \in Nat /\ request.receipts \in Nat
      /\ at \in ReceiptSteps => attached < request.receipts
      /\ attached <= request.receipts /\ at # "idle"
  BY RequestTypes DEF IInv, TypeOK, Progress, Exchanges, Edits, ReceiptSteps, Final
<1>2. ForReceipts(attached) \in Nat /\ ForReceipts(attached) >= 1
      /\ (at \in ReceiptSteps => ForReceipts(attached) >= 9)
  BY <1>1 DEF ForReceipts
<1>3. ForHeader \in Nat /\ ForLines \in Nat
  BY ConstantsAssumption DEF ForHeader, ForLines
<1>4. CASE at \in {"open", "create", "activate"} \cup Edits \cup Final
  <2>1. /\ at = "open" => Need(at, attached, e) =
                            4 + ForHeader + ForLines + ForReceipts(attached)
        /\ at = "create" => Need(at, attached, e) =
                              3 + ForHeader + ForLines + ForReceipts(attached)
        /\ at = "header" => Need(at, attached, e) =
                              1 + e + ForLines + ForReceipts(attached)
        /\ at = "lines" => Need(at, attached, e) = 1 + e + ForReceipts(attached)
        /\ at = "activate" => Need(at, attached, e) = 1 + ForReceipts(attached)
        /\ at \in Final => Need(at, attached, e) = 1
    BY DEF Need, Final
  <2> QED
    BY <1>2, <1>3, <1>4, <2>1 DEF Messages, Edits, Final
<1>5. CASE at \in ReceiptSteps
  <2>1. /\ at = "preflight" => Need(at, attached, e) = ForReceipts(attached)
        /\ at = "close" => Need(at, attached, e) = ForReceipts(attached) - 1
        /\ at = "reopen" => Need(at, attached, e) = ForReceipts(attached) - 2
        /\ at = "documents" => Need(at, attached, e) = ForReceipts(attached) - 3
        /\ at = "check" => Need(at, attached, e) = ForReceipts(attached) - 5
        /\ at \in {"upload", "complete"} =>
             Need(at, attached, e) = ForReceipts(attached) - 6
        /\ at = "confirm" => Need(at, attached, e) = ForReceipts(attached) - 7
    BY DEF Need
  <2> QED
    BY <1>2, <1>5, <2>1 DEF Messages, ReceiptSteps
<1> QED
  BY <1>4, <1>5 DEF Exchanges

LEMMA ReserveSuffices ==
  ASSUME IInv, Reserve
  PROVE  HeadroomSuffices
<1>1. CASE verdict = "pending" /\ at \in Exchanges
  <2>1. Unanswered \in Nat /\ Number \in Nat
    BY <1>1, NumberTypes DEF Unanswered, IInv, TypeOK
  <2>2. /\ request.receipts > 0
        /\ Number + Need(at, attached, Unanswered) <= MaxSeq
    BY <1>1 DEF Reserve
  <2>3. /\ at = "preflight" => Number + 8 <= MaxSeq
        /\ at = "save" => Number + 1 <= MaxSeq
    <3>1. /\ Need(at, attached, Unanswered) \in Nat
          /\ Messages(at) <= Need(at, attached, Unanswered)
          /\ at = "preflight" => Need(at, attached, Unanswered) >= 9
      BY <1>1, <2>1, <2>2, NeedCovers
    <3> DEFINE need == Need(at, attached, Unanswered)
    <3>2. need \in Nat /\ (at = "preflight" => need >= 9) /\ (at = "save" => need >= 1)
      BY <3>1 DEF Messages
    <3>3. Number + need <= MaxSeq
      BY <2>2
    <3> HIDE DEF need
    <3> QED
      BY <2>1, <3>2, <3>3, ConstantsAssumption
  <2> QED
    BY <2>1, <2>3 DEF HeadroomSuffices, Reserve, ReceiptFits, SaveFits, ReceiptHeadroom,
                      Number, ByReceiptClient, ReceiptSteps
<1>2. CASE ~(verdict = "pending" /\ at \in Exchanges)
  BY <1>2 DEF HeadroomSuffices, Reserve, Pending, Exchanges, Edits, ReceiptSteps, Final
<1> QED
  BY <1>1, <1>2

\* What is needed of an exchange and its successor, the number of which
\* follows all messages of the exchange.
LEMMA NeedShrinks ==
  ASSUME IInv, at \in Exchanges, at \notin Final, request.receipts > 0,
         NEW e \in Nat, NEW n \in Nat,
         n = IF at = "confirm" THEN attached + 1 ELSE attached
  PROVE  LET s == Successor[at] IN
         Messages(at) +
           Need(s, n, Allowance(s))
         <= Need(at, attached, IF at \in Edits THEN e + 1 ELSE e)
<1>1. /\ attached \in Nat /\ request.receipts \in Nat
      /\ at \in ReceiptSteps => attached < request.receipts
      /\ attached <= request.receipts
      /\ request.final \in Final
  BY RequestTypes DEF IInv, TypeOK, Progress, Exchanges, Edits, ReceiptSteps, Final
<1>2. HeaderHeadroom \in Nat /\ LinesHeadroom \in Nat
  BY ConstantsAssumption
<1>3. CASE at \in {"open", "create"} \cup Edits \cup {"activate"}
  <2> DEFINE k == ForReceipts(attached)
  <2>1. k \in Nat /\ ForReceipts(n) = k /\ at # "confirm"
    BY <1>1, <1>3 DEF ForReceipts, Edits
  <2> HIDE DEF k
  <2>2. CASE at = "open"
    BY <1>1, <1>2, <2>1, <2>2, Successors
       DEF IInv, Need, Allowance, Messages, ForHeader, ForLines, Edits, k
  <2>3. CASE at = "create"
    BY <1>1, <1>2, <2>1, <2>3, Successors
       DEF IInv, Need, Allowance, Messages, ForHeader, ForLines, Edits, k,
           ToHeader, ToLines, ToReceipts
  <2>4. CASE at = "header"
    BY <1>1, <1>2, <2>1, <2>4, Successors
       DEF IInv, Need, Allowance, Messages, ForHeader, ForLines, Edits, k, ToLines, ToReceipts
  <2>5. CASE at = "lines"
    BY <1>1, <1>2, <2>1, <2>5, Successors
       DEF IInv, Need, Allowance, Messages, Edits, k, ToReceipts
  <2>6. CASE at = "activate"
    BY <1>1, <1>2, <2>1, <2>6, Successors DEF IInv, Need, Allowance, Messages, Edits, k
  <2> QED
    BY <1>3, <2>2, <2>3, <2>4, <2>5, <2>6 DEF Edits
<1>4. CASE at \in ReceiptSteps
  <2>1. CASE at = "confirm"
    <3>1. Need(at, attached, IF at \in Edits THEN e + 1 ELSE e)
            = ForReceipts(attached) - 7
      BY <2>1 DEF Need
    <3>2. CASE attached + 1 < request.receipts
      <4>1. Successor[at] = "preflight"
        BY <2>1, <3>2, Successors DEF IInv, ToNextReceipt
      <4> QED
        BY <1>1, <2>1, <3>1, <4>1 DEF Need, Allowance, Messages, ForReceipts
    <3>3. CASE ~(attached + 1 < request.receipts)
      <4>1. Successor[at] \in Final
        BY <1>1, <2>1, <3>3, Successors DEF IInv, ToNextReceipt
      <4>2. Need(Successor[at], n, Allowance(Successor[at])) = 1
        BY <4>1 DEF Need, Final
      <4> QED
        BY <1>1, <1>4, <2>1, <3>1, <4>2 DEF Messages, ForReceipts
    <3> QED
      BY <3>2, <3>3
  <2>2. CASE at # "confirm"
    <3> DEFINE k == ForReceipts(attached)
    <3>1. k \in Nat /\ k >= 9 /\ ForReceipts(n) = k
      BY <1>1, <1>4, <2>2 DEF ForReceipts
    <3> HIDE DEF k
    <3> QED
      BY <1>4, <2>2, <3>1, Successors
         DEF IInv, Need, Allowance, Messages, Edits, ReceiptSteps, k
  <2> QED
    BY <2>1, <2>2
<1> QED
  BY <1>3, <1>4 DEF Exchanges

\* Whoever sends the next request continues after the last message.
LEMMA NumberContinues ==
  ASSUME IInv, IInv', Reserve, Accept, request.receipts > 0, at' \in Exchanges
  PROVE  at \notin Final /\ Number' = Number + Messages(at)
<1>1. /\ at \in Exchanges /\ posted = at /\ verdict = "pending"
      /\ request' = request
  BY DEF Accept, Waiting, Pending, IInv, Progress
<1>2. at \notin Final
  BY <1>1, Successors
     DEF Accept, IInv, Exchanges, Edits, ReceiptSteps, Final
<1>3. at # "upload" => top = Number + Messages(at) - 1
  BY <1>1 DEF Reserve, Exchanges, Edits, ReceiptSteps, Final
<1>4. Number \in Nat /\ Messages(at) \in Nat
  BY <1>1, NumberTypes DEF IInv, Messages
<1>5. PICK n \in Nat :
        /\ n = Number + Messages(at)
        /\ receiptNext' = IF ByReceiptClient \/ at = "activate"
                          THEN n ELSE receiptNext
        /\ next' = IF ByReceiptClient /\ at # "confirm" THEN next ELSE n
  <2> DEFINE ends == at \in {"confirm"} \cup Final
  <2>1. Acknowledge(ends)
    BY DEF Accept
  <2>2. ends <=> at = "confirm"
    BY <1>2
  <2>3. PICK n \in Nat : n = Number + Messages(at) /\ Advance(n, ends)
    <3>1. CASE at = "upload"
      <4>1. Messages(at) = 0
        BY <3>1 DEF Messages
      <4> HIDE DEF ends
      <4> QED
        BY <1>4, <2>1, <3>1, <4>1 DEF Acknowledge
    <3>2. CASE at # "upload"
      <4> HIDE DEF ends
      <4>1. PICK ack \in 0 .. top : Trusted(ack) /\ Advance(ack + 1, ends)
        BY <2>1, <3>2 DEF Acknowledge
      <4>2. ack + 1 = Number + Messages(at)
        BY <1>3, <1>4, <3>2, <4>1 DEF Trusted
      <4> QED
        BY <1>4, <4>1, <4>2
    <3> QED
      BY <3>1, <3>2
  <2> HIDE DEF ends
  <2> QED
    BY <2>2, <2>3 DEF Advance
<1>6. CASE at' = at /\ at \in Edits
  <2>1. ~ByReceiptClient /\ ~ByReceiptClient' /\ at # "confirm"
    BY <1>6 DEF ByReceiptClient, Edits, ReceiptSteps
  <2> QED
    BY <1>2, <1>5, <2>1 DEF Number
<1>7. CASE at' = Successor[at]
  <2>1. request.final \in Final
    BY <1>1, RequestTypes DEF IInv, Exchanges, Edits, ReceiptSteps, Final
  <2>2. CASE at \in {"open", "create"} \cup Edits
    BY <1>1, <1>5, <1>7, <2>1, <2>2, Successors
       DEF IInv, Number, ByReceiptClient, Edits, ReceiptSteps,
           ToHeader, ToLines, ToReceipts
  <2>3. CASE at = "activate"
    BY <1>1, <1>5, <1>7, <2>3, Successors
       DEF IInv, Number, ByReceiptClient, ReceiptSteps
  <2>4. CASE at \in ReceiptSteps
    BY <1>1, <1>5, <1>7, <2>1, <2>4, Successors
       DEF IInv, Number, ByReceiptClient, ReceiptSteps, Final, ToNextReceipt
  <2> QED
    BY <1>1, <1>2, <2>2, <2>3, <2>4 DEF Exchanges
<1> QED
  BY <1>2, <1>5, <1>6, <1>7 DEF Accept

LEMMA ReserveInvariance ==
  ASSUME IInv, IInv', Reserve, [Next]_vars,
         at = "idle" /\ at' # "idle" => request'.receipts > 0
  PROVE  Reserve'
<1>1. ASSUME NEW r \in Requests, Start(r) PROVE Reserve'
  <2>1. /\ at = "idle" /\ posted = "none" /\ attached = 0
        /\ UNCHANGED <<posted, left, attached, next, receiptNext, top>>
    BY <1>1 DEF Start, IInv, Progress, Early, Exchanges, Edits, ReceiptSteps, Final
  <2>2. r.receipts \in Nat /\ (at' = "open" => r.receipts > 0)
    BY <1>1, <2>1, ConstantsAssumption DEF Start, Request
  <2>3. CASE at' = "open"
    <3>1. request' = r /\ next + Headroom(r) <= MaxSeq
      BY <1>1, <2>1, <2>3 DEF Start
    <3>2. Number' = next
      BY <2>1, <2>3 DEF Number, ByReceiptClient, ReceiptSteps
    <3>3. Need(at, attached, Unanswered)' = 4 + ForHeader' + ForLines' + ForReceipts(0)'
      BY <2>1, <2>3 DEF Need, ForReceipts, ForHeader, ForLines
    <3>4. /\ ForHeader' + ForLines' = EditHeadroom(r)
          /\ ForReceipts(0)' = r.receipts * 8 + 1
      BY <2>2, <2>3, <3>1 DEF ForHeader, ForLines, ForReceipts, EditHeadroom
    <3>5. ForHeader' \in Nat /\ ForLines' \in Nat
      BY ConstantsAssumption DEF ForHeader, ForLines
    <3>6. Number' + Need(at, attached, Unanswered)' <= MaxSeq
      BY <2>2, <2>3, <3>1, <3>2, <3>3, <3>4, <3>5, ConstantsAssumption
         DEF Headroom, ReceiptsHeadroom, ReceiptHeadroom, IInv, TypeOK
    <3> QED
      BY <2>1, <2>2, <2>3, <3>1, <3>6 DEF Reserve
  <2>4. CASE at' # "open"
    BY <1>1, <2>1, <2>4 DEF Start, Reserve
  <2> QED
    BY <2>3, <2>4
<1>2. CASE Post
  <2>1. /\ at \in Exchanges /\ posted = "none" /\ verdict = "pending"
        /\ at # "idle" /\ at # "none"
        /\ UNCHANGED <<request, at, attached, next, receiptNext, verdict>>
        /\ posted' = at
        /\ left' = IF at \in Edits THEN left - 1 ELSE left
        /\ top' = IF at = "upload" THEN top ELSE Number + Messages(at) - 1
        /\ at \in Edits => left > 0
    BY <1>2 DEF Post, Ready, Pending, Exchanges, Edits, ReceiptSteps, Final
  <2>2. left \in Nat /\ left' \in Nat /\ Number \in Nat
    BY <2>1, NumberTypes DEF IInv, TypeOK
  <2>3. Unanswered = left /\ Unanswered' = left
    BY <2>1, <2>2 DEF Unanswered, Edits
  <2>4. /\ request.receipts > 0
        /\ Number + Need(at, attached, left) <= MaxSeq
    BY <2>1, <2>3 DEF Reserve
  <2>5. Number' = Number /\ Need(at, attached, Unanswered)' = Need(at, attached, left)
    <3>1. Number' = Number
      BY <2>1 DEF Number, ByReceiptClient
    <3>2. /\ ForReceipts(attached)' = ForReceipts(attached)
          /\ ForLines' = ForLines /\ ForHeader' = ForHeader
      BY <2>1 DEF ForReceipts, ForLines, ForHeader
    <3> QED
      BY <2>1, <2>3, <3>1, <3>2 DEF Need
  <2>6. top' < MaxSeq
    <3> DEFINE need == Need(at, attached, left)
    <3>1. need \in Nat /\ Messages(at) \in Nat /\ Messages(at) <= need
      BY <2>1, <2>2, <2>4, NeedCovers
    <3>2. Number + need <= MaxSeq
      BY <2>4
    <3> HIDE DEF need
    <3> QED
      BY <2>1, <2>2, <3>1, <3>2, ConstantsAssumption DEF Reserve
  <2> QED
    BY <2>1, <2>4, <2>5, <2>6 DEF Reserve, Messages
<1>3. CASE Accept
  <2>1. /\ at \in Exchanges /\ posted = at /\ verdict = "pending"
        /\ at # "idle" /\ posted' = "none"
        /\ UNCHANGED <<request, top>>
        /\ attached' = IF at = "confirm" THEN attached + 1 ELSE attached
        /\ \/ at' = Successor[at]
           \/ at \in Edits /\ at' = at
        /\ left' = IF at' = at THEN left ELSE Allowance(at')
    BY <1>3 DEF Accept, Waiting, Pending, IInv, Progress,
                Exchanges, Edits, ReceiptSteps, Final
  <2>2. /\ request.receipts > 0
        /\ Number + Need(at, attached, Unanswered) <= MaxSeq
    BY <2>1 DEF Reserve
  <2>3. left \in Nat /\ left' \in Nat /\ Number \in Nat /\ attached' \in Nat
    BY <2>1, NumberTypes DEF IInv, TypeOK
  <2>4. at' # "idle"
    BY <2>1, Successors DEF IInv, Exchanges, Edits, ReceiptSteps, Final
  <2>5. ASSUME at' \in Exchanges
        PROVE  Number' + Need(at, attached, Unanswered)' <= MaxSeq
    <3>1. at \notin Final /\ Number' = Number + Messages(at)
      BY <1>3, <2>2, <2>5, NumberContinues
    <3>2. Need(at, attached, Unanswered)' = Need(at', attached', left')
      BY <2>1 DEF Unanswered, Edits, Need, ForReceipts, ForHeader, ForLines
    <3> DEFINE need == Need(at, attached, Unanswered)
               rest == Need(at', attached', left')
    <3>3. need \in Nat /\ Messages(at) \in Nat
      BY <2>1, <2>2, <2>3, NeedCovers DEF Unanswered
    <3>4. Messages(at) + rest <= need /\ rest \in Nat
      <4>1. CASE at' = at /\ at \in Edits
        <5>1. Unanswered = left + 1 /\ left' = left /\ attached' = attached
          BY <2>1, <4>1 DEF Unanswered, Edits
        <5>2. rest \in Nat
          BY <2>1, <2>2, <2>3, <4>1, <5>1, NeedCovers
        <5>3. rest = Need(at, attached, left) /\ need = Need(at, attached, left + 1)
          BY <4>1, <5>1
        <5>4. need = rest + 1
          <6>1. /\ ForReceipts(attached) \in Nat /\ ForLines \in Nat
            BY <2>1, <2>2, RequestTypes, ConstantsAssumption
               DEF IInv, TypeOK, ForReceipts, ForLines
          <6> HIDE DEF need, rest
          <6> QED
            BY <2>3, <4>1, <5>3, <6>1 DEF Need, Edits
        <5> HIDE DEF need, rest
        <5> QED
          BY <2>1, <4>1, <5>2, <5>4 DEF Messages, Edits
      <4>2. CASE at' = Successor[at] /\ at' # at
        <5>1. Unanswered = IF at \in Edits THEN left + 1 ELSE left
          BY <2>1 DEF Unanswered
        <5>2. left' = Allowance(at')
          BY <2>1, <4>2
        <5>3. Messages(at) + rest <= need
          BY <2>1, <2>2, <2>3, <3>1, <4>2, <5>1, <5>2, NeedShrinks
        <5>4. rest \in Nat
          <6>1. /\ request.receipts \in Nat /\ attached' <= request.receipts
                /\ at' \in ReceiptSteps => attached' < request.receipts
            BY <2>1, <2>4, RequestTypes DEF IInv, TypeOK, Progress
          <6> QED
            BY <2>3, <2>5, <6>1, NeedTypes
        <5> QED
          BY <5>3, <5>4
      <4>3. CASE at' = at /\ at \notin Edits
        <5>1. request.final \in Final
          BY <2>1, RequestTypes DEF IInv
        <5> QED
          BY <2>1, <4>3, <5>1, Successors
             DEF IInv, Exchanges, Edits, ReceiptSteps, Final,
                 ToHeader, ToLines, ToReceipts, ToNextReceipt
      <4>4. CASE at' = Successor[at] /\ at' = at
        BY <2>1, <4>1, <4>3, <4>4
      <4> QED
        BY <2>1, <4>1, <4>2, <4>4
    <3>5. Number + need <= MaxSeq
      BY <2>2
    <3> HIDE DEF need, rest
    <3>6. Number' + rest <= MaxSeq
      BY <2>3, <3>1, <3>3, <3>4, <3>5, ConstantsAssumption
    <3> QED
      BY <3>2, <3>6 DEF rest
  <2> QED
    BY <2>1, <2>2, <2>4, <2>5 DEF Reserve
<1>4. CASE Reject \/ GiveUp \/ Abandon
  BY <1>4 DEF Reject, GiveUp, Abandon, ErrorClass, Reserve
<1>5. CASE LateEffect \/ UNCHANGED vars
  <2>1. UNCHANGED <<client, verdict, top>> /\ (verdict = "pending" => posted' = posted)
    BY <1>5 DEF LateEffect, Pending, client, vars
  <2>2. UNCHANGED <<request, at, left, attached, next, receiptNext>>
    BY <2>1 DEF client
  <2>3. Number' = Number
    BY <2>2 DEF Number, ByReceiptClient
  <2>4. verdict = "pending" =>
          Need(at, attached, Unanswered)' = Need(at, attached, Unanswered)
    BY <2>1, <2>2 DEF Need, Unanswered, ForReceipts, ForHeader, ForLines
  <2> QED
    BY <2>1, <2>2, <2>3, <2>4 DEF Reserve, Messages
<1> QED
  BY <1>1, <1>2, <1>3, <1>4, <1>5 DEF Next, Stop

\* The reserve is there from the start of an operation with receipts.
Reserved == at = "idle" \/ request.receipts > 0 => Reserve

(* For a report with receipts the reserved numbers are enough: admitted    *)
(* operations neither exhaust the sequence space nor stop at a headroom    *)
(* check on the way.  (Without receipts they are not: see the README's     *)
(* finding 3.)                                                             *)
THEOREM ReservedNumbersSuffice == Spec => []ReceiptHeadroomSuffices
<1>1. Init => Reserved
  BY ConstantsAssumption
     DEF Init, Reserved, Reserve, Exchanges, Edits, ReceiptSteps, Final
<1>2. IInv /\ IInv' /\ Reserved /\ [Next]_vars => Reserved'
  <2> SUFFICES ASSUME IInv, IInv', Reserved, [Next]_vars,
                      at' = "idle" \/ request'.receipts > 0
               PROVE  Reserve'
    BY DEF Reserved
  <2>1. at # "idle" => at' # "idle" /\ request' = request
    <3>1. CASE Accept
      BY <3>1, Successors
         DEF Accept, Waiting, Pending, IInv, Progress, Exchanges, Edits, ReceiptSteps, Final
    <3>2. CASE ~Accept
      BY <3>2 DEF Next, Start, Post, Ready, Reject, GiveUp, Abandon, LateEffect, Stop, vars, client
    <3> QED
      BY <3>1, <3>2
  <2>2. Reserve
    BY <2>1 DEF Reserved
  <2> QED
    BY <2>2, ReserveInvariance
<1>3. IInv /\ Reserved => ReceiptHeadroomSuffices
  BY ReserveSuffices DEF Reserved, ReceiptHeadroomSuffices
<1> QED
  BY <1>1, <1>2, <1>3, Invariance, PTL DEF Spec
=============================================================================
