---------------------------- MODULE CreateReport ----------------------------
(***************************************************************************)
(* Creating an expense report (internal/expense/client.go and              *)
(* report_receipt.go): the exchanges of Client.CreateReport and            *)
(* Client.CreateReportWithReceipts with Dynamics, the sequence numbers     *)
(* they use, and what the caller is told when one of them goes wrong.      *)
(*                                                                         *)
(* Every request may be lost, be carried out although its answer is lost   *)
(* or unusable, be carried out after the client gave up, or be answered    *)
(* without having been carried out.  The client never repeats a request:   *)
(* it stops at the first answer it does not accept.                        *)
(*                                                                         *)
(* The edits of the header and of the expense lines are phases of this     *)
(* module: some exchanges, within the headroom reserved for them, the last *)
(* of which shows the edit done.                                           *)
(***************************************************************************)
EXTENDS Naturals

CONSTANTS
  MaxSeq,          \* math.MaxInt64
  MaxReceipts,     \* bound on receipts in a request
  HeaderHeadroom,  \* reportHeaderHeadroom: messages of a header edit
  LinesHeadroom,   \* expenseLinesSequenceHeadroom of the requested lines
  Requests,        \* the requests considered
  NoRequest

Final == {"save", "submit"}
\* validateExpenseLines: lines are only accepted for a Draft that is saved.
Request ==
  {r \in [receipts: 0 .. MaxReceipts, final: Final,
          approvers: BOOLEAN, lines: BOOLEAN] : r.lines => r.final = "save"}

ASSUME ConstantsAssumption ==
  /\ MaxSeq \in Nat /\ MaxReceipts \in Nat
  /\ HeaderHeadroom \in Nat \ {0} /\ LinesHeadroom \in Nat \ {0}
  /\ Requests \subseteq Request /\ NoRequest \notin Request

VARIABLES
  request,      \* the request being executed
  at,           \* its next exchange, "idle" before and "done" after all
  posted,       \* the exchange whose request Dynamics may yet carry out
  left,         \* messages an edit may still send
  attached,     \* receipts confirmed so far
  next,         \* Client.nextClientSequence
  receiptNext,  \* ReceiptClient.nextClientSequence, a copy while it lives
  verdict,      \* the error class returned: see SessionExecution!Outcomes
  report,       \* the report in Dynamics
  top,          \* the highest sequence number sent
  requests      \* requests sent, those of the edits apart

client == <<request, at, left, attached, next, receiptNext>>
vars == <<request, at, posted, left, attached, next, receiptNext, verdict,
          report, top, requests>>

Edits == {"header", "lines"}
\* attachReceiptLocked, per receipt.
ReceiptSteps == {"preflight", "close", "reopen", "documents", "check",
                 "upload", "complete", "confirm"}
Exchanges == {"open", "create", "activate"} \cup Edits \cup ReceiptSteps \cup Final
Verdicts == {"pending", "nil", "uncertain", "expired", "other"}

NoReport == [status |-> "none", header |-> FALSE, lines |-> FALSE,
             receipts |-> 0, closed |-> FALSE]
Report == [status: {"none", "Draft", "Submitted"}, header: BOOLEAN,
           lines: BOOLEAN, receipts: Nat, closed: BOOLEAN]

TypeOK ==
  /\ request \in Requests \cup {NoRequest}
  /\ at \in Exchanges \cup {"idle", "done"}
  /\ request = NoRequest <=> at = "idle"
  /\ posted \in Exchanges \cup {"none"}
  /\ left \in Nat
  /\ attached \in Nat /\ (at # "idle" => attached <= request.receipts)
  /\ next \in Nat /\ receiptNext \in Nat
  /\ verdict \in Verdicts
  /\ report \in Report
  /\ top \in Nat /\ requests \in Nat

(* The imported session was validated: profile.Validate bounds its number. *)
Init ==
  /\ request = NoRequest /\ at = "idle" /\ posted = "none"
  /\ left = 0 /\ attached = 0
  /\ next \in {n \in 1 .. MaxSeq : n + 3 <= MaxSeq} /\ receiptNext = 0
  /\ verdict = "pending"
  /\ report = NoReport
  /\ top = 0 /\ requests = 0

-----------------------------------------------------------------------------
(* Plans and headroom.                                                     *)

EditHeadroom(r) == (IF r.approvers THEN HeaderHeadroom ELSE 0)
                   + (IF r.lines THEN LinesHeadroom ELSE 0)
ReceiptHeadroom == 8
MutReceiptsHeadroom(n) == 4 + n * ReceiptHeadroom
ReceiptsHeadroom(n) == 5 + n * ReceiptHeadroom
Headroom(r) ==
  (IF r.receipts = 0 THEN 3 ELSE ReceiptsHeadroom(r.receipts))
  + EditHeadroom(r)

\* receiptRequestCount counts the SaveAndClose of a single receipt too.
ReceiptRequestCount == 9
MutRequestCount(r) ==
  IF r.receipts = 0 THEN 3 ELSE 4 + r.receipts * ReceiptRequestCount
RequestCount(r) ==
  IF r.receipts = 0 THEN 3 ELSE 4 + r.receipts * (ReceiptRequestCount - 1)

-----------------------------------------------------------------------------
(* The order of the exchanges.                                             *)

ToReceipts == IF request.receipts > 0 THEN "activate" ELSE request.final
ToLines == IF request.lines THEN "lines" ELSE ToReceipts
ToHeader == IF request.approvers THEN "header" ELSE ToLines
MutToNextReceipt ==
  IF attached + 1 <= request.receipts THEN "preflight" ELSE request.final
ToNextReceipt ==
  IF attached + 1 < request.receipts THEN "preflight" ELSE request.final

Successor ==
  [open |-> "create", create |-> ToHeader, header |-> ToLines,
   lines |-> ToReceipts, activate |-> "preflight",
   preflight |-> "close", close |-> "reopen", reopen |-> "documents",
   documents |-> "check", check |-> "upload", upload |-> "complete",
   complete |-> "confirm", confirm |-> ToNextReceipt,
   save |-> "done", submit |-> "done"]

\* Messages in the request of a step; the upload is not a Dynamics message.
Messages(step) == IF step \in {"create", "documents"} THEN 2
                  ELSE IF step = "upload" THEN 0 ELSE 1

\* The receipt client sends the requests about receipts, and the final save.
ByReceiptClient ==
  at \in ReceiptSteps \/ (at = "save" /\ request.receipts > 0)
Number == IF ByReceiptClient THEN receiptNext ELSE next

-----------------------------------------------------------------------------
(* Dynamics.                                                               *)

\* What carrying out a request of a step may make of the report.  Which of
\* the last three requests for a receipt attaches it is not documented.
Effects(step) ==
  {report} \cup
  CASE step = "create" -> {[report EXCEPT !.status = "Draft"]}
    [] step = "header" -> {[report EXCEPT !.header = TRUE]}
    [] step = "lines"  -> {[report EXCEPT !.lines = TRUE]}
    [] step \in {"upload", "complete", "confirm"} ->
         {[report EXCEPT !.receipts = @ + 1]}
    [] step = "save"   -> {[report EXCEPT !.closed = TRUE]}
    [] step = "submit" -> {[report EXCEPT !.status = "Submitted",
                                          !.closed = c] : c \in BOOLEAN}
    [] OTHER -> {}

\* The receipt count of the confirmation must be there and be exactly right;
\* elsewhere it may be missing.
MutCounted(r) == r.receipts > 0
Counted(r) == r.receipts = attached + 1

\* What an answer that shows r must show for the client to go on.
Confirms(step, r) ==
  CASE step = "create"  -> r.status = "Draft"
    [] step = "header"  -> r.header
    [] step = "lines"   -> r.lines
    [] step = "confirm" -> Counted(r)
    [] step = "save"    -> r.closed
    [] step = "submit"  -> r.status = "Submitted" /\ r.closed
    [] OTHER -> TRUE

-----------------------------------------------------------------------------
(* The client.                                                             *)

Pending == verdict = "pending"
Waiting == Pending /\ posted # "none"

\* CreateReport and createDraftDetails: the request that creates the report
\* is the first after which an error is marked uncertain.
MutErrorClass(step, cause) ==
  IF step \in {"idle", "open", "create"} THEN cause ELSE "uncertain"
ErrorClass(step, cause) ==
  IF step \in {"idle", "open"} THEN cause ELSE "uncertain"

(* Validation of the request succeeds; the sequence headroom is reserved.  *)
Start(r) ==
  /\ at = "idle" /\ Pending
  /\ IF next + Headroom(r) <= MaxSeq
     THEN request' = r /\ at' = "open" /\ UNCHANGED verdict
     ELSE verdict' = "other" /\ UNCHANGED <<request, at>>
  /\ UNCHANGED <<posted, left, attached, next, receiptNext, report, top, requests>>

\* The receipt client's own headroom checks.
ReceiptFits == receiptNext + ReceiptHeadroom <= MaxSeq
SaveFits == receiptNext + 1 <= MaxSeq
Ready ==
  /\ Pending /\ posted = "none" /\ at \in Exchanges
  /\ at = "preflight" => ReceiptFits
  /\ at = "save" /\ ByReceiptClient => SaveFits

Post ==
  /\ Ready
  /\ at \in Edits => left > 0
  /\ posted' = at
  /\ left' = IF at \in Edits THEN left - 1 ELSE left
  /\ top' = IF at = "upload" THEN top ELSE Number + Messages(at) - 1
  /\ requests' = IF at \in Edits THEN requests ELSE requests + 1
  /\ UNCHANGED <<request, at, attached, next, receiptNext, verdict, report>>

\* sendValidated, sendReceipt: the acknowledgement must be of the last
\* message sent, and must leave a number to go on with.
Trusted(ack) == ack = top /\ ack < MaxSeq

\* The sender's next number becomes n; the receipt client copies the
\* client's when it is made, the client the receipt client's back when it
\* ends or fails (syncReceiptSession).
MutAdvance(n, ends) ==
  /\ receiptNext' = IF ByReceiptClient \/ at = "activate" THEN n ELSE receiptNext
  /\ next' = IF ByReceiptClient /\ ~(ends /\ at # "save") THEN next ELSE n
Advance(n, ends) ==
  /\ receiptNext' = IF ByReceiptClient \/ at = "activate" THEN n ELSE receiptNext
  /\ next' = IF ByReceiptClient /\ ~ends THEN next ELSE n

\* After the answer of the exchange at.
Acknowledge(ends) ==
  IF at = "upload" THEN Advance(Number, ends)
  ELSE \E ack \in 0 .. top : Trusted(ack) /\ Advance(ack + 1, ends)

\* The messages reserved for an edit.
Allowance(step) == IF step = "header" THEN HeaderHeadroom
                   ELSE IF step = "lines" THEN LinesHeadroom ELSE 0

(* The answer is accepted: on to the next exchange.  An edit may need more *)
(* exchanges while it has messages left.                                   *)
Accept ==
  /\ Waiting
  /\ posted' = "none"
  /\ report' \in Effects(at)
  /\ Acknowledge(at \in {"confirm"} \cup Final)
  /\ \/ Confirms(at, report') /\ at' = Successor[at]
     \/ at \in Edits /\ left > 0 /\ UNCHANGED at
  /\ left' = IF at' = at THEN left ELSE Allowance(at')
  /\ attached' = IF at = "confirm" THEN attached + 1 ELSE attached
  /\ verdict' = IF at' = "done" THEN "nil" ELSE verdict
  /\ UNCHANGED <<request, top, requests>>

(* Or it is not: sign-in page, HTTP error, other channel, acknowledgement  *)
(* or server sequence (nothing advances); a message from Dynamics, a form, *)
(* control, count or status that is not as it must be (after advancing).   *)
Reject ==
  /\ Waiting
  /\ posted' = "none"
  /\ report' \in Effects(at)
  /\ Acknowledge(TRUE) \/ Advance(Number, TRUE)
  /\ \E cause \in {"expired", "other"} : verdict' = ErrorClass(at, cause)
  /\ UNCHANGED <<request, at, left, attached, top, requests>>

(* No answer: connection lost, deadline passed, or cancelled.  Dynamics    *)
(* may have carried the request out, or will, or never does.               *)
GiveUp ==
  /\ Waiting
  /\ verdict' = ErrorClass(at, "other")
  /\ Advance(Number, TRUE)
  /\ UNCHANGED <<request, at, posted, left, attached, report, top, requests>>
LateEffect ==
  /\ ~Pending /\ posted # "none"
  /\ posted' = "none"
  /\ report' \in Effects(posted)
  /\ UNCHANGED <<client, verdict, top, requests>>

(* A receipt file cannot be read, the submit button is unsupported, the    *)
(* headroom is used up: the operation ends between exchanges.              *)
Abandon ==
  /\ Pending /\ posted = "none" /\ at \in Exchanges \ {"open", "create"}
  /\ verdict' = ErrorClass(at, "other")
  /\ Advance(Number, TRUE)
  /\ UNCHANGED <<request, at, posted, left, attached, report, top, requests>>

\* The operation is over.
Stop == ~Pending /\ UNCHANGED vars

Next ==
  \/ \E r \in Requests : Start(r)
  \/ Post \/ Accept \/ Reject \/ GiveUp \/ LateEffect \/ Abandon \/ Stop

Spec == Init /\ [][Next]_vars

-----------------------------------------------------------------------------
(* A report is never submitted without the receipts and header it was to   *)
(* have, not even by an operation that then fails.                         *)
NoIncompleteSubmission ==
  report.status = "Submitted" =>
    /\ report.receipts = request.receipts
    /\ report.header = request.approvers

(* When the operation succeeds, the sequence number the session will be    *)
(* saved with follows every number sent, whichever client sent it.         *)
CheckpointIsCurrent == verdict = "nil" => next = top + 1

(* The headroom reserved before the first request is enough: no admitted   *)
(* operation runs out of numbers.  (createDraftDetails: "The caller must   *)
(* ... reserve enough sequence headroom for its remaining workflow.")      *)
HeadroomSuffices ==
  /\ top < MaxSeq
  /\ Pending /\ at = "preflight" => ReceiptFits
  /\ Pending /\ at = "save" /\ ByReceiptClient => SaveFits

(* With receipts it is.                                                    *)
ReceiptHeadroomSuffices ==
  at # "idle" /\ request.receipts > 0 => HeadroomSuffices

(* The number of requests shown in the plan is the number a successful     *)
(* operation sends.                                                        *)
PlanIsExact == verdict = "nil" => requests = RequestCount(request)

\* The report as requested, from an empty Draft to the final action.
Wanted == [status |-> IF request.final = "submit" THEN "Submitted" ELSE "Draft",
           header |-> request.approvers, lines |-> request.lines,
           receipts |-> request.receipts, closed |-> TRUE]
effectBar == IF report = NoReport THEN "none"
             ELSE IF report = Wanted THEN "complete" ELSE "partial"
verdictBar == [pending |-> "pending", nil |-> "success",
               uncertain |-> "uncertain", expired |-> "failure",
               other |-> "failure"][verdict]

Promise == INSTANCE RemoteMutation WITH effect <- effectBar, verdict <- verdictBar

(* Success means the report is exactly as requested; an error that is not  *)
(* ErrOperationUncertain, that no report was created or ever will be by    *)
(* this operation.                                                         *)
KeepsPromise == Promise!Spec
=============================================================================
