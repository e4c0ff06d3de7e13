---------------------------- MODULE DraftReports ----------------------------
(***************************************************************************)
(* The commands on a Draft (internal/expense/existing_report.go,           *)
(* report_delete.go, receipt_*.go and report_header.go), composed of the   *)
(* work on the grid, the header, the lines and the receipts, all of which  *)
(* share one client: one sequence of numbers, one verdict.  "new" is the   *)
(* part of CreateReport that edits the header and the lines of the Draft   *)
(* it has just created.                                                    *)
(***************************************************************************)
EXTENDS ReportsGrid, ReportHeader, ExpenseLines, ReportReceipts

CONSTANTS
  ReportApprovers,  \* interim approvers a report may have
  ReportLines,      \* lines a report may have
  ReportReceiptSets \* receipts a report may have

ASSUME DraftsAssumption ==
  /\ ReportApprovers \subseteq Seq(Workers)
  /\ ReportLines \subseteq Bag
  /\ ReportReceiptSets \subseteq SUBSET Receipts

VARIABLE op         \* the operation

vars == <<op, exchangeVars, gridVars, headerVars, linesVars, receiptVars>>

Ops == {"show", "edit", "itemize", "submit", "delete", "add", "remove",
        "attach", "new"}
Steps == GridSteps \cup HeaderSteps \cup LinesSteps \cup ReceiptSteps

NoHeader == [fields |-> {}, names |-> <<>>]
HasHeader == header # NoHeader

TypeOK ==
  /\ op \in Ops
  /\ at \in Steps \cup {"done"} /\ posted \in Steps \cup {"none"}
  /\ used \in Nat /\ requests \in Nat /\ verdict \in Verdicts
  /\ GridTypeOK /\ HeaderTypeOK /\ LinesTypeOK /\ ReceiptsTypeOK

-----------------------------------------------------------------------------
(* Plans: how the parts follow each other.                                 *)

AfterOpen ==
  CASE op = "edit" -> "menu"
    [] op = "itemize" -> IF card THEN "lineMenu" ELSE "pickLine"
    [] op = "submit" -> "submit"
    [] OTHER -> "tab"
ToLines == IF wanted # <<>> THEN "newLine" ELSE "save"
AfterHeader == IF op = "new" THEN ToLines ELSE "save"

\* openReportRequestCount, existingReportHeadroom, deleteReportRequestCount.
OpenRequestCount == 3
ExistingHeadroom == OpenRequestCount + 4
DeleteRequestCount == 5
ItemizeHeadroom ==
  LinesHeadroom(<<[key |-> OtherKey, fields |-> 3, rows |-> Rows]>>)
Headroom ==
  CASE op \in {"show", "submit"} -> ExistingHeadroom
    [] op = "edit"    -> ExistingHeadroom + HeaderHeadroom
    [] op = "itemize" -> ExistingHeadroom + ItemizeHeadroom
    [] op = "delete"  -> DeleteRequestCount
    [] op = "add"     -> ExistingHeadroom + AdditionHeadroom
    [] op = "remove"  -> ExistingHeadroom + RemovalHeadroom
    [] op = "attach"  -> ExistingHeadroom + AttachmentHeadroom
    [] op = "new"     -> (IF HasHeader THEN HeaderHeadroom ELSE 0)
                         + LinesHeadroom(wanted) + 1

\* markOperationUncertain: from here on the report may have changed.
OpenSteps == {"refresh", "activate", "link"}
PlainSteps ==
  CASE op = "show"   -> OpenSteps \cup {"tab"}
    [] op \in {"remove", "attach"} -> OpenSteps \cup {"tab"}
    [] op = "delete" -> {"refresh", "mark", "delete"}
    [] op = "new"    -> {}
    [] OTHER         -> OpenSteps
MutErrorClass(step) ==
  IF step \in PlainSteps \cup {"row", "deleteRow", "yes"} THEN "failure" ELSE "uncertain"
ErrorClass(step) == IF step \in PlainSteps THEN "failure" ELSE "uncertain"

-----------------------------------------------------------------------------
NewInit ==
  IF op = "new"
  THEN form = Target /\ active \in Reports /\ marked = {} /\ deleting = FALSE
       /\ status = [r \in Reports |-> "Draft"]
  ELSE GridInit

Init ==
  /\ op \in Ops
  /\ posted = "none" /\ used = 0 /\ requests = 0 /\ verdict = "pending"
  /\ NewInit
  /\ HeaderInit(IF op = "edit" THEN HeaderInputs \ {NoHeader}
                ELSE IF op = "new" THEN {h \in HeaderInputs : "title" \notin h.fields}
                ELSE {NoHeader},
                IF op \in {"edit", "new"} THEN ReportApprovers ELSE {<<>>})
  /\ LinesInit(IF op = "new" THEN {l \in LineInputs : l # <<>> \/ HasHeader}
               ELSE IF op = "itemize" THEN {l \in LineInputs : Len(l) = 1 /\ l[1].rows # <<>>}
               ELSE {<<>>},
               IF op \in {"new", "itemize"} THEN ReportLines ELSE {NoLines},
               op = "itemize")
  /\ ReceiptsInit(IF op \in {"add", "remove"} THEN 1 .. MaxUploads ELSE {1},
                  IF op = "attach" THEN LineNumbers ELSE {1},
                  IF op \in {"show", "add", "remove", "attach"} THEN ReportReceiptSets ELSE {{}})
  /\ at = IF op # "new" THEN "refresh" ELSE IF HasHeader THEN "menu" ELSE ToLines

-----------------------------------------------------------------------------
Messages(step) ==
  IF step \in HeaderSteps THEN HeaderMessages(step)
  ELSE IF step \in LinesSteps THEN LinesMessages(step)
  ELSE IF step \in ReceiptSteps THEN ReceiptMessages(step) ELSE 1

Post ==
  /\ at \in Steps
  /\ Send(Messages(at), ~(at \in HeaderSteps /\ Repair(at)))
  /\ UNCHANGED <<op, gridVars, headerVars, linesVars, receiptVars>>

\* Dynamics carries out the request of a step, or ignores it.
Dynamics == <<gridVars, dynamicsHeader, dynamicsLines, dynamicsReceipts>>
CarryOut(step) ==
  \/ step \in GridSteps /\ GridCarry(step)
     /\ UNCHANGED <<dynamicsHeader, dynamicsLines, dynamicsReceipts>>
  \/ step \in HeaderSteps /\ HeaderCarry(step)
     /\ UNCHANGED <<gridVars, dynamicsLines, dynamicsReceipts>>
  \/ step \in LinesSteps /\ LinesCarry(step)
     /\ UNCHANGED <<gridVars, dynamicsHeader, dynamicsReceipts>>
  \/ step \in ReceiptSteps /\ ReceiptsCarry(step)
     /\ UNCHANGED <<gridVars, dynamicsHeader, dynamicsLines>>
  \/ UNCHANGED Dynamics

\* A trusted answer that shows what it must.
Accept ==
  /\ Waiting /\ CarryOut(at) /\ UNCHANGED op
  /\ \/ /\ at \in GridSteps /\ GridAccept(op = "delete", AfterOpen)
        /\ UNCHANGED <<clientHeader, clientLines, clientReceipts>>
     \/ /\ at \in HeaderSteps /\ HeaderAccept(AfterHeader)
        /\ UNCHANGED <<clientLines, clientReceipts>>
     \/ /\ at \in LinesSteps /\ LinesAccept("save")
        /\ UNCHANGED <<clientHeader, clientReceipts>>
     \/ /\ at \in ReceiptSteps /\ ReceiptsAccept(op, "save")
        /\ UNCHANGED <<clientHeader, clientLines>>

\* Any other answer: not trusted, or not showing what it must.
Reject ==
  /\ Waiting /\ CarryOut(at)
  /\ End(ErrorClass(at), TRUE)
  /\ UNCHANGED <<op, clientHeader, clientLines, clientReceipts>>

\* No answer.  Dynamics may still carry the request out.
GiveUp ==
  /\ Waiting /\ End(ErrorClass(at), FALSE)
  /\ UNCHANGED <<op, gridVars, headerVars, linesVars, receiptVars>>
LateEffect ==
  /\ ~Pending /\ posted # "none"
  /\ posted' = "none" /\ CarryOut(posted)
  /\ UNCHANGED <<op, at, used, requests, verdict, clientHeader, clientLines, clientReceipts>>

\* What comes next cannot be sent: a control is missing, a file unreadable.
\* Two commands look at the opened report before anything is uncertain.
Unsent(step) ==
  {ErrorClass(step)} \cup
  (IF op \in {"submit", "itemize"} /\ step = AfterOpen THEN {"failure"} ELSE {})
Abandon ==
  /\ Pending /\ posted = "none" /\ at \in Steps
  /\ \E class \in Unsent(at) : End(class, FALSE)
  /\ UNCHANGED <<op, gridVars, headerVars, linesVars, receiptVars>>

Stop == ~Pending /\ UNCHANGED vars

Next == Post \/ Accept \/ Reject \/ GiveUp \/ LateEffect \/ Abandon \/ Stop

Spec == Init /\ [][Next]_vars

-----------------------------------------------------------------------------
(* No admitted operation uses more sequence numbers than were reserved for *)
(* it, whatever rows, lines or receipts it has to work through.            *)
HeadroomSuffices == used <= Headroom

(* A dry run tells the number of requests of a deletion, of adding lines,  *)
(* and, when no approver row is deleted or reselected, of editing the      *)
(* header, which may take fewer.                                           *)
PlanIsExact ==
  verdict = "nil" =>
    CASE op = "delete" -> requests = DeleteRequestCount
      [] op = "new" /\ ~HasHeader -> requests = LinesRequestCount(wanted) + 1
      [] op = "new" /\ HasHeader ->
           requests <= HeaderRequestCount(header) + LinesRequestCount(wanted) + 1
      [] OTHER -> TRUE

\* The lines the client believes in: all before the one at work, and that one
\* itself while it is itemized.
Believed ==
  IF op = "itemize"
  THEN IF at \in LinesSteps THEN original ELSE WithRows(original, Rows)
  ELSE IF at \notin LinesSteps
       THEN IF at \in HeaderSteps THEN original ELSE WithLines(original, wanted)
  ELSE LET base == WithLines(original, SubSeq(wanted, 1, nth - 1))
       IN IF at \in {"newLine", "field", "saveLine"} THEN base
          ELSE Plus(base, <<Line.key, TRUE>>, 1)

(* Between requests the report's lines are those it had and those asked    *)
(* for so far, exactly as asked for, in what the list does not show too;   *)
(* and no line is ever lost.  Only the line it is meant for is itemized,   *)
(* and only by rows that add up to its amount.                             *)
LinesOnTheWay ==
  /\ op \in {"new", "itemize"} /\ Pending /\ posted = "none" /\ at \notin OpenSteps =>
       lines = Believed
  /\ \A kind \in DOMAIN lines : lines[kind] >= original[kind]
  /\ Pending /\ at = "closeSheet" => card /\ sums

\* The operation's change of the report, complete or not.
Changed ==
  \/ \E r \in Reports : status[r] = "gone" \/ (op = "submit" /\ status[r] = "Submitted")
  \/ unset # header.fields \/ Saved # before
  \/ lines # original
  \/ uploaded > 0 \/ onReport # first.receipts \/ link # first.link
Done ==
  CASE op = "show"    -> TRUE
    [] op = "edit"    -> HeaderDone
    [] op = "itemize" -> lines = WithRows(original, Rows)
    [] op = "submit"  -> status[Target] = "Submitted"
    [] op = "delete"  -> status[Target] = "gone"
    [] op = "add"     -> uploaded = count
    [] op = "remove"  -> onReport = first.receipts \ Named
    [] op = "attach"  -> \E r \in onReport \cap Named : link[r] = line
    [] op = "new"     -> HeaderDone /\ lines = WithLines(original, wanted)

effectBar == IF Done /\ (Changed \/ verdict = "nil") THEN "complete"
             ELSE IF Changed THEN "partial" ELSE "none"
\* Attaching to a line that has a twin, no verdict is taken for a success.
verdictBar ==
  CASE verdict = "nil" -> IF op = "attach" /\ Twin THEN "uncertain" ELSE "success"
    [] OTHER -> verdict

Promise == INSTANCE RemoteMutation WITH effect <- effectBar, verdict <- verdictBar

(* Every command keeps the promise of RemoteMutation: it succeeds only     *)
(* when the report is exactly as asked for, and fails without marking the  *)
(* session uncertain only if nothing was or will be changed.  The one      *)
(* exception is attaching a receipt to a line that has a twin: what the    *)
(* caller is told is a success then promises no more than an uncertain     *)
(* outcome does, for the receipt may be on the twin.                       *)
KeepsPromise == Promise!Spec

(* A receipt said to be attached is on the line asked for                  *)
(* ("AttachReportReceipt attaches an uploaded report receipt to one        *)
(* expense line").                                                         *)
SuccessAttaches ==
  verdict = "nil" /\ op = "attach" => \E r \in onReport \cap Named : link[r] = line
=============================================================================
