--------------------------- MODULE ReportReceipts ---------------------------
(***************************************************************************)
(* The Receipts tab of an open Draft (internal/expense/receipt_add.go,     *)
(* receipt_remove.go and receipt_match.go): adding receipts, removing      *)
(* those with one name one by one, and attaching one to an expense line    *)
(* through the Attach to expense popup.                                    *)
(*                                                                         *)
(* Removing acts on marked receipts, if there are any, else on the active  *)
(* one; attaching acts on the active receipt and the popup's active line.  *)
(* The popup shows lines by date, amount and merchant, if they have one,   *)
(* and only those that can take the receipt.                               *)
(***************************************************************************)
EXTENDS ClientRequests, Sequences, FiniteSets

CONSTANTS
  Receipts,     \* receipts that may be on the report
  Named,        \* those with the file name asked for
  MaxUploads,   \* bound on receipts added at once
  Looks,        \* what is shown of each expense line, in order: its date and
                \* amount (what), its merchant in the report and in the popup
  NoMerchant,   \* shown of a line without one
  NoReceipt

ASSUME ReceiptsAssumption ==
  /\ IsFiniteSet(Receipts) /\ Named \subseteq Receipts /\ NoReceipt \notin Receipts
  /\ MaxUploads \in Nat
  /\ Len(Looks) \in Nat /\ DOMAIN Looks = 1 .. Len(Looks)

LineNumbers == DOMAIN Looks
NoLine == 0

VARIABLES
  count,       \* receipts asked for: to add, or to remove
  line,        \* the expense line to attach a receipt to
  onReport,    \* receipts of the report
  link,        \* the expense line each receipt is attached to, or NoLine
  receipt,     \* the tab's active receipt, or NoReceipt
  marks,       \* the tab's marked receipts
  removing,    \* the confirmation of a removal is open
  popup,       \* the popup is open
  popupLine,   \* its active line, or NoLine
  uploaded,    \* receipts added
  chosen,      \* the receipt the client works on
  removed,     \* receipts removed, as the client counts
  first        \* the receipts the report had, and their attachments

dynamicsReceipts ==
  <<onReport, link, receipt, marks, removing, popup, popupLine, uploaded>>
clientReceipts == <<count, line, chosen, removed, first>>
receiptVars == <<dynamicsReceipts, clientReceipts>>

ReceiptSteps == {"tab", "upload", "pickReceipt", "remove", "yesRemove",
                 "popup", "pickPopupLine", "attach", "closePopup"}

Links == [Receipts -> LineNumbers \cup {NoLine}]

ReceiptsTypeOK ==
  /\ count \in Nat /\ line \in Nat
  /\ onReport \subseteq Receipts /\ link \in Links
  /\ first \in [receipts: SUBSET Receipts, link: Links]
  /\ receipt \in Receipts \cup {NoReceipt} /\ marks \subseteq onReport
  /\ removing \in BOOLEAN /\ popup \in BOOLEAN
  /\ popupLine \in LineNumbers \cup {NoLine}
  /\ uploaded \in Nat /\ removed \in Nat
  /\ chosen \in Receipts \cup {NoReceipt}

ReceiptsInit(counts, targets, reports) ==
  /\ count \in counts /\ line \in targets
  /\ onReport \in reports
  /\ link \in {l \in Links :
                 /\ \A r \in Receipts \ onReport : l[r] = NoLine
                 /\ \A r, s \in Receipts : l[r] = l[s] /\ r # s => l[r] = NoLine}
  /\ first = [receipts |-> onReport, link |-> link]
  /\ receipt \in IF onReport = {} THEN {NoReceipt} ELSE onReport
  /\ marks \in SUBSET onReport
  /\ removing = FALSE /\ popup = FALSE /\ popupLine = NoLine
  /\ uploaded = 0 /\ removed = 0 /\ chosen = NoReceipt

-----------------------------------------------------------------------------
(* Numbers.                                                                *)

RemovalHeadroom == 4 * count + 2
AttachmentHeadroom == 8
\* createReportWithReceiptsSequenceHeadroom
UploadHeadroom == 8
AdditionHeadroom == 5 + UploadHeadroom * count
ReceiptMessages(step) == IF step = "upload" THEN UploadHeadroom ELSE 1

-----------------------------------------------------------------------------
(* Dynamics.                                                               *)

Offered == {n \in LineNumbers : \A r \in onReport : link[r] # n}

\* popupRowMatches: by date and amount, and by merchant when both show one.
Alike(n) ==
  /\ Looks[n].what = Looks[line].what
  /\ \/ NoMerchant \in {Looks[n].inPopup, Looks[line].merchant}
     \/ Looks[n].inPopup = Looks[line].merchant
MutCandidates == {n \in Offered : Looks[n].what = Looks[line].what}
Candidates == {n \in Offered : Alike(n)}

Removable == IF marks = {} THEN {receipt} ELSE marks

ReceiptsCarry(step) ==
  CASE step = "upload" ->
         /\ uploaded' = uploaded + 1
         /\ UNCHANGED <<onReport, link, receipt, marks, removing, popup, popupLine>>
    [] step = "pickReceipt" ->
         /\ chosen \in onReport /\ receipt' = chosen
         /\ marks' \in {marks, {chosen}}
         /\ UNCHANGED <<onReport, link, removing, popup, popupLine, uploaded>>
    [] step = "remove" ->
         /\ removing' = TRUE
         /\ UNCHANGED <<onReport, link, receipt, marks, popup, popupLine, uploaded>>
    [] step = "yesRemove" ->
         /\ removing /\ removing' = FALSE
         /\ onReport' \in {onReport, onReport \ Removable}
         /\ link' = [r \in Receipts |-> IF r \in onReport' THEN link[r] ELSE NoLine]
         /\ marks' = marks \cap onReport'
         /\ receipt' \in IF onReport' = {} THEN {NoReceipt} ELSE onReport'
         /\ UNCHANGED <<popup, popupLine, uploaded>>
    [] step = "popup" ->
         /\ popup' = TRUE
         /\ popupLine' \in Offered \cup {NoLine}
         /\ UNCHANGED <<onReport, link, receipt, marks, removing, uploaded>>
    [] step = "pickPopupLine" ->
         /\ popupLine' \in Candidates
         /\ UNCHANGED <<onReport, link, receipt, marks, removing, popup, uploaded>>
    [] step = "attach" ->
         /\ popup /\ popupLine \in Offered /\ receipt # NoReceipt
         /\ link' = [link EXCEPT ![receipt] = popupLine]
         /\ popupLine' = NoLine
         /\ UNCHANGED <<onReport, receipt, marks, removing, popup, uploaded>>
    [] step = "closePopup" ->
         /\ popup' = FALSE
         /\ UNCHANGED <<onReport, link, receipt, marks, removing, popupLine, uploaded>>
    [] OTHER -> UNCHANGED dynamicsReceipts

-----------------------------------------------------------------------------
(* The client.                                                             *)

\* receiptList.named: the receipts with the name; none may be marked.
MutLeft(list) == list \cap Named
Left(list) == IF marks' = {} THEN list \cap Named ELSE {}

\* The next receipt to remove: selected unless it is active.
ToRemove(list) ==
  \E r \in Left(list) :
    /\ chosen' = r
    /\ Proceed(IF receipt' = r THEN "remove" ELSE "pickReceipt")

\* The selected receipt became the active one.
Picked == receipt' = chosen

\* Exactly one receipt went away, and it had the name.
OneRemoved ==
  /\ Cardinality(onReport') = Cardinality(onReport) - 1
  /\ Cardinality(onReport' \cap Named) = count - removed - 1
  /\ marks' = {}

\* op is the operation; exit the step after the last receipt.
ReceiptsAccept(op, exit) ==
  \/ /\ at = "tab" /\ op = "show"
     /\ Proceed("save") /\ UNCHANGED clientReceipts
  \/ /\ at = "tab" /\ op = "add"
     /\ Proceed("upload") /\ UNCHANGED clientReceipts
  \/ /\ at = "tab" /\ op = "remove"
     /\ Cardinality(Left(onReport)) = count
     /\ \A r \in Left(onReport) : link[r] = NoLine
     /\ ToRemove(onReport)
     /\ UNCHANGED <<count, line, removed, first>>
  \/ /\ at = "tab" /\ op = "attach"
     /\ \E r \in onReport \cap Named :
          /\ onReport \cap Named = {r} /\ chosen' = r
          /\ Proceed(IF receipt = r THEN "popup" ELSE "pickReceipt")
     /\ UNCHANGED <<count, line, removed, first>>
  \/ /\ at = "upload" /\ uploaded' = uploaded + 1
     /\ Proceed(IF uploaded' < count THEN "upload" ELSE exit)
     /\ UNCHANGED clientReceipts
  \/ /\ at = "pickReceipt" /\ Picked
     /\ Proceed(IF op = "attach" THEN "popup" ELSE "remove")
     /\ UNCHANGED clientReceipts
  \/ at = "remove" /\ removing' /\ Proceed("yesRemove") /\ UNCHANGED clientReceipts
  \/ /\ at = "yesRemove" /\ ~removing' /\ OneRemoved
     /\ removed' = removed + 1
     /\ IF removed' < count THEN ToRemove(onReport')
        ELSE Proceed(exit) /\ UNCHANGED chosen
     /\ UNCHANGED <<count, line, first>>
  \/ /\ at = "popup" /\ popup' /\ Cardinality(Candidates) = 1
     /\ Proceed(IF popupLine' \in Candidates THEN "attach" ELSE "pickPopupLine")
     /\ UNCHANGED clientReceipts
  \/ /\ at = "pickPopupLine" /\ popupLine' \in Candidates
     /\ Proceed("attach") /\ UNCHANGED clientReceipts
  \/ /\ at = "attach"
     /\ Cardinality(Offered') = Cardinality(Offered) - 1
     /\ \A n \in Offered' : ~Alike(n)
     /\ Proceed("closePopup") /\ UNCHANGED clientReceipts
  \/ at = "closePopup" /\ ~popup' /\ Proceed(exit) /\ UNCHANGED clientReceipts

-----------------------------------------------------------------------------
(* Only receipts with the name asked for leave the report, no more than    *)
(* asked for, and none that an expense line needs (README: "refuses        *)
(* receipts attached to an expense line").                                 *)
OnlyNamedRemoved ==
  LET gone == first.receipts \ onReport IN
  /\ gone \subseteq Named
  /\ Cardinality(gone) <= count
  /\ \A r \in gone : first.link[r] = NoLine

(* Only the receipt named is attached, and to the line it was asked to be  *)
(* attached to, the one with the number asked for.                         *)
AttachedToItsLine ==
  \A r \in onReport : link[r] # first.link[r] => r \in Named /\ link[r] = line

(* Another line has the same date and amount as the one asked for, and not *)
(* another merchant: the client cannot tell them apart.                    *)
Twin == \E n \in LineNumbers : n # line /\ Alike(n)

(* An attachment goes to the line asked for, unless that has a twin.       *)
AttachedToItsLineUnlessTwin == Twin \/ AttachedToItsLine
=============================================================================
