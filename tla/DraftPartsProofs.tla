-------------------------- MODULE DraftPartsProofs --------------------------
(***************************************************************************)
(* What a command on a Draft does to the grid, to the receipts, to the     *)
(* interim approvers and to the expense lines, of every number of reports, *)
(* receipts, lines, marks and names: no other report is touched            *)
(* (OnlyTargetTouched), no receipt is removed that should be kept          *)
(* (OnlyNamedRemoved), none is attached to a line that looks different     *)
(* from the one asked for (AttachedToItsLineUnlessTwin), and approvers and *)
(* lines are at every moment on the way from those the report had to those *)
(* asked for (ApproversOnTheWay, LinesOnTheWay).                           *)
(*                                                                         *)
(* The invariants say what the client has made sure of before each step,   *)
(* as long as the operation goes on or its last request may yet be carried *)
(* out. That of the approvers says what setInterimApprovers relies on      *)
(* between requests: it knows the rows as they are, the row that a         *)
(* deletion or a resolution acts on is the last one, and what it keeps are *)
(* the rows that matched, followed by those it has added.                  *)
(***************************************************************************)
EXTENDS DraftReports, FiniteSetTheorems, WellFoundedInduction, TLAPS

Live == Pending \/ posted # "none"

-----------------------------------------------------------------------------
(* What the steps have in common.                                          *)

LEMMA ErrorClasses == \A step : ErrorClass(step) \in {"failure", "uncertain"}
  BY DEF ErrorClass

LEMMA EndingIsNotPending ==
  ASSUME NEW step, NEW answered, End(ErrorClass(step), answered)
  PROVE  ~Pending'
  BY DEF End, Pending, ErrorClass

(* An answer accepted for a part leads on within it, or to its exit.       *)
LEMMA HeaderProceeds ==
  ASSUME NEW exit, HeaderAccept(exit)
  PROVE  \E step \in HeaderSteps \cup {exit} : Proceed(step)
<1>1. NextRow \in {"deleteRow", "row", "okDialog", "new", "resolve"}
  BY DEF NextRow, AtLast
<1>2. \A list : /\ ToApprovers(list) \in HeaderSteps /\ AfterTitle(list) \in HeaderSteps
                /\ AfterEdit(list) \in HeaderSteps
  BY DEF ToApprovers, AfterTitle, AfterEdit, HeaderSteps
<1>3. ToNextRow => \E step \in HeaderSteps : Proceed(step)
  BY <1>1 DEF ToNextRow, HeaderSteps
<1>4. Opened => \E step \in HeaderSteps : Proceed(step)
  BY <1>3 DEF Opened, HeaderSteps
<1> QED
  BY <1>2, <1>3, <1>4 DEF HeaderAccept, HeaderSteps

LEMMA LinesProceed ==
  ASSUME NEW exit, LinesAccept(exit)
  PROVE  \E step \in LinesSteps \cup {exit} : Proceed(step)
  BY DEF LinesAccept, NextLine, AfterSubcategory, AfterRow, LinesSteps

LEMMA ReceiptsProceed ==
  ASSUME NEW o, NEW exit, ReceiptsAccept(o, exit)
  PROVE  \E step \in ReceiptSteps \cup {exit, "save"} : Proceed(step)
  BY DEF ReceiptsAccept, ToRemove, ReceiptSteps

(* What the parts of an accepted answer leave alone.                       *)
LEMMA AcceptFrame ==
  ASSUME Accept
  PROVE  posted' = "none" /\ UNCHANGED <<op, count, line, first>>
<1>1. \A removal, exit : GridAccept(removal, exit) => posted' = "none"
  BY DEF GridAccept, Proceed
<1>2. \A exit : HeaderAccept(exit) \/ LinesAccept(exit) => posted' = "none"
  BY HeaderProceeds, LinesProceed DEF Proceed
<1>3. \A o, exit : ReceiptsAccept(o, exit) =>
                     posted' = "none" /\ UNCHANGED <<count, line, first>>
  BY DEF ReceiptsAccept, ToRemove, Proceed, clientReceipts
<1> QED
  BY <1>1, <1>2, <1>3 DEF Accept, clientReceipts

-----------------------------------------------------------------------------
(* The grid.  From the moment the mark is accepted until a deletion can no *)
(* longer be carried out, exactly the target is marked among the listed    *)
(* reports; and the form that is open is the target's unless the operation *)
(* ended on opening another one.                                           *)

StatusOK ==
  /\ status \in [Reports -> {"Draft", "Other", "Submitted", "gone"}]
  /\ \A r \in Listed \ {Target} : status[r] = "Draft"
  /\ \A r \in Reports \ {Target} : status[r] # "Submitted"
FormOK == form \in {NoReport, Target} \/ (~Pending /\ posted = "none")
DeletionUnderway == posted = "yes" \/ (Pending /\ at \in {"delete", "yes"})
MarksOK == DeletionUnderway => marked \cap Listed = {Target}
GridInv == StatusOK /\ FormOK /\ MarksOK

-----------------------------------------------------------------------------
(* What Dynamics may do with a request.                                    *)

(* A request carried out keeps the other reports, if a deletion finds the  *)
(* right marks and a submission the right form.                            *)
LEMMA CarryStatus ==
  ASSUME NEW step, StatusOK, CarryOut(step),
         step = "yes" => marked \cap Listed = {Target},
         step = "submit" => form \in {NoReport, Target}
  PROVE  StatusOK'
<1> USE GridAssumption DEF StatusOK
<1>1. CASE step = "submit" /\ GridCarry(step)
  BY <1>1 DEF GridCarry
<1>2. CASE step = "yes" /\ GridCarry(step)
  <2>1. marked # {} /\ Deletable = marked
    BY <1>2 DEF Deletable
  <2>2. \/ status' = [r \in Reports |-> IF r \in marked THEN "gone" ELSE status[r]]
        \/ UNCHANGED status
    BY <1>2, <2>1 DEF GridCarry
  <2>3. \A r \in Listed \ {Target} : r \notin marked
    BY <1>2
  <2> QED
    BY <2>2, <2>3
<1>3. CASE step \in GridSteps \ {"submit", "yes"} /\ GridCarry(step)
  <2>1. UNCHANGED status
    BY <1>3 DEF GridCarry, GridSteps, gridVars
  <2> QED
    BY <2>1
<1>4. CASE UNCHANGED gridVars
  BY <1>4 DEF gridVars
<1> QED
  BY <1>1, <1>2, <1>3, <1>4 DEF CarryOut, Dynamics

(* Only a link opens a form, and only a mark changes the marks.            *)
LEMMA CarryForm ==
  ASSUME NEW step, CarryOut(step)
  PROVE  /\ step # "link" => form' \in {form, NoReport}
         /\ step # "mark" => marked' = marked
<1>1. CASE step \in GridSteps /\ GridCarry(step)
  <2>1. CASE step = "activate"
    BY <1>1, <2>1 DEF GridCarry
  <2>2. CASE step = "link"
    BY <1>1, <2>2 DEF GridCarry
  <2>3. CASE step = "save"
    BY <1>1, <2>3 DEF GridCarry
  <2>4. CASE step = "submit"
    BY <1>1, <2>4 DEF GridCarry
  <2>5. CASE step = "mark"
    BY <1>1, <2>5 DEF GridCarry
  <2>6. CASE step = "delete"
    BY <1>1, <2>6 DEF GridCarry
  <2>7. CASE step = "yes"
    BY <1>1, <2>7 DEF GridCarry
  <2>8. CASE step \in {"refresh", "resubmitted", "gone"}
    BY <1>1, <2>8 DEF GridCarry, gridVars
  <2> QED
    BY <1>1, <2>1, <2>2, <2>3, <2>4, <2>5, <2>6, <2>7, <2>8 DEF GridSteps
<1>2. CASE UNCHANGED gridVars
  BY <1>2 DEF gridVars
<1> QED
  BY <1>1, <1>2 DEF CarryOut, Dynamics

-----------------------------------------------------------------------------
(* Where an accepted answer leads.                                         *)

(* The work on the header, the lines and the receipts never leads to the   *)
(* steps of a deletion.                                                    *)
LEMMA OthersLead ==
  /\ HeaderAccept(AfterHeader) => at' \notin {"delete", "yes"}
  /\ LinesAccept("save") => at' \notin {"delete", "yes"}
  /\ ReceiptsAccept(op, "save") => at' \notin {"delete", "yes"}
  BY HeaderProceeds, LinesProceed, ReceiptsProceed
  DEF Proceed, HeaderSteps, LinesSteps, ReceiptSteps, AfterHeader, ToLines

(* On the grid a deletion is reached through the right mark alone.         *)
LEMMA GridLeads ==
  ASSUME NEW removal, GridAccept(removal, AfterOpen)
  PROVE  \/ at = "mark" /\ marked' \cap Listed = {Target} /\ at' = "delete"
         \/ at = "delete" /\ at' = "yes"
         \/ at' \notin {"delete", "yes"}
<1>1. AfterOpen \notin {"delete", "yes"}
  BY DEF AfterOpen
<1> QED
  BY <1>1 DEF GridAccept, Proceed, OnlyTargetMarked

-----------------------------------------------------------------------------
(* The steps.                                                              *)

LEMMA InitGrid == Init => GridInv
<1> SUFFICES ASSUME Init PROVE GridInv
  OBVIOUS
<1>1. StatusOK
  BY GridAssumption DEF Init, NewInit, GridInit, StatusOK
<1>2. FormOK
  BY DEF Init, NewInit, GridInit, FormOK
<1>3. posted = "none" /\ at \notin {"delete", "yes"}
  BY DEF Init, ToLines
<1>4. MarksOK
  BY <1>3 DEF MarksOK, DeletionUnderway
<1> QED
  BY <1>1, <1>2, <1>4 DEF GridInv

(* What is carried out while the client waits, or after it has given up,   *)
(* keeps the statuses.                                                     *)
LEMMA StatusKept ==
  ASSUME GridInv, posted # "none", NEW step, CarryOut(step),
         step = posted \/ (Pending /\ step = at)
  PROVE  StatusOK'
<1>1. step = "yes" => marked \cap Listed = {Target}
  BY DEF GridInv, MarksOK, DeletionUnderway
<1>2. step = "submit" => form \in {NoReport, Target}
  BY DEF GridInv, FormOK
<1> QED
  BY <1>1, <1>2, CarryStatus DEF GridInv

LEMMA AcceptGrid == GridInv /\ Accept => GridInv'
<1> SUFFICES ASSUME GridInv, Accept PROVE GridInv'
  OBVIOUS
<1>1. Waiting /\ CarryOut(at) /\ posted # "none" /\ Pending
  BY DEF Accept, Waiting
<1>2. StatusOK'
  BY <1>1, StatusKept
<1>3. posted' = "none"
  BY AcceptFrame
<1>4. FormOK'
  <2>1. CASE at = "link"
    <3>1. GridAccept(op = "delete", AfterOpen)
      BY <2>1 DEF Accept, HeaderSteps, LinesSteps, ReceiptSteps
    <3> QED
      BY <2>1, <3>1 DEF GridAccept, FormOK
  <2>2. CASE at # "link"
    BY <1>1, <2>2, CarryForm DEF GridInv, FormOK
  <2> QED
    BY <2>1, <2>2
<1>5. MarksOK'
  <2>1. CASE at \in GridSteps /\ GridAccept(op = "delete", AfterOpen)
    <3>1. CASE at = "mark" /\ marked' \cap Listed = {Target}
      BY <3>1 DEF MarksOK
    <3>2. CASE at = "delete"
      <4>1. marked' = marked
        BY <1>1, <3>2, CarryForm
      <4> QED
        BY <1>1, <3>2, <4>1 DEF GridInv, MarksOK, DeletionUnderway
    <3>3. CASE at' \notin {"delete", "yes"}
      BY <1>3, <3>3 DEF MarksOK, DeletionUnderway
    <3> QED
      BY <2>1, <3>1, <3>2, <3>3, GridLeads
  <2>2. CASE ~(at \in GridSteps /\ GridAccept(op = "delete", AfterOpen))
    <3>1. \/ HeaderAccept(AfterHeader)
          \/ LinesAccept("save")
          \/ ReceiptsAccept(op, "save")
      BY <2>2 DEF Accept
    <3>2. at' \notin {"delete", "yes"}
      BY <3>1, OthersLead
    <3> QED
      BY <1>3, <3>2 DEF MarksOK, DeletionUnderway
  <2> QED
    BY <2>1, <2>2
<1> QED
  BY <1>2, <1>4, <1>5 DEF GridInv

LEMMA RejectGrid == GridInv /\ Reject => GridInv'
<1> SUFFICES ASSUME GridInv, Reject PROVE GridInv'
  OBVIOUS
<1>1. Waiting /\ CarryOut(at) /\ posted # "none" /\ Pending
  BY DEF Reject, Waiting
<1>2. StatusOK'
  BY <1>1, StatusKept
<1>3. ~Pending' /\ posted' = "none"
  BY ErrorClasses DEF Reject, End, Pending
<1> QED
  BY <1>2, <1>3 DEF GridInv, FormOK, MarksOK, DeletionUnderway

LEMMA LateGrid == GridInv /\ LateEffect => GridInv'
<1> SUFFICES ASSUME GridInv, LateEffect PROVE GridInv'
  OBVIOUS
<1>1. StatusOK'
  BY StatusKept DEF LateEffect
<1>2. ~Pending' /\ posted' = "none"
  BY DEF LateEffect, Pending
<1> QED
  BY <1>1, <1>2 DEF GridInv, FormOK, MarksOK, DeletionUnderway

(* Sending, giving up and abandoning change nothing in Dynamics.           *)
LEMMA QuietGrid == GridInv /\ (Post \/ GiveUp \/ Abandon \/ UNCHANGED vars) => GridInv'
<1> SUFFICES ASSUME GridInv, Post \/ GiveUp \/ Abandon \/ UNCHANGED vars PROVE GridInv'
  OBVIOUS
<1>1. UNCHANGED <<status, active, marked, form, deleting>>
  BY DEF Post, GiveUp, Abandon, vars, gridVars
<1>2. StatusOK'
  BY <1>1 DEF GridInv, StatusOK
<1>3. CASE Post
  BY <1>1, <1>2, <1>3 DEF GridInv, FormOK, MarksOK, DeletionUnderway, Post, Send, Pending
<1>4. CASE GiveUp
  <2>1. ~Pending' /\ posted' = posted /\ posted # "none" /\ Pending
    BY <1>4, ErrorClasses DEF GiveUp, End, Pending, Waiting
  <2> QED
    BY <1>1, <1>2, <2>1 DEF GridInv, FormOK, MarksOK, DeletionUnderway
<1>5. CASE Abandon
  <2>1. ~Pending' /\ posted' = "none"
    BY <1>5, ErrorClasses DEF Abandon, Unsent, End, Pending
  <2> QED
    BY <1>1, <1>2, <2>1 DEF GridInv, FormOK, MarksOK, DeletionUnderway
<1>6. CASE UNCHANGED vars
  BY <1>1, <1>2, <1>6 DEF GridInv, FormOK, MarksOK, DeletionUnderway, Pending, vars, exchangeVars
<1> QED
  BY <1>3, <1>4, <1>5, <1>6

(* OnlyTargetTouched holds of every instance: whatever was marked, active  *)
(* or opened, whatever Dynamics ignores, and whenever an operation ends or *)
(* its last request is carried out.                                        *)
THEOREM OtherReportsSafe == Spec => []OnlyTargetTouched
<1>1. GridInv /\ [Next]_vars => GridInv'
  BY AcceptGrid, RejectGrid, LateGrid, QuietGrid DEF Next, Stop
<1>2. GridInv => OnlyTargetTouched
  BY DEF GridInv, StatusOK, FormOK, OnlyTargetTouched
<1> QED
  BY InitGrid, <1>1, <1>2, PTL DEF Spec

-----------------------------------------------------------------------------
(* The receipts.                                                           *)

RemovalSteps == {"remove", "yesRemove"}
AttachSteps == {"popup", "pickPopupLine", "attach"}

\* Which operation makes which steps.
PlacesOK ==
  /\ posted \in {"none", at}
  /\ at \in RemovalSteps => op = "remove"
  /\ at \in AttachSteps => op = "attach"
  /\ at = "pickReceipt" => op \in {"remove", "attach"}

ReceiptsOK ==
  /\ first.receipts \subseteq Receipts /\ onReport \subseteq first.receipts
  /\ link \in Links /\ count \in Nat
  /\ op # "remove" => onReport = first.receipts
  /\ op # "attach" => \A r \in onReport : link[r] = first.link[r]

\* What the Receipts tab has shown of a removal.
FoundAll ==
  /\ Cardinality(first.receipts \cap Named) = count
  /\ \A r \in first.receipts \cap Named : first.link[r] = NoLine
RemovalOK ==
  /\ op = "remove" => onReport = first.receipts \/ FoundAll
  /\ op = "remove" /\ at \in RemovalSteps \cup {"pickReceipt"} => FoundAll
  /\ first.receipts \ onReport \subseteq Named
  /\ Live /\ at \in RemovalSteps => Removable \subseteq Named
  /\ Live /\ at = "pickReceipt" => chosen \in Named /\ (op = "remove" => marks = {})

LooksRight(n) == n \in LineNumbers /\ Alike(n)
AttachOK ==
  /\ \A r \in onReport :
       link[r] # first.link[r] => r \in Named /\ LooksRight(link[r])
  /\ Live /\ at \in AttachSteps => receipt \in Named
  /\ Live /\ at = "attach" => LooksRight(popupLine)

ReceiptsInv == PlacesOK /\ ReceiptsOK /\ RemovalOK /\ AttachOK

-----------------------------------------------------------------------------
(* Where an accepted answer leads from the other parts.                    *)

Elsewhere == RemovalSteps \cup AttachSteps \cup {"pickReceipt"}

LEMMA LeadsElsewhere ==
  /\ \A removal : GridAccept(removal, AfterOpen) => at' \notin Elsewhere
  /\ HeaderAccept(AfterHeader) => at' \notin Elsewhere
  /\ LinesAccept("save") => at' \notin Elsewhere
<1> USE DEF Elsewhere, RemovalSteps, AttachSteps
<1>1. ASSUME NEW removal, GridAccept(removal, AfterOpen) PROVE at' \notin Elsewhere
  <2>1. AfterOpen \notin Elsewhere
    BY DEF AfterOpen
  <2> QED
    BY <1>1, <2>1 DEF GridAccept, Proceed
<1>2. HeaderAccept(AfterHeader) => at' \notin Elsewhere
  BY HeaderProceeds DEF Proceed, HeaderSteps, AfterHeader, ToLines
<1>3. LinesAccept("save") => at' \notin Elsewhere
  BY LinesProceed DEF Proceed, LinesSteps
<1> QED
  BY <1>1, <1>2, <1>3

-----------------------------------------------------------------------------
(* What Dynamics may do with a request.                                    *)

(* The receipts change only as the invariant allows.                       *)
LEMMA CarryReceipts ==
  ASSUME ReceiptsInv, Live, CarryOut(at), UNCHANGED <<op, count, line, first>>
  PROVE  /\ ReceiptsOK'
         /\ op = "remove" => onReport' = first.receipts \/ FoundAll
         /\ first.receipts \ onReport' \subseteq Named
         /\ \A r \in onReport' :
              link'[r] # first.link[r] => r \in Named /\ LooksRight(link'[r])
<1> USE ReceiptsAssumption DEF ReceiptsInv
<1> DEFINE Same == UNCHANGED <<onReport, link>>
<1>1. CASE Same
  BY <1>1 DEF ReceiptsOK, RemovalOK, AttachOK, LooksRight, Alike
<1>2. CASE at = "yesRemove" /\ ReceiptsCarry(at)
  <2>1. op = "remove" /\ FoundAll /\ Removable \subseteq Named
    BY <1>2 DEF PlacesOK, RemovalOK, RemovalSteps
  <2>2. /\ onReport' \in {onReport, onReport \ Removable}
        /\ link' = [r \in Receipts |-> IF r \in onReport' THEN link[r] ELSE NoLine]
    BY <1>2 DEF ReceiptsCarry
  <2>3. onReport' \subseteq onReport /\ first.receipts \ onReport' \subseteq Named
    BY <2>1, <2>2 DEF RemovalOK
  <2>4. link' \in Links /\ \A r \in onReport' : link'[r] = link[r]
    BY <2>2, <2>3 DEF ReceiptsOK, Links
  <2> QED
    BY <2>1, <2>3, <2>4 DEF ReceiptsOK, AttachOK
<1>3. CASE at = "attach" /\ ReceiptsCarry(at)
  <2>1. op = "attach" /\ receipt \in Named /\ LooksRight(popupLine)
    BY <1>3 DEF PlacesOK, AttachOK, AttachSteps
  <2>2. link' = [link EXCEPT ![receipt] = popupLine] /\ onReport' = onReport
    BY <1>3 DEF ReceiptsCarry
  <2>3. link' \in Links
    BY <2>1, <2>2 DEF ReceiptsOK, Links, LooksRight, Alike
  <2>4. \A r \in onReport : link'[r] = IF r = receipt THEN popupLine ELSE link[r]
    BY <2>2 DEF ReceiptsOK, Links
  <2> QED
    BY <2>1, <2>2, <2>3, <2>4 DEF ReceiptsOK, RemovalOK, AttachOK
<1>4. CASE at \in ReceiptSteps \ {"yesRemove", "attach"} /\ ReceiptsCarry(at)
  <2>1. Same
    BY <1>4 DEF ReceiptsCarry, ReceiptSteps, dynamicsReceipts
  <2> QED
    BY <1>1, <2>1
<1>5. CASE UNCHANGED dynamicsReceipts
  BY <1>1, <1>5 DEF dynamicsReceipts
<1> QED
  BY <1>2, <1>3, <1>4, <1>5 DEF CarryOut, Dynamics

-----------------------------------------------------------------------------
(* The steps.                                                              *)

LEMMA InitReceipts == Init => ReceiptsInv
<1> SUFFICES ASSUME Init PROVE ReceiptsInv
  OBVIOUS
<1>1. /\ first = [receipts |-> onReport, link |-> link]
      /\ onReport \subseteq Receipts /\ link \in Links
    BY DraftsAssumption DEF Init, ReceiptsInit
<1>2. count \in Nat
  BY ReceiptsAssumption DEF Init, ReceiptsInit
<1>3. posted = "none" /\ at \notin Elsewhere
  BY DEF Init, ToLines, Elsewhere, RemovalSteps, AttachSteps
<1>4. PlacesOK
  BY <1>3 DEF PlacesOK, Elsewhere
<1>5. ReceiptsOK
  BY <1>1, <1>2 DEF ReceiptsOK
<1>6. RemovalOK
  BY <1>1, <1>3 DEF RemovalOK, Elsewhere
<1>7. AttachOK
  BY <1>1, <1>3 DEF AttachOK, Elsewhere, AttachSteps
<1> QED
  BY <1>4, <1>5, <1>6, <1>7 DEF ReceiptsInv

(* What a removal relies on next, once a receipt to remove was chosen.     *)
LEMMA RemovalGoesOn ==
  ASSUME NEW list, list \subseteq onReport', ToRemove(list)
  PROVE  /\ at' \in {"remove", "pickReceipt"} /\ chosen' \in Named /\ marks' = {}
         /\ at' = "remove" => Removable' \subseteq Named
  BY DEF ToRemove, Left, Proceed, Removable

(* An accepted answer of the Receipts tab.                                 *)
LEMMA AcceptTab ==
  ASSUME ReceiptsInv, Live, Live', at \in ReceiptSteps, CarryOut(at),
         ReceiptsAccept(op, "save"), UNCHANGED <<op, count, line, first>>
  PROVE  /\ at' \in RemovalSteps => op = "remove"
         /\ at' \in AttachSteps => op = "attach"
         /\ at' = "pickReceipt" => op \in {"remove", "attach"}
         /\ op = "remove" /\ at' \in RemovalSteps \cup {"pickReceipt"} => FoundAll
         /\ at' \in RemovalSteps => Removable' \subseteq Named
         /\ at' = "pickReceipt" => chosen' \in Named /\ (op = "remove" => marks' = {})
         /\ at' \in AttachSteps => receipt' \in Named
         /\ at' = "attach" => LooksRight(popupLine')
<1> USE DEF ReceiptsInv, Proceed
<1>0. \/ ReceiptsCarry(at) \/ UNCHANGED dynamicsReceipts
  BY DEF CarryOut, Dynamics
<1>1. CASE at = "tab" /\ op = "show" /\ at' = "save"
  BY <1>1 DEF RemovalSteps, AttachSteps
<1>2. CASE at = "tab" /\ op = "add" /\ at' = "upload"
  BY <1>2 DEF RemovalSteps, AttachSteps
<1>3. CASE /\ at = "tab" /\ op = "remove"
           /\ Cardinality(Left(onReport)) = count
           /\ \A r \in Left(onReport) : link[r] = NoLine
           /\ ToRemove(onReport)
  <2>1. UNCHANGED <<onReport, link>>
    BY <1>0, <1>3 DEF ReceiptsCarry, dynamicsReceipts
  <2>2. /\ at' \in {"remove", "pickReceipt"} /\ chosen' \in Named /\ marks' = {}
        /\ at' = "remove" => Removable' \subseteq Named
    BY <1>3, <2>1, RemovalGoesOn
  <2>3. FoundAll
    <3>1. Left(onReport) = onReport \cap Named
      BY <2>2 DEF Left
    <3>2. CASE onReport = first.receipts
      BY <1>3, <3>1, <3>2 DEF FoundAll, ReceiptsOK
    <3> QED
      BY <1>3, <3>2 DEF RemovalOK
  <2> QED
    BY <1>3, <2>2, <2>3 DEF RemovalSteps, AttachSteps
<1>4. CASE /\ at = "tab" /\ op = "attach"
           /\ \E r \in onReport \cap Named :
                /\ onReport \cap Named = {r} /\ chosen' = r
                /\ Proceed(IF receipt = r THEN "popup" ELSE "pickReceipt")
  <2>1. receipt' = receipt
    BY <1>0, <1>4 DEF ReceiptsCarry, dynamicsReceipts
  <2> QED
    BY <1>4, <2>1 DEF RemovalSteps, AttachSteps
<1>5. CASE at = "upload" /\ at' \in {"upload", "save"}
  BY <1>5 DEF RemovalSteps, AttachSteps
<1>6. CASE /\ at = "pickReceipt" /\ Picked /\ chosen' = chosen
           /\ at' = (IF op = "attach" THEN "popup" ELSE "remove")
  <2>1. chosen \in Named /\ op \in {"remove", "attach"}
    BY <1>6 DEF PlacesOK, RemovalOK
  <2>2. marks' \in {marks, {chosen}} /\ receipt' = chosen
    BY <1>0, <1>6 DEF ReceiptsCarry, dynamicsReceipts, Picked
  <2>3. op = "remove" => FoundAll /\ Removable' \subseteq {chosen}
    BY <1>6, <2>2 DEF RemovalOK, Removable
  <2> QED
    BY <1>6, <2>1, <2>2, <2>3 DEF RemovalSteps, AttachSteps
<1>7. CASE at = "remove" /\ at' = "yesRemove"
  <2>1. UNCHANGED <<receipt, marks>>
    BY <1>0, <1>7 DEF ReceiptsCarry, dynamicsReceipts
  <2>2. op = "remove" /\ FoundAll /\ Removable \subseteq Named
    BY <1>7 DEF PlacesOK, RemovalOK, RemovalSteps
  <2> QED
    BY <1>7, <2>1, <2>2 DEF RemovalSteps, AttachSteps, Removable
<1>8. CASE at = "yesRemove" /\ ToRemove(onReport')
  <2>1. op = "remove" /\ FoundAll
    BY <1>8 DEF PlacesOK, RemovalOK, RemovalSteps
  <2> QED
    BY <1>8, <2>1, RemovalGoesOn DEF RemovalSteps, AttachSteps
<1>9. CASE at \in {"yesRemove", "closePopup"} /\ at' = "save"
  BY <1>9 DEF RemovalSteps, AttachSteps
<1>10. CASE /\ at = "popup"
            /\ at' = (IF popupLine' \in Candidates THEN "attach" ELSE "pickPopupLine")
  <2>1. receipt' = receipt
    BY <1>0, <1>10 DEF ReceiptsCarry, dynamicsReceipts
  <2>2. op = "attach" /\ receipt \in Named
    BY <1>10 DEF PlacesOK, AttachOK, AttachSteps
  <2> QED
    BY <1>10, <2>1, <2>2
    DEF RemovalSteps, AttachSteps, Candidates, Offered, Alike, LooksRight
<1>11. CASE at = "pickPopupLine" /\ popupLine' \in Candidates /\ at' = "attach"
  <2>1. receipt' = receipt
    BY <1>0, <1>11 DEF ReceiptsCarry, dynamicsReceipts
  <2>2. op = "attach" /\ receipt \in Named
    BY <1>11 DEF PlacesOK, AttachOK, AttachSteps
  <2> QED
    BY <1>11, <2>1, <2>2
    DEF RemovalSteps, AttachSteps, Candidates, Offered, Alike, LooksRight
<1>12. CASE at = "attach" /\ at' = "closePopup"
  BY <1>12 DEF RemovalSteps, AttachSteps
<1>13. ReceiptsAccept(op, "save") =>
        \/ at = "tab" /\ op = "show" /\ at' = "save"
        \/ at = "tab" /\ op = "add" /\ at' = "upload"
        \/ /\ at = "tab" /\ op = "remove"
           /\ Cardinality(Left(onReport)) = count
           /\ \A r \in Left(onReport) : link[r] = NoLine
           /\ ToRemove(onReport)
        \/ /\ at = "tab" /\ op = "attach"
           /\ \E r \in onReport \cap Named :
                /\ onReport \cap Named = {r} /\ chosen' = r
                /\ Proceed(IF receipt = r THEN "popup" ELSE "pickReceipt")
        \/ at = "upload" /\ at' \in {"upload", "save"}
        \/ /\ at = "pickReceipt" /\ Picked /\ chosen' = chosen
           /\ at' = (IF op = "attach" THEN "popup" ELSE "remove")
        \/ at = "remove" /\ at' = "yesRemove"
        \/ at = "yesRemove" /\ ToRemove(onReport')
        \/ at \in {"yesRemove", "closePopup"} /\ at' = "save"
        \/ /\ at = "popup"
           /\ at' = (IF popupLine' \in Candidates THEN "attach" ELSE "pickPopupLine")
        \/ at = "pickPopupLine" /\ popupLine' \in Candidates /\ at' = "attach"
        \/ at = "attach" /\ at' = "closePopup"
  BY DEF ReceiptsAccept, clientReceipts
<1> HIDE DEF ReceiptsInv, Proceed
<1> QED
  BY <1>1, <1>2, <1>3, <1>4, <1>5, <1>6, <1>7, <1>8, <1>9, <1>10, <1>11, <1>12, <1>13

LEMMA AcceptReceipts == ReceiptsInv /\ Accept => ReceiptsInv'
<1> SUFFICES ASSUME ReceiptsInv, Accept PROVE ReceiptsInv'
  OBVIOUS
<1>1. Live /\ CarryOut(at)
  BY DEF Accept, Waiting, Live
<1>2. posted' = "none" /\ UNCHANGED <<op, count, line, first>>
  BY AcceptFrame
<1>3. /\ ReceiptsOK'
      /\ op = "remove" => onReport' = first.receipts \/ FoundAll
      /\ first.receipts \ onReport' \subseteq Named
      /\ \A r \in onReport' :
           link'[r] # first.link[r] => r \in Named /\ LooksRight(link'[r])
  BY <1>1, <1>2, CarryReceipts
<1>4. FoundAll' = FoundAll /\ \A n : LooksRight(n)' = LooksRight(n)
  BY <1>2 DEF FoundAll, LooksRight, Alike
<1>5. CASE at' \notin Elsewhere
  BY <1>2, <1>3, <1>4, <1>5
  DEF ReceiptsInv, PlacesOK, RemovalOK, AttachOK, Elsewhere, AttachSteps, LooksRight, Alike
<1>6. CASE at' \in Elsewhere
  <2>1. at \in ReceiptSteps /\ ReceiptsAccept(op, "save")
    <3>1. "save" \notin Elsewhere
      BY DEF Elsewhere, RemovalSteps, AttachSteps
    <3> QED
      BY <1>6, <3>1, LeadsElsewhere DEF Accept
  <2>2. Live'
    <3>1. at' # "done"
      BY <1>6 DEF Elsewhere, RemovalSteps, AttachSteps
    <3>2. \A step : Proceed(step) /\ at' # "done" => verdict' = verdict
      BY DEF Proceed
    <3>3. \E step : Proceed(step)
      BY <2>1 DEF ReceiptsAccept, ToRemove
    <3> QED
      BY <3>1, <3>2, <3>3 DEF Accept, Waiting, Pending, Live
  <2>3. /\ at' \in RemovalSteps => op = "remove"
        /\ at' \in AttachSteps => op = "attach"
        /\ at' = "pickReceipt" => op \in {"remove", "attach"}
        /\ op = "remove" /\ at' \in RemovalSteps \cup {"pickReceipt"} => FoundAll
        /\ at' \in RemovalSteps => Removable' \subseteq Named
        /\ at' = "pickReceipt" => chosen' \in Named /\ (op = "remove" => marks' = {})
        /\ at' \in AttachSteps => receipt' \in Named
        /\ at' = "attach" => LooksRight(popupLine')
    BY <1>1, <1>2, <2>1, <2>2, AcceptTab
  <2>4. PlacesOK'
    BY <1>2, <2>3 DEF PlacesOK
  <2>5. RemovalOK'
    BY <1>2, <1>3, <1>4, <2>3 DEF RemovalOK
  <2>6. AttachOK'
    BY <1>2, <1>3, <2>3 DEF AttachOK, LooksRight, Alike
  <2> QED
    BY <1>3, <2>4, <2>5, <2>6 DEF ReceiptsInv
<1> QED
  BY <1>5, <1>6

(* A request may be carried out although its operation has ended, or ends. *)
LEMMA EndedReceipts ==
  ASSUME ReceiptsInv, Live, CarryOut(at), UNCHANGED <<op, at, count, line, first>>,
         ~Live', posted' = "none"
  PROVE  ReceiptsInv'
<1>1. /\ ReceiptsOK'
      /\ op = "remove" => onReport' = first.receipts \/ FoundAll
      /\ first.receipts \ onReport' \subseteq Named
      /\ \A r \in onReport' :
           link'[r] # first.link[r] => r \in Named /\ LooksRight(link'[r])
  BY CarryReceipts
<1>2. PlacesOK'
  BY DEF ReceiptsInv, PlacesOK
<1>3. FoundAll' = FoundAll
  BY DEF FoundAll
<1>4. RemovalOK'
  BY <1>1, <1>3 DEF ReceiptsInv, RemovalOK
<1>5. AttachOK'
  BY <1>1 DEF AttachOK, LooksRight, Alike
<1> QED
  BY <1>1, <1>2, <1>4, <1>5 DEF ReceiptsInv

LEMMA RejectReceipts == ReceiptsInv /\ Reject => ReceiptsInv'
<1> SUFFICES ASSUME ReceiptsInv, Reject PROVE ReceiptsInv'
  OBVIOUS
<1>1. Live /\ CarryOut(at) /\ UNCHANGED <<op, at, count, line, first>>
  BY DEF Reject, Waiting, Live, End, clientReceipts
<1>2. ~Live' /\ posted' = "none"
  BY EndingIsNotPending DEF Reject, Live, End
<1> QED
  BY <1>1, <1>2, EndedReceipts

LEMMA LateReceipts == ReceiptsInv /\ LateEffect => ReceiptsInv'
<1> SUFFICES ASSUME ReceiptsInv, LateEffect PROVE ReceiptsInv'
  OBVIOUS
<1>1. posted = at
  BY DEF LateEffect, ReceiptsInv, PlacesOK
<1>2. Live /\ CarryOut(at) /\ UNCHANGED <<op, at, count, line, first>>
  BY <1>1 DEF LateEffect, Live, clientReceipts
<1>3. ~Live' /\ posted' = "none"
  BY DEF LateEffect, Live, Pending
<1> QED
  BY <1>2, <1>3, EndedReceipts

(* Sending, giving up and abandoning change nothing in Dynamics.           *)
LEMMA QuietReceipts ==
  ReceiptsInv /\ (Post \/ GiveUp \/ Abandon \/ UNCHANGED vars) => ReceiptsInv'
<1> SUFFICES ASSUME ReceiptsInv, Post \/ GiveUp \/ Abandon \/ UNCHANGED vars
             PROVE  ReceiptsInv'
  OBVIOUS
<1>1. UNCHANGED <<op, at, receiptVars>>
  BY DEF Post, GiveUp, Abandon, Send, End, vars, exchangeVars
<1>2. UNCHANGED <<onReport, link, receipt, marks, popupLine, count, line, chosen, first>>
  BY <1>1 DEF receiptVars, dynamicsReceipts, clientReceipts
<1>3. posted' \in {posted, at, "none"} /\ posted' \in {"none", at'}
  BY <1>1 DEF Post, GiveUp, Abandon, Send, End, vars, exchangeVars, ReceiptsInv, PlacesOK
<1>4. Live' => Live
  BY DEF Post, GiveUp, Abandon, Waiting, Send, End, vars, exchangeVars, Live, Pending
<1>5. PlacesOK'
  BY <1>1, <1>3 DEF ReceiptsInv, PlacesOK
<1>6. ReceiptsOK'
  BY <1>1, <1>2 DEF ReceiptsInv, ReceiptsOK
<1>7. FoundAll' = FoundAll /\ Removable' = Removable
  BY <1>2 DEF FoundAll, Removable
<1>8. RemovalOK'
  BY <1>1, <1>2, <1>4, <1>7 DEF ReceiptsInv, RemovalOK
<1>9. AttachOK'
  BY <1>1, <1>2, <1>4 DEF ReceiptsInv, AttachOK, LooksRight, Alike
<1> QED
  BY <1>5, <1>6, <1>8, <1>9 DEF ReceiptsInv

LEMMA NextReceipts == ReceiptsInv /\ [Next]_vars => ReceiptsInv'
  BY AcceptReceipts, RejectReceipts, LateReceipts, QuietReceipts DEF Next, Stop

(* OnlyNamedRemoved holds of every instance: whatever receipts share the   *)
(* name, whatever was marked before, and whatever Dynamics ignores.        *)
THEOREM ReceiptsSafe == Spec => []OnlyNamedRemoved
<1>1. ReceiptsInv => OnlyNamedRemoved
  <2> SUFFICES ASSUME ReceiptsInv PROVE OnlyNamedRemoved
    OBVIOUS
  <2> DEFINE gone == first.receipts \ onReport
  <2>1. first.receipts \subseteq Receipts /\ count \in Nat /\ gone \subseteq Named
    BY DEF ReceiptsInv, ReceiptsOK, RemovalOK
  <2>2. CASE gone = {}
    BY <2>1, <2>2, FS_EmptySet DEF OnlyNamedRemoved
  <2>3. CASE gone # {}
    <3>1. FoundAll
      BY <2>3 DEF ReceiptsInv, ReceiptsOK, RemovalOK
    <3>2. gone \subseteq first.receipts \cap Named
      BY <2>1
    <3>3. IsFiniteSet(first.receipts \cap Named)
      BY <2>1, ReceiptsAssumption, FS_Subset
    <3>4. Cardinality(gone) <= count
      BY <3>1, <3>2, <3>3, FS_Subset DEF FoundAll
    <3> QED
      BY <2>1, <3>1, <3>2, <3>4 DEF FoundAll, OnlyNamedRemoved
  <2> QED
    BY <2>2, <2>3
<1> QED
  BY InitReceipts, NextReceipts, <1>1, PTL DEF Spec

(* AttachedToItsLineUnlessTwin holds of every instance: a receipt that is  *)
(* attached has the name, and its line is alike the one asked for, in date *)
(* and amount, and in merchant when both show one; it is that line, unless *)
(* another one is alike too.                                               *)
THEOREM AttachmentRight == Spec => []AttachedToItsLineUnlessTwin
<1>1. ReceiptsInv => AttachedToItsLineUnlessTwin
  BY DEF ReceiptsInv, AttachOK, LooksRight, AttachedToItsLineUnlessTwin, AttachedToItsLine, Twin
<1> QED
  BY InitReceipts, NextReceipts, <1>1, PTL DEF Spec

-----------------------------------------------------------------------------
Early == OpenSteps \cup {"menu", "edit", "title", "final", "approvers"}
Dialog == {"row", "deleteRow", "confirm", "new", "resolve"}

-----------------------------------------------------------------------------
(* Lists of workers: list is what the report had, of which the first m     *)
(* match the start of the names.                                           *)

Starts(names, list, n) ==
  n <= Len(names) /\ \A i \in 1 .. n : list[i] \in names[i].who
Best(names, list, m) ==
  /\ m \in 0 .. Len(list) /\ Starts(names, list, m)
  /\ \A n \in 0 .. Len(list) : Starts(names, list, n) => n <= m

\* Kept and added, each as asked for.
Good(names, list, m, s) ==
  /\ Len(s) \in m .. Len(names)
  /\ \A i \in 1 .. Len(s) : IF i <= m THEN s[i] = list[i] ELSE s[i] \in names[i].who
\* What ApproversOnTheWay allows.
Way(names, list, m, s, trying) ==
  /\ Len(s) >= m
  /\ \/ \E n \in 0 .. Len(list) : s = SubSeq(list, 1, n)
     \/ /\ Len(s) <= Len(names)
        /\ \A i \in 1 .. Len(s) :
             \/ i <= m /\ s[i] = list[i]
             \/ i > m /\ s[i] \in names[i].who
             \/ i > m /\ i = Len(s) /\ trying

\* The rows v as the client knows them, of which k are as they should be,
\* while it deletes, while it appends, and while it resolves the last one.
Deleting(names, list, m, v, k) ==
  /\ k = m /\ Len(v) \in (m + 1) .. Len(list)
  /\ WorkersOf(v) = SubSeq(list, 1, Len(v))
Adding(names, list, m, v, k) ==
  k = Len(v) /\ Good(names, list, m, WorkersOf(v))
Resolving(names, list, m, v) ==
  /\ v # <<>> /\ Len(v) <= Len(names)
  /\ Good(names, list, m, SubSeq(WorkersOf(v), 1, Len(v) - 1))
  /\ v[Len(v)].worker = Blank

-----------------------------------------------------------------------------
(* The invariant.                                                          *)

Asked == header.names \in Seq(Approver) /\ before \in Seq(Workers)
Distinct(list, last) ==
  /\ \A i, j \in DOMAIN list : list[i].id = list[j].id => i = j
  /\ \A i \in DOMAIN list : list[i].id <= last
RowsOK == rows \in Seq(Row) /\ lastId \in Nat /\ current \in Nat /\ Distinct(rows, lastId)
Untouched == WorkersOf(rows) = before
Places ==
  /\ posted \in {"none", at}
  /\ at \in Dialog \cup {"approvers"} => header.names # <<>>

AtEnd == view # <<>> /\ current = view[Len(view)].id
DeletingOK == Deleting(header.names, before, Matching, view, keep)
AddingOK == Adding(header.names, before, Matching, view, keep)
\* A placeholder was shown and is not active.
AtPlaceholder ==
  /\ view = <<>> /\ keep = 0 /\ before = <<>>
  /\ Len(rows) = 1 /\ rows[1].worker = Blank
DialogOK ==
  /\ at \in Dialog => view \in Seq(Row)
  /\ at \in {"deleteRow", "confirm"} => rows = view /\ AtEnd /\ DeletingOK
  /\ at = "row" => \/ rows = view /\ view # <<>> /\ (DeletingOK \/ AddingOK)
                   \/ AtPlaceholder
  /\ at = "new" => /\ rows = view /\ AddingOK /\ Len(view) < Len(header.names)
                   /\ view = <<>> \/ AtEnd
  /\ at = "resolve" => /\ rows = view /\ AtEnd
                       /\ Resolving(header.names, before, Matching, view)
LiveOK ==
  /\ at \in Early => Untouched
  /\ asking => at = "confirm"
  /\ DialogOK

HeaderInv ==
  /\ Asked /\ RowsOK /\ Places
  /\ header.names = <<>> => Untouched
  /\ ApproversOnTheWay
  /\ Live => LiveOK

-----------------------------------------------------------------------------
(* Sequences.                                                              *)

(* Induction over the natural numbers, for a set.                          *)
LEMMA SetInduction ==
  ASSUME NEW S, 0 \in S, \A n \in Nat : n \in S => n + 1 \in S
  PROVE  Nat \subseteq S
<1> DEFINE T == Nat \ S
           R == OpToRel(<, Nat)
<1>1. SUFFICES ASSUME T # {} PROVE FALSE
  OBVIOUS
<1>2. \E x \in T : \A y \in T : ~(<<y, x>> \in R)
  BY <1>1, NatLessThanWellFounded, WFMin
<1>3. \A x, y \in Nat : y < x => <<y, x>> \in R
  BY DEF OpToRel
<1> HIDE DEF R
<1>4. PICK x \in T : \A y \in T : ~(<<y, x>> \in R)
  BY <1>2
<1>5. \A y \in T : ~(y < x)
  BY <1>3, <1>4
<1>6. x # 0 /\ x - 1 \in Nat
  BY <1>4
<1>7. x - 1 \notin T
  BY <1>5, <1>6
<1> QED
  BY <1>4, <1>6, <1>7

LEMMA SeqIntro ==
  ASSUME NEW S, NEW n \in Nat, NEW f \in [1 .. n -> S]
  PROVE  f \in Seq(S) /\ Len(f) = n /\ DOMAIN f = 1 .. n
OBVIOUS

(* Some start of a list matches the names furthest, the next worker not.   *)
LEMMA Furthest ==
  ASSUME NEW names \in Seq(Approver), NEW list \in Seq(Workers)
  PROVE  \E n \in 0 .. Len(list) :
           /\ Starts(names, list, n)
           /\ n < Len(list) /\ n < Len(names) => list[n + 1] \notin names[n + 1].who
<1> SUFFICES ASSUME \A n \in 0 .. Len(list) :
                      Starts(names, list, n) =>
                        /\ n < Len(list) /\ n < Len(names)
                        /\ list[n + 1] \in names[n + 1].who
             PROVE  FALSE
  OBVIOUS
<1> DEFINE S == {n \in Nat : n <= Len(list) /\ Starts(names, list, n)}
<1>1. 0 \in S
  BY DEF Starts
<1>2. ASSUME NEW n \in Nat, n \in S PROVE n + 1 \in S
  <2>1. n < Len(list) /\ n < Len(names) /\ list[n + 1] \in names[n + 1].who
    BY <1>2
  <2>2. \A i \in 1 .. n : list[i] \in names[i].who
    BY <1>2 DEF Starts
  <2>3. \A i \in 1 .. (n + 1) : list[i] \in names[i].who
    BY <2>1, <2>2
  <2> QED
    BY <2>1, <2>3 DEF Starts
<1>3. Len(list) + 1 \in Nat /\ Len(list) + 1 \notin S
  OBVIOUS
<1> HIDE DEF S
<1> QED
  BY <1>1, <1>2, <1>3, SetInduction

(* Matching is the longest start that matches, and Kept of the approvers   *)
(* the report had is the same.                                             *)
LEMMA MatchingIs ==
  ASSUME Asked
  PROVE  Best(header.names, before, Matching) /\ Kept(before) = Matching
<1> DEFINE names == header.names
<1>1. names \in Seq(Approver) /\ before \in Seq(Workers)
  BY DEF Asked
<1>2. PICK n \in 0 .. Len(before) :
        /\ Starts(names, before, n)
        /\ n < Len(before) /\ n < Len(names) => before[n + 1] \notin names[n + 1].who
  BY <1>1, Furthest
<1>3. ASSUME NEW k \in 0 .. Len(before), Starts(names, before, k) PROVE k <= n
  <2> SUFFICES ASSUME n < k PROVE FALSE
    BY <1>2
  <2>1. n + 1 \in 1 .. k /\ n < Len(before) /\ n < Len(names)
    BY <1>1, <1>3 DEF Starts
  <2> QED
    BY <1>2, <1>3, <2>1 DEF Starts
<1>4. Best(names, before, n)
  BY <1>2, <1>3 DEF Best
<1>5. \A k \in 0 .. Len(before) : Best(names, before, k) => k = n
  BY <1>2, <1>4 DEF Best
<1>6. \A k : StartMatches(k) <=> Starts(names, before, k)
  BY DEF StartMatches, Starts, Matches
<1>7. Matching = n
  <2>1. \A k \in 0 .. Len(before) :
          (StartMatches(k) /\ \A m \in 0 .. Len(before) : StartMatches(m) => m <= k)
          <=> Best(names, before, k)
    BY <1>6 DEF Best
  <2> QED
    BY <1>2, <1>4, <1>5, <2>1 DEF Matching
<1>8. Kept(before) = n
  <2> DEFINE P(k) == /\ k <= Len(names)
                     /\ \A i \in 1 .. k : before[i] \in names[i].who
                     /\ k < Len(before) /\ k < Len(names) =>
                          before[k + 1] \notin names[k + 1].who
  <2>1. P(n)
    BY <1>2 DEF Starts
  <2>2. ASSUME NEW k \in 0 .. Len(before), P(k) PROVE k = n
    <3>1. k <= n
      BY <1>3, <2>2 DEF Starts
    <3>2. ASSUME k < n PROVE FALSE
      <4>1. k + 1 \in 1 .. n /\ k < Len(before) /\ k < Len(names)
        BY <1>1, <1>2, <3>2 DEF Starts
      <4>2. before[k + 1] \in names[k + 1].who
        BY <1>2, <4>1 DEF Starts
      <4> QED
        BY <2>2, <4>1, <4>2
    <3> QED
      BY <1>2, <3>1, <3>2
  <2>3. Kept(before) = CHOOSE k \in 0 .. Len(before) : P(k)
    BY DEF Kept, Matches
  <2> HIDE DEF P
  <2> QED
    BY <1>2, <2>1, <2>2, <2>3
<1> QED
  BY <1>4, <1>7, <1>8

(* The workers of a list of rows.                                          *)
LEMMA RowFields == \A row \in Row : row.id \in Nat \ {0} /\ row.worker \in Workers \cup {Blank}
  BY DEF Row

LEMMA WorkersAre ==
  ASSUME NEW v \in Seq(Row)
  PROVE  /\ WorkersOf(v) \in Seq(Workers \cup {Blank})
         /\ Len(WorkersOf(v)) = Len(v) /\ DOMAIN WorkersOf(v) = 1 .. Len(v)
         /\ \A i \in 1 .. Len(v) : WorkersOf(v)[i] = v[i].worker
<1>1. DOMAIN v = 1 .. Len(v) /\ Len(v) \in Nat
  OBVIOUS
<1>2. \A i \in 1 .. Len(v) : v[i].worker \in Workers \cup {Blank}
  <2>1. \A i \in 1 .. Len(v) : v[i] \in Row
    BY <1>1
  <2> QED
    BY <2>1, RowFields
<1>3. WorkersOf(v) = [i \in 1 .. Len(v) |-> v[i].worker]
  BY <1>1 DEF WorkersOf
<1>4. WorkersOf(v) \in [1 .. Len(v) -> Workers \cup {Blank}]
  BY <1>2, <1>3
<1>5. /\ WorkersOf(v) \in Seq(Workers \cup {Blank})
      /\ Len(WorkersOf(v)) = Len(v) /\ DOMAIN WorkersOf(v) = 1 .. Len(v)
  BY <1>1, <1>4, SeqIntro
<1> QED
  BY <1>3, <1>5

LEMMA WorkersOfStart ==
  ASSUME NEW v \in Seq(Row), NEW n \in 0 .. Len(v)
  PROVE  /\ SubSeq(v, 1, n) \in Seq(Row) /\ Len(SubSeq(v, 1, n)) = n
         /\ WorkersOf(SubSeq(v, 1, n)) = SubSeq(WorkersOf(v), 1, n)
<1> DEFINE f == SubSeq(v, 1, n)
<1>1. f \in Seq(Row) /\ Len(f) = n /\ \A i \in 1 .. n : f[i] = v[i]
  OBVIOUS
<1>2. /\ WorkersOf(f) \in Seq(Workers \cup {Blank}) /\ Len(WorkersOf(f)) = n
      /\ \A i \in 1 .. n : WorkersOf(f)[i] = v[i].worker
  BY <1>1, WorkersAre
<1>3. /\ WorkersOf(v) \in Seq(Workers \cup {Blank}) /\ Len(WorkersOf(v)) = Len(v)
      /\ \A i \in 1 .. n : WorkersOf(v)[i] = v[i].worker
  BY WorkersAre
<1> HIDE DEF f
<1>4. DEFINE w == WorkersOf(v)
             u == WorkersOf(f)
<1> HIDE DEF w, u
<1>5. /\ w \in Seq(Workers \cup {Blank}) /\ Len(w) = Len(v) /\ u \in Seq(Workers \cup {Blank})
      /\ Len(u) = n /\ \A i \in 1 .. n : u[i] = w[i]
  BY <1>2, <1>3 DEF u, w
<1>6. u = SubSeq(w, 1, n)
  BY <1>5
<1> QED
  BY <1>1, <1>6 DEF u, w, f

(* The rows that are saved: all of them, or all but the last.              *)
LEMMA FilledAll ==
  ASSUME NEW v \in Seq(Row), \A i \in 1 .. Len(v) : v[i].worker # Blank
  PROVE  Blanks(v) = {} /\ Filled(v) = v
  BY DEF Blanks, Filled

LEMMA FilledStart ==
  ASSUME NEW v \in Seq(Row), v # <<>>, v[Len(v)].worker = Blank,
         \A i \in 1 .. (Len(v) - 1) : v[i].worker # Blank
  PROVE  Filled(v) = SubSeq(v, 1, Len(v) - 1)
<1>1. Blanks(v) = {Len(v)}
  BY DEF Blanks
<1>2. Filled(v) = RemoveAt(v, Len(v))
  BY <1>1 DEF Filled
<1> QED
  BY <1>2 DEF RemoveAt

(* What is good is of workers, and is on the way, as are the starts of the *)
(* list and what is good followed by one more, while that is resolved.     *)
LEMMA GoodIs ==
  ASSUME NEW names \in Seq(Approver), NEW list \in Seq(Workers), NEW m \in 0 .. Len(list),
         NEW S, NEW s \in Seq(S), Good(names, list, m, s)
  PROVE  /\ \A i \in 1 .. Len(s) : s[i] \in Workers
         /\ \A trying \in BOOLEAN : Way(names, list, m, s, trying)
<1>1. ASSUME NEW i \in 1 .. Len(s) PROVE s[i] \in Workers
  <2>1. i <= m => list[i] \in Workers
    OBVIOUS
  <2>2. i \in 1 .. Len(names) /\ names[i].who \subseteq Workers
    <3>1. Len(s) <= Len(names)
      BY DEF Good
    <3>2. i \in 1 .. Len(names) /\ names[i] \in Approver
      BY <3>1
    <3> QED
      BY <3>2 DEF Approver
  <2> QED
    BY <2>1, <2>2 DEF Good
<1>2. ASSUME NEW trying \in BOOLEAN PROVE Way(names, list, m, s, trying)
  <2>1. Len(s) >= m /\ Len(s) <= Len(names)
    BY DEF Good
  <2>2. \A i \in 1 .. Len(s) : \/ i <= m /\ s[i] = list[i]
                               \/ i > m /\ s[i] \in names[i].who
    BY DEF Good
  <2> QED
    BY <2>1, <2>2 DEF Way
<1> QED
  BY <1>1, <1>2

LEMMA StartIsGood ==
  ASSUME NEW names \in Seq(Approver), NEW list \in Seq(Workers), NEW m, Best(names, list, m)
  PROVE  Good(names, list, m, SubSeq(list, 1, m))
<1>1. m \in 0 .. Len(list) /\ m <= Len(names)
  BY DEF Best, Starts
<1>2. Len(SubSeq(list, 1, m)) = m /\ \A i \in 1 .. m : SubSeq(list, 1, m)[i] = list[i]
  BY <1>1
<1> QED
  BY <1>1, <1>2 DEF Good

LEMMA StartIsWay ==
  ASSUME NEW names, NEW list \in Seq(Workers), NEW m \in Nat, NEW n \in m .. Len(list),
         NEW trying
  PROVE  Way(names, list, m, SubSeq(list, 1, n), trying)
<1>1. n \in 0 .. Len(list) /\ Len(SubSeq(list, 1, n)) = n
  OBVIOUS
<1> QED
  BY <1>1 DEF Way

LEMMA OneMoreIsWay ==
  ASSUME NEW names \in Seq(Approver), NEW list \in Seq(Workers), NEW m \in 0 .. Len(list),
         NEW S, NEW s \in Seq(S), NEW n \in Nat, Len(s) = n + 1, n + 1 <= Len(names),
         Good(names, list, m, SubSeq(s, 1, n))
  PROVE  /\ Way(names, list, m, s, TRUE)
         /\ s[n + 1] \in names[n + 1].who => Good(names, list, m, s)
<1> DEFINE f == SubSeq(s, 1, n)
<1>1. Len(f) = n /\ \A i \in 1 .. n : f[i] = s[i]
  OBVIOUS
<1> HIDE DEF f
<1>2. n >= m /\ \A i \in 1 .. n : IF i <= m THEN s[i] = list[i] ELSE s[i] \in names[i].who
  BY <1>1 DEF Good, f
<1>3. \A i \in 1 .. Len(s) : i \in 1 .. n \/ (i = n + 1 /\ i > m /\ i = Len(s))
  BY <1>2
<1>4. Way(names, list, m, s, TRUE)
  <2>1. \A i \in 1 .. Len(s) : \/ i <= m /\ s[i] = list[i]
                               \/ i > m /\ s[i] \in names[i].who
                               \/ i > m /\ i = Len(s)
    BY <1>2, <1>3
  <2> QED
    BY <1>2, <2>1 DEF Way
<1>5. ASSUME s[n + 1] \in names[n + 1].who PROVE Good(names, list, m, s)
  <2>1. \A i \in 1 .. Len(s) : IF i <= m THEN s[i] = list[i] ELSE s[i] \in names[i].who
    BY <1>2, <1>3, <1>5
  <2> QED
    BY <1>2, <2>1 DEF Good
<1> QED
  BY <1>4, <1>5

-----------------------------------------------------------------------------
(* What Dynamics may do with a request.                                    *)

(* The rows that remain of a reloaded list, in which the last was active.  *)
LEMMA DeletedIs ==
  ASSUME RowsOK, rows # <<>>, current = rows[Len(rows)].id, Deleted
  PROVE  /\ RowsOK'
         /\ Len(rows') = Len(rows) - 1
         /\ WorkersOf(rows') = SubSeq(WorkersOf(rows), 1, Len(rows) - 1)
<1> DEFINE n == Len(rows) - 1
           list == SubSeq(rows, 1, n)
<1>1. /\ rows \in Seq(Row) /\ lastId \in Nat /\ Distinct(rows, lastId)
      /\ n \in 0 .. Len(rows) /\ Len(rows) = n + 1 /\ DOMAIN rows = 1 .. (n + 1)
  <2>1. rows \in Seq(Row) /\ lastId \in Nat /\ Distinct(rows, lastId)
    BY DEF RowsOK
  <2> QED
    BY <2>1
<1>2. PICK i \in DOMAIN rows : Active(i) /\ Reloaded(RemoveAt(rows, i))
  BY DEF Deleted
<1>3. i = Len(rows)
  BY <1>1, <1>2 DEF Active, Distinct
<1>4. RemoveAt(rows, i) = list
  BY <1>1, <1>3 DEF RemoveAt
<1>5. list \in Seq(Row) /\ Len(list) = n /\ WorkersOf(list) = SubSeq(WorkersOf(rows), 1, n)
  BY <1>1, WorkersOfStart
<1> HIDE DEF list, n
<1>6. /\ rows' = [j \in DOMAIN list |-> [list[j] EXCEPT !.id = lastId + j]]
      /\ lastId' = lastId + n
      /\ current' \in IF list = <<>> THEN {0} ELSE IdsOf(rows')
  BY <1>2, <1>4, <1>5 DEF Reloaded
<1>7. n \in Nat /\ DOMAIN list = 1 .. n
  BY <1>1, <1>5
<1>8. \A j \in 1 .. n : /\ [list[j] EXCEPT !.id = lastId + j] \in Row
                        /\ [list[j] EXCEPT !.id = lastId + j].id = lastId + j
                        /\ [list[j] EXCEPT !.id = lastId + j].worker = list[j].worker
  <2> SUFFICES ASSUME NEW j \in 1 .. n
               PROVE  /\ [list[j] EXCEPT !.id = lastId + j] \in Row
                      /\ [list[j] EXCEPT !.id = lastId + j].id = lastId + j
                      /\ [list[j] EXCEPT !.id = lastId + j].worker = list[j].worker
    OBVIOUS
  <2>1. list[j] \in Row /\ lastId + j \in Nat \ {0}
    BY <1>1, <1>5, <1>7
  <2> QED
    BY <2>1 DEF Row
<1>9. rows' \in [1 .. n -> Row]
  BY <1>6, <1>7, <1>8
<1>10. rows' \in Seq(Row) /\ Len(rows') = n /\ DOMAIN rows' = 1 .. n
  BY <1>7, <1>9, SeqIntro
<1>11. \A j \in 1 .. n : rows'[j].id = lastId + j /\ rows'[j].worker = list[j].worker
  BY <1>6, <1>7, <1>8
<1>12. lastId' \in Nat
  BY <1>1, <1>6, <1>7
<1>13. current' \in Nat
  <2>1. \A j \in 1 .. n : rows'[j].id \in Nat
    BY <1>1, <1>7, <1>11
  <2> QED
    BY <1>6, <1>10, <2>1 DEF IdsOf
<1>14. Distinct(rows', lastId')
  <2>1. \A j, k \in 1 .. n : rows'[j].id = rows'[k].id => j = k
    BY <1>1, <1>7, <1>11
  <2>2. \A j \in 1 .. n : rows'[j].id <= lastId'
    BY <1>1, <1>6, <1>7, <1>11
  <2> QED
    BY <1>10, <2>1, <2>2 DEF Distinct
<1>15. WorkersOf(rows') = WorkersOf(list)
  BY <1>7, <1>10, <1>11 DEF WorkersOf
<1> QED
  BY <1>1, <1>5, <1>7, <1>10, <1>12, <1>13, <1>14, <1>15 DEF RowsOK, n

(* A new row comes last when the last one is active.                       *)
Inserted ==
  /\ LET n == IF rows = <<>> THEN 0 ELSE CHOOSE i \in DOMAIN rows : Active(i)
     IN rows' = InsertAt(rows, n + 1, [id |-> lastId + 1, worker |-> Blank])
  /\ lastId' = lastId + 1 /\ current' = lastId + 1

LEMMA InsertedIs ==
  ASSUME RowsOK, rows = <<>> \/ current = rows[Len(rows)].id, Inserted
  PROVE  /\ RowsOK'
         /\ rows' = Append(rows, [id |-> lastId + 1, worker |-> Blank])
         /\ current' = lastId + 1
<1> DEFINE row == [id |-> lastId + 1, worker |-> Blank]
<1>1. /\ rows \in Seq(Row) /\ lastId \in Nat /\ Distinct(rows, lastId)
      /\ DOMAIN rows = 1 .. Len(rows) /\ Len(rows) \in Nat
  <2>1. rows \in Seq(Row) /\ lastId \in Nat /\ Distinct(rows, lastId)
    BY DEF RowsOK
  <2> QED
    BY <2>1
<1>2. row \in Row /\ row.id = lastId + 1
  BY <1>1 DEF Row
<1>3. (IF rows = <<>> THEN 0 ELSE CHOOSE i \in DOMAIN rows : Active(i)) = Len(rows)
  <2>1. CASE rows = <<>>
    BY <2>1
  <2>2. CASE rows # <<>>
    <3>1. Len(rows) \in DOMAIN rows /\ Active(Len(rows))
      BY <1>1, <2>2 DEF Active
    <3>2. \A i \in DOMAIN rows : Active(i) => i = Len(rows)
      BY <1>1, <3>1 DEF Active, Distinct
    <3> QED
      BY <2>2, <3>1, <3>2
  <2> QED
    BY <2>1, <2>2
<1> HIDE DEF row
<1>4. rows' = InsertAt(rows, Len(rows) + 1, row)
  BY <1>3 DEF Inserted, row
<1>5. rows' = Append(rows, row)
  <2>1. rows' = SubSeq(rows, 1, (Len(rows) + 1) - 1) \o <<row>>
                \o SubSeq(rows, Len(rows) + 1, Len(rows))
    BY <1>4 DEF InsertAt
  <2>2. (Len(rows) + 1) - 1 = Len(rows) /\ SubSeq(rows, 1, Len(rows)) = rows
    BY <1>1
  <2>3. SubSeq(rows, Len(rows) + 1, Len(rows)) = <<>>
    BY <1>1
  <2>4. rows' = rows \o <<row>> \o <<>>
    BY <2>1, <2>2, <2>3
  <2>5. rows \o <<row>> = Append(rows, row) /\ Append(rows, row) \in Seq(Row)
    BY <1>1, <1>2
  <2>6. \A s \in Seq(Row) : s \o <<>> = s
    OBVIOUS
  <2> QED
    BY <2>4, <2>5, <2>6
<1>6. /\ rows' \in Seq(Row) /\ DOMAIN rows' = 1 .. (Len(rows) + 1)
      /\ rows'[Len(rows) + 1] = row /\ \A i \in 1 .. Len(rows) : rows'[i] = rows[i]
  BY <1>1, <1>2, <1>5
<1>7. lastId' = lastId + 1 /\ current' = lastId + 1
  BY DEF Inserted
<1>8. \A i \in 1 .. Len(rows) : rows[i].id <= lastId /\ rows[i].id \in Nat
  <2>1. \A i \in 1 .. Len(rows) : rows[i] \in Row
    BY <1>1
  <2> QED
    BY <1>1, <2>1, RowFields DEF Distinct
<1>9. Distinct(rows', lastId')
  <2>1. ASSUME NEW i \in 1 .. (Len(rows) + 1), NEW j \in 1 .. (Len(rows) + 1),
               rows'[i].id = rows'[j].id
        PROVE  i = j
    <3>1. CASE i \in 1 .. Len(rows) /\ j \in 1 .. Len(rows)
      BY <1>1, <1>6, <2>1, <3>1 DEF Distinct
    <3>2. CASE i = Len(rows) + 1 /\ j \in 1 .. Len(rows)
      BY <1>1, <1>2, <1>6, <1>8, <2>1, <3>2
    <3>3. CASE j = Len(rows) + 1 /\ i \in 1 .. Len(rows)
      BY <1>1, <1>2, <1>6, <1>8, <2>1, <3>3
    <3> QED
      BY <1>1, <3>1, <3>2, <3>3
  <2>2. ASSUME NEW i \in 1 .. (Len(rows) + 1) PROVE rows'[i].id <= lastId'
    <3>1. CASE i \in 1 .. Len(rows)
      BY <1>1, <1>6, <1>7, <1>8, <3>1
    <3>2. CASE i = Len(rows) + 1
      BY <1>1, <1>2, <1>6, <1>7, <3>2
    <3> QED
      BY <1>1, <3>1, <3>2
  <2> QED
    BY <1>6, <2>1, <2>2 DEF Distinct
<1> QED
  BY <1>1, <1>5, <1>6, <1>7, <1>9 DEF RowsOK, row

(* A name is resolved in the last row when that is active.                 *)
Resolved ==
  /\ \E i \in DOMAIN rows, w \in Workers :
       Active(i) /\ rows' = [rows EXCEPT ![i].worker = w]
  /\ UNCHANGED <<current, lastId>>

LEMMA ResolvedIs ==
  ASSUME RowsOK, rows # <<>>, current = rows[Len(rows)].id, Resolved
  PROVE  /\ RowsOK'
         /\ Len(rows') = Len(rows)
         /\ rows'[Len(rows)].worker \in Workers /\ rows'[Len(rows)].id = current
         /\ \A i \in 1 .. (Len(rows) - 1) : rows'[i] = rows[i]
<1>1. /\ rows \in Seq(Row) /\ lastId \in Nat /\ current \in Nat /\ Distinct(rows, lastId)
      /\ DOMAIN rows = 1 .. Len(rows) /\ Len(rows) \in Nat \ {0}
  <2>1. rows \in Seq(Row) /\ lastId \in Nat /\ current \in Nat /\ Distinct(rows, lastId)
    BY DEF RowsOK
  <2> QED
    BY <2>1
<1>2. PICK i \in DOMAIN rows, w \in Workers :
        Active(i) /\ rows' = [rows EXCEPT ![i].worker = w]
  BY DEF Resolved
<1>3. i = Len(rows)
  BY <1>1, <1>2 DEF Active, Distinct
<1>4. PICK n \in Nat \ {0} : n = Len(rows)
  BY <1>1
<1>5. rows[n] \in Row /\ [rows[n] EXCEPT !.worker = w] \in Row
  <2>1. rows[n] \in Row
    BY <1>1, <1>4
  <2> QED
    BY <2>1 DEF Row
<1>6. /\ DOMAIN rows' = 1 .. n /\ rows'[n] = [rows[n] EXCEPT !.worker = w]
      /\ \A j \in 1 .. (n - 1) : rows'[j] = rows[j]
      /\ \A j \in 1 .. n : rows'[j] \in Row
  BY <1>1, <1>2, <1>3, <1>4, <1>5
<1>7. rows'[n].id = rows[n].id /\ rows'[n].worker = w
  BY <1>5, <1>6 DEF Row
<1>8. rows' \in [1 .. n -> Row]
  BY <1>1, <1>2, <1>4, <1>6
<1>9. rows' \in Seq(Row) /\ Len(rows') = n
  BY <1>8, SeqIntro
<1>10. \A j \in 1 .. n : rows'[j].id = rows[j].id
  <2>1. \A j \in 1 .. n : j \in 1 .. (n - 1) \/ j = n
    OBVIOUS
  <2> QED
    BY <1>6, <1>7, <2>1
<1>11. Distinct(rows', lastId)
  BY <1>1, <1>4, <1>6, <1>10 DEF Distinct
<1>12. current' = current /\ lastId' = lastId
  BY DEF Resolved
<1>13. RowsOK'
  BY <1>1, <1>9, <1>11, <1>12 DEF RowsOK
<1> QED
  BY <1>4, <1>6, <1>7, <1>9, <1>13

(* What a request does to the rows.                                        *)
LEMMA CarryIs ==
  ASSUME RowsOK, CarryOut(at)
  PROVE  /\ \/ /\ UNCHANGED <<rows, lastId>> /\ current' \in Nat
               /\ at \notin {"row", "approvers"} => current' = current
            \/ /\ at = "approvers" /\ rows = <<>>
               /\ rows' = <<[id |-> lastId + 1, worker |-> Blank]>>
               /\ lastId' = lastId + 1 /\ current' = lastId + 1
            \/ at \in {"deleteRow", "confirm"} /\ Deleted
            \/ at = "new" /\ Inserted
            \/ at = "resolve" /\ Resolved
         /\ at \notin {"deleteRow", "confirm"} => asking' = asking
         /\ at = "deleteRow" => \/ asking' /\ UNCHANGED <<rows, lastId, current>>
                                \/ asking' = asking
<1>1. current \in Nat
  BY DEF RowsOK
<1>2. CASE UNCHANGED dynamicsHeader
  BY <1>1, <1>2 DEF dynamicsHeader
<1>3. CASE at \in HeaderSteps /\ HeaderCarry(at)
  <2>1. \A id \in IdsOf(rows) : id \in Nat
    <3>1. \A i \in DOMAIN rows : rows[i] \in Row
      BY DEF RowsOK
    <3> QED
      BY <3>1, RowFields DEF IdsOf
  <2>2. CASE at \in Fields
    BY <1>1, <1>3, <2>2 DEF HeaderCarry, Fields
  <2>3. CASE at = "edit"
    BY <1>1, <1>3, <2>3 DEF HeaderCarry, Fields
  <2>4. CASE at = "approvers"
    BY <1>1, <1>3, <2>1, <2>4 DEF HeaderCarry, Fields
  <2>5. CASE at = "row"
    BY <1>1, <1>3, <2>1, <2>5 DEF HeaderCarry, Fields
  <2>6. CASE at = "deleteRow"
    BY <1>1, <1>3, <2>6 DEF HeaderCarry, Fields
  <2>7. CASE at = "confirm"
    BY <1>1, <1>3, <2>7 DEF HeaderCarry, Fields
  <2>8. CASE at = "new"
    BY <1>1, <1>3, <2>8 DEF HeaderCarry, Fields, Inserted
  <2>9. CASE at = "resolve"
    BY <1>1, <1>3, <2>9 DEF HeaderCarry, Fields, Resolved
  <2>10. CASE at = "okDialog"
    BY <1>1, <1>3, <2>10 DEF HeaderCarry, Fields
  <2>11. CASE at = "okEdit"
    BY <1>1, <1>3, <2>11 DEF HeaderCarry, Fields
  <2>12. CASE at = "menu"
    BY <1>1, <1>3, <2>12 DEF HeaderCarry, Fields, dynamicsHeader
  <2> QED
    BY <1>3, <2>2, <2>3, <2>4, <2>5, <2>6, <2>7, <2>8, <2>9, <2>10, <2>11, <2>12
    DEF HeaderSteps, Fields
<1> QED
  BY <1>2, <1>3 DEF CarryOut, Dynamics

-----------------------------------------------------------------------------
(* What the requests of a live operation make of the approvers.            *)

LEMMA WayHere ==
  ASSUME header.names # <<>>, ApproversOnTheWay
  PROVE  Way(header.names, before, Matching, Saved, at = "resolve")
  BY DEF ApproversOnTheWay, Way, Matches

LEMMA WayThere ==
  ASSUME header.names # <<>>, UNCHANGED <<header, before>>,
         Way(header.names, before, Matching, Saved', at' = "resolve")
  PROVE  ApproversOnTheWay'
<1>1. Matching' = Matching
  BY DEF Matching, StartMatches, Matches
<1> QED
  BY <1>1 DEF ApproversOnTheWay, Way, Matches

LEMMA UntouchedThere ==
  ASSUME Asked, header.names = <<>>, UNCHANGED <<header, before>>, RowsOK', Untouched'
  PROVE  ApproversOnTheWay'
<1>1. before \in Seq(Workers) /\ rows' \in Seq(Row) /\ WorkersOf(rows') = before
  BY DEF Asked, RowsOK, Untouched
<1>2. PICK v \in Seq(Row) : v = rows'
  BY <1>1
<1>3. \A i \in 1 .. Len(v) : v[i].worker # Blank
  <2>1. Len(v) = Len(before) /\ \A i \in 1 .. Len(v) : before[i] = v[i].worker
    BY <1>1, <1>2, WorkersAre
  <2>2. \A i \in 1 .. Len(before) : before[i] \in Workers
    BY <1>1
  <2> QED
    BY <2>1, <2>2, HeaderAssumption
<1>4. Filled(v) = v
  BY <1>2, <1>3, FilledAll
<1>5. Saved' = before
  BY <1>1, <1>2, <1>4 DEF Saved
<1>6. Len(before) \in 0 .. Len(before) /\ before = SubSeq(before, 1, Len(before))
  BY <1>1
<1>7. header'.names = <<>> /\ before' = before
  OBVIOUS
<1>8. Len(Saved') >= Len(before')
  BY <1>5, <1>6, <1>7
<1>9. \E n \in 0 .. Len(before') : Saved' = SubSeq(before', 1, n)
  BY <1>5, <1>6, <1>7
<1> QED
  BY <1>7, <1>8, <1>9 DEF ApproversOnTheWay

(* Rows that all are saved.                                                *)
LEMMA SavedAll ==
  ASSUME NEW v \in Seq(Row), \A i \in 1 .. Len(v) : WorkersOf(v)[i] \in Workers
  PROVE  Filled(v) = v /\ Blanks(v) = {}
<1>1. \A i \in 1 .. Len(v) : v[i].worker # Blank
  BY WorkersAre, HeaderAssumption
<1> QED
  BY <1>1, FilledAll

LEMMA Known ==
  ASSUME Asked
  PROVE  /\ header.names \in Seq(Approver) /\ before \in Seq(Workers)
         /\ Best(header.names, before, Matching) /\ Matching \in 0 .. Len(before)
  BY MatchingIs DEF Asked, Best

(* Opening the dialog of a report without approvers makes a blank row.     *)
LEMMA Placeheld ==
  ASSUME RowsOK, rows = <<>>, rows' = <<[id |-> lastId + 1, worker |-> Blank]>>,
         lastId' = lastId + 1, current' = lastId + 1
  PROVE  RowsOK' /\ Len(rows') = 1 /\ rows'[1].worker = Blank /\ Filled(rows') = <<>>
<1> DEFINE row == [id |-> lastId + 1, worker |-> Blank]
<1>1. lastId \in Nat
  BY DEF RowsOK
<1>2. row \in Row /\ row.worker = Blank /\ row.id = lastId + 1
  BY <1>1 DEF Row
<1> HIDE DEF row
<1>3. rows' = <<row>>
  BY DEF row
<1>4. /\ rows' \in Seq(Row) /\ Len(rows') = 1 /\ rows'[1] = row
      /\ DOMAIN rows' = {1} /\ rows' # <<>>
  BY <1>2, <1>3
<1>5. Distinct(rows', lastId')
  BY <1>1, <1>2, <1>4 DEF Distinct
<1>6. PICK v \in Seq(Row) : v = rows'
  BY <1>4
<1>7. Filled(v) = SubSeq(v, 1, Len(v) - 1)
  <2>1. v # <<>> /\ v[Len(v)].worker = Blank /\ 1 .. (Len(v) - 1) = {}
    BY <1>2, <1>4, <1>6
  <2> QED
    BY <2>1, FilledStart
<1>8. SubSeq(v, 1, Len(v) - 1) = <<>>
  BY <1>4, <1>6
<1> QED
  BY <1>1, <1>2, <1>4, <1>5, <1>6, <1>7, <1>8 DEF RowsOK

LEMMA CarriedOn ==
  ASSUME HeaderInv, Live, CarryOut(at), UNCHANGED <<header, before>>
  PROVE  /\ RowsOK'
         /\ header.names = <<>> => Untouched'
         /\ header.names # <<>> =>
              Way(header.names, before, Matching, Saved', at = "resolve")
<1> DEFINE names == header.names
           m == Matching
<1>1. /\ names \in Seq(Approver) /\ before \in Seq(Workers)
      /\ Best(names, before, m) /\ m \in 0 .. Len(before)
  BY Known DEF HeaderInv
<1>2. RowsOK /\ Places /\ LiveOK /\ DialogOK /\ (names = <<>> => Untouched)
  BY DEF HeaderInv, LiveOK
<1>3. CASE UNCHANGED <<rows, lastId>> /\ current' \in Nat
  <2>1. Saved' = Saved
    BY <1>3 DEF Saved, Filled
  <2>2. RowsOK'
    BY <1>2, <1>3 DEF RowsOK
  <2>3. Untouched => Untouched'
    BY <1>3 DEF Untouched
  <2> QED
    BY <1>2, <2>1, <2>2, <2>3, WayHere DEF HeaderInv
<1>4. CASE /\ at = "approvers" /\ rows = <<>>
           /\ rows' = <<[id |-> lastId + 1, worker |-> Blank]>>
           /\ lastId' = lastId + 1 /\ current' = lastId + 1
  <2>1. RowsOK' /\ Filled(rows') = <<>>
    BY <1>2, <1>4, Placeheld
  <2>2. names # <<>> /\ before = <<>>
    BY <1>2, <1>4 DEF Places, LiveOK, Early, Untouched, WorkersOf
  <2>3. Saved' = <<>>
    BY <2>1 DEF Saved, WorkersOf
  <2>4. SubSeq(before, 1, 0) = <<>> /\ 0 \in m .. Len(before) /\ m \in Nat
    BY <1>1, <2>2
  <2>5. Way(names, before, m, <<>>, at = "resolve")
    BY <1>1, <2>4, StartIsWay
  <2> QED
    BY <2>1, <2>2, <2>3, <2>5
<1>5. CASE at \in {"deleteRow", "confirm"} /\ Deleted
  <2>1. rows = view /\ AtEnd /\ Deleting(names, before, m, view, keep)
    BY <1>2, <1>5 DEF DialogOK, DeletingOK
  <2>2. rows # <<>> /\ current = rows[Len(rows)].id
    BY <2>1 DEF AtEnd
  <2>3. /\ RowsOK' /\ Len(rows') = Len(rows) - 1
        /\ WorkersOf(rows') = SubSeq(WorkersOf(rows), 1, Len(rows) - 1)
    BY <1>2, <1>5, <2>2, DeletedIs
  <2>4. Len(rows) \in (m + 1) .. Len(before) /\ WorkersOf(rows) = SubSeq(before, 1, Len(rows))
    BY <2>1 DEF Deleting
  <2>5. PICK n \in m .. Len(before) : n = Len(rows) - 1
    <3>1. m \in Nat /\ Len(before) \in Nat
      BY <1>1
    <3> HIDE DEF m
    <3>2. Len(rows) - 1 \in m .. Len(before)
      BY <2>4, <3>1
    <3> QED
      BY <3>2
  <2>6. WorkersOf(rows') = SubSeq(before, 1, n) /\ Len(rows') = n
    BY <1>1, <2>3, <2>4, <2>5
  <2>7. PICK v \in Seq(Row) : v = rows'
    BY <2>3 DEF RowsOK
  <2>8. \A i \in 1 .. Len(v) : WorkersOf(v)[i] \in Workers
    BY <1>1, <2>5, <2>6, <2>7
  <2>9. Saved' = SubSeq(before, 1, n)
    BY <2>6, <2>7, <2>8, SavedAll DEF Saved
  <2>10. Way(names, before, m, SubSeq(before, 1, n), at = "resolve")
    BY <1>1, <2>5, StartIsWay
  <2>11. names # <<>>
    BY <1>2, <1>5 DEF Places, Dialog
  <2> QED
    BY <2>3, <2>9, <2>10, <2>11
<1>6. CASE at = "new" /\ Inserted
  <2>1. rows = view /\ Adding(names, before, m, view, keep) /\ (view = <<>> \/ AtEnd)
    BY <1>2, <1>6 DEF DialogOK, AddingOK
  <2>2. rows = <<>> \/ current = rows[Len(rows)].id
    BY <2>1 DEF AtEnd
  <2>3. RowsOK' /\ rows' = Append(rows, [id |-> lastId + 1, worker |-> Blank])
    BY <1>2, <1>6, <2>2, InsertedIs
  <2>4. rows \in Seq(Row) /\ Good(names, before, m, WorkersOf(rows))
    BY <1>2, <2>1 DEF RowsOK, Adding
  <2>5. /\ WorkersOf(rows) \in Seq(Workers \cup {Blank}) /\ Len(WorkersOf(rows)) = Len(rows)
        /\ \A i \in 1 .. Len(rows) : WorkersOf(rows)[i] = rows[i].worker
    BY <2>4, WorkersAre
  <2>6. /\ \A i \in 1 .. Len(rows) : WorkersOf(rows)[i] \in Workers
        /\ Way(names, before, m, WorkersOf(rows), at = "resolve")
    BY <1>1, <2>4, <2>5, GoodIs
  <2>7. PICK v \in Seq(Row) : v = rows'
    BY <2>3 DEF RowsOK
  <2>8. Filled(v) = rows
    <3>1. /\ Len(v) = Len(rows) + 1 /\ v[Len(v)].worker = Blank /\ v # <<>>
          /\ \A i \in 1 .. Len(rows) : v[i] = rows[i]
      BY <2>3, <2>4, <2>7
    <3>2. \A i \in 1 .. (Len(v) - 1) : v[i].worker # Blank
      BY <2>4, <2>5, <2>6, <3>1, HeaderAssumption
    <3>3. Filled(v) = SubSeq(v, 1, Len(v) - 1)
      BY <3>1, <3>2, FilledStart
    <3>4. SubSeq(v, 1, Len(v) - 1) = rows
      BY <2>4, <3>1
    <3> QED
      BY <3>3, <3>4
  <2>9. Saved' = WorkersOf(rows)
    BY <2>7, <2>8 DEF Saved
  <2>10. names # <<>>
    BY <1>2, <1>6 DEF Places, Dialog
  <2> QED
    BY <2>3, <2>6, <2>9, <2>10
<1>7. CASE at = "resolve" /\ Resolved
  <2>1. rows = view /\ AtEnd /\ Resolving(names, before, m, view)
    BY <1>2, <1>7 DEF DialogOK
  <2>2. rows # <<>> /\ current = rows[Len(rows)].id /\ rows \in Seq(Row)
    BY <1>2, <2>1 DEF AtEnd, RowsOK
  <2>3. /\ RowsOK' /\ Len(rows') = Len(rows)
        /\ rows'[Len(rows)].worker \in Workers
        /\ \A i \in 1 .. (Len(rows) - 1) : rows'[i] = rows[i]
    BY <1>2, <1>7, <2>2, ResolvedIs
  <2>4. /\ Len(rows) <= Len(names)
        /\ Good(names, before, m, SubSeq(WorkersOf(rows), 1, Len(rows) - 1))
    BY <2>1 DEF Resolving
  <2>5. PICK v \in Seq(Row) : v = rows'
    BY <2>3 DEF RowsOK
  <2>6. PICK n \in Nat : Len(rows) = n + 1
    BY <2>2
  <2>7. /\ WorkersOf(v) \in Seq(Workers \cup {Blank}) /\ Len(WorkersOf(v)) = n + 1
        /\ \A i \in 1 .. (n + 1) : WorkersOf(v)[i] = v[i].worker
    BY <2>3, <2>5, <2>6, WorkersAre
  <2>8. SubSeq(WorkersOf(rows), 1, n) = SubSeq(WorkersOf(v), 1, n)
    <3>1. SubSeq(rows, 1, n) = SubSeq(v, 1, n)
      BY <2>2, <2>3, <2>5, <2>6
    <3>2. /\ WorkersOf(SubSeq(rows, 1, n)) = SubSeq(WorkersOf(rows), 1, n)
          /\ WorkersOf(SubSeq(v, 1, n)) = SubSeq(WorkersOf(v), 1, n)
      BY <2>2, <2>3, <2>5, <2>6, WorkersOfStart
    <3> QED
      BY <3>1, <3>2
  <2>9. Good(names, before, m, SubSeq(WorkersOf(v), 1, n)) /\ n + 1 <= Len(names)
    <3>1. Len(rows) - 1 = n
      BY <2>6
    <3> QED
      BY <2>4, <2>6, <2>8, <3>1
  <2>10. Way(names, before, m, WorkersOf(v), TRUE)
    BY <1>1, <2>7, <2>9, OneMoreIsWay
  <2>11. \A i \in 1 .. Len(v) : WorkersOf(v)[i] \in Workers
    <3> DEFINE f == SubSeq(WorkersOf(v), 1, n)
    <3>1. f \in Seq(Workers \cup {Blank}) /\ Len(f) = n /\ \A i \in 1 .. n : f[i] = WorkersOf(v)[i]
      BY <2>7
    <3>2. \A i \in 1 .. n : f[i] \in Workers
      BY <1>1, <2>9, <3>1, GoodIs
    <3>3. WorkersOf(v)[n + 1] \in Workers /\ Len(v) = n + 1
      BY <2>3, <2>5, <2>6, <2>7
    <3> QED
      BY <3>1, <3>2, <3>3
  <2>12. Saved' = WorkersOf(v)
    BY <2>5, <2>11, SavedAll DEF Saved
  <2>13. names # <<>>
    BY <1>2, <1>7 DEF Places, Dialog
  <2> QED
    BY <1>7, <2>3, <2>10, <2>12, <2>13
<1>8. RowsOK
  BY DEF HeaderInv
<1> QED
  BY <1>3, <1>4, <1>5, <1>6, <1>7, <1>8, CarryIs

-----------------------------------------------------------------------------
(* Accepted answers of the dialog.                                         *)

(* From the rows as they are known, to the next request about them.        *)
LEMMA ToNext ==
  ASSUME header.names # <<>>, UNCHANGED <<header, before>>, Matching \in Nat,
         rows' \in Seq(Row), view' = rows',
         \/ Deleting(header.names, before, Matching, view', keep')
         \/ Adding(header.names, before, Matching, view', keep'),
         ToNextRow
  PROVE  DialogOK' /\ at' \in {"row", "deleteRow", "new", "okDialog"}
<1> DEFINE names == header.names
<1>1. Matching' = Matching /\ header'.names = names /\ before' = before
  BY DEF Matching, StartMatches, Matches
<1>2. at' = NextRow
  BY DEF ToNextRow, Proceed
<1>3. PICK v \in Seq(Row) : v = view' /\ v = rows'
  OBVIOUS
<1>4. Len(v) \in Nat /\ (v = <<>> <=> Len(v) = 0) /\ Len(WorkersOf(v)) = Len(v)
  BY WorkersAre
<1>5. /\ Deleting(names, before, Matching, v, keep') => DeletingOK'
      /\ Adding(names, before, Matching, v, keep') => AddingOK'
  BY <1>1, <1>3 DEF DeletingOK, AddingOK
<1>6. Deleting(names, before, Matching, v, keep') \/ Adding(names, before, Matching, v, keep')
  BY <1>3
<1>7. CASE Len(v) > keep'
  <2>1. DeletingOK'
    <3>1. ~Adding(names, before, Matching, v, keep')
      BY <1>4, <1>7 DEF Adding
    <3> QED
      BY <1>5, <1>6, <3>1
  <2>2. v # <<>>
    <3>1. Deleting(names, before, Matching, v, keep')
      BY <1>4, <1>6, <1>7 DEF Adding
    <3>2. Len(v) \in (Matching + 1) .. Len(before)
      BY <3>1 DEF Deleting
    <3> QED
      BY <1>4, <3>2
  <2>3. CASE current' = v[Len(v)].id
    <3>1. at' = "deleteRow"
      BY <1>2, <1>3, <1>7, <2>3 DEF NextRow
    <3>2. AtEnd'
      BY <1>3, <2>2, <2>3 DEF AtEnd
    <3> QED
      BY <1>3, <2>1, <3>1, <3>2 DEF DialogOK
  <2>4. CASE current' # v[Len(v)].id
    <3>1. at' = "row"
      BY <1>2, <1>3, <1>7, <2>4 DEF NextRow
    <3> QED
      BY <1>3, <2>1, <2>2, <3>1 DEF DialogOK
  <2> QED
    BY <2>3, <2>4
<1>8. CASE ~(Len(v) > keep')
  <2>1. CASE Len(v) = Len(names)
    <3>1. at' = "okDialog"
      BY <1>2, <1>3, <1>8, <2>1 DEF NextRow
    <3> QED
      BY <3>1 DEF DialogOK, Dialog
  <2>2. CASE Len(v) # Len(names) /\ Deleting(names, before, Matching, v, keep')
    <3>1. keep' = Matching /\ Len(v) \in (Matching + 1) .. Len(before)
      BY <2>2 DEF Deleting
    <3> QED
      BY <1>8, <3>1
  <2>3. CASE Len(v) # Len(names) /\ Adding(names, before, Matching, v, keep')
    <3>1. Len(v) < Len(names)
      <4>1. Len(WorkersOf(v)) \in Matching .. Len(names)
        BY <2>3 DEF Adding, Good
      <4> QED
        BY <1>4, <2>3, <4>1
    <3>2. CASE v = <<>>
      <4>1. at' = "new"
        BY <1>2, <1>3, <1>8, <2>3, <3>2 DEF NextRow
      <4> QED
        BY <1>1, <1>3, <1>5, <2>3, <3>1, <3>2, <4>1 DEF DialogOK
    <3>3. CASE v # <<>> /\ current' = v[Len(v)].id
      <4>1. at' = "new"
        BY <1>2, <1>3, <1>8, <2>3, <3>3 DEF NextRow, AtLast
      <4>2. AtEnd'
        BY <1>3, <3>3 DEF AtEnd
      <4> QED
        BY <1>1, <1>3, <1>5, <2>3, <3>1, <4>1, <4>2 DEF DialogOK
    <3>4. CASE v # <<>> /\ current' # v[Len(v)].id
      <4>1. at' = "row"
        BY <1>2, <1>3, <1>8, <2>3, <3>4 DEF NextRow, AtLast
      <4> QED
        BY <1>3, <1>5, <2>3, <3>4, <4>1 DEF DialogOK
    <3> QED
      BY <3>2, <3>3, <3>4
  <2> QED
    BY <1>6, <2>1, <2>2, <2>3
<1> QED
  BY <1>7, <1>8

(* The blank row of a report without approvers is taken over once active.  *)
LEMMA PlaceTaken ==
  ASSUME header.names # <<>>, Asked, UNCHANGED <<header, before>>, before = <<>>,
         rows' \in Seq(Row), Len(rows') = 1, rows'[1].worker = Blank, view' = rows',
         current' = rows'[1].id, at' = "resolve"
  PROVE  DialogOK'
<1> DEFINE names == header.names
<1>1. Matching' = Matching /\ header'.names = names /\ before' = before
  BY DEF Matching, StartMatches, Matches
<1>2. /\ names \in Seq(Approver) /\ before \in Seq(Workers)
      /\ Matching = 0 /\ Best(names, before, Matching)
  BY Known
<1>3. PICK v \in Seq(Row) : v = view' /\ v = rows'
  OBVIOUS
<1>4. v # <<>> /\ Len(v) = 1 /\ Len(v) <= Len(names) /\ v[Len(v)].worker = Blank
  <2>1. Len(v) = 1 /\ v # <<>> /\ v[1].worker = Blank
    BY <1>3
  <2>2. \A list \in Seq(Approver) : list # <<>> => Len(list) \in Nat \ {0}
    OBVIOUS
  <2>3. Len(names) \in Nat \ {0}
    BY <1>2, <2>2
  <2> QED
    BY <2>1, <2>3
<1>5. SubSeq(WorkersOf(v), 1, Len(v) - 1) = SubSeq(before, 1, Matching)
  <2>1. WorkersOf(v) \in Seq(Workers \cup {Blank})
    BY WorkersAre
  <2>2. SubSeq(WorkersOf(v), 1, 0) = <<>> /\ SubSeq(before, 1, 0) = <<>>
    BY <2>1
  <2>3. Len(v) - 1 = 0
    BY <1>4
  <2> QED
    BY <1>2, <2>2, <2>3
<1>6. Good(names, before, Matching, SubSeq(before, 1, Matching))
  BY <1>2, StartIsGood
<1>7. Resolving(names, before, Matching, v)
  BY <1>4, <1>5, <1>6 DEF Resolving
<1>8. AtEnd'
  BY <1>3, <1>4 DEF AtEnd
<1> QED
  BY <1>1, <1>3, <1>7, <1>8 DEF DialogOK

LEMMA AcceptApprovers ==
  ASSUME HeaderInv, Live, at = "approvers", CarryOut(at), UNCHANGED <<header, before>>, Opened
  PROVE  /\ DialogOK' /\ at' \in Dialog \cup {"okDialog"} /\ at' # "confirm"
         /\ keep' \in Nat /\ view' \in {<<>>, rows'}
         /\ at' = "okDialog" => view' = rows'
<1> DEFINE names == header.names
           m == Matching
<1>1. /\ names \in Seq(Approver) /\ before \in Seq(Workers) /\ names # <<>> /\ Asked
      /\ Best(names, before, m) /\ m \in 0 .. Len(before) /\ m \in Nat
  BY Known DEF HeaderInv, Places
<1>2. RowsOK' /\ rows' \in Seq(Row)
  BY CarriedOn DEF RowsOK
<1>3. RowsOK /\ WorkersOf(rows) = before
  BY DEF HeaderInv, LiveOK, Early, Untouched
<1>4. CASE /\ rows = <<>>
           /\ rows' = <<[id |-> lastId + 1, worker |-> Blank]>>
           /\ lastId' = lastId + 1 /\ current' = lastId + 1
  <2>1. Len(rows') = 1 /\ rows'[1].worker = Blank /\ rows' # <<>>
    BY <1>3, <1>4, Placeheld
  <2>2. before = <<>> /\ m = 0 /\ Len(before) = 0
    BY <1>1, <1>3, <1>4 DEF WorkersOf
  <2>3. Placeholder(rows') /\ keep' = 0
    BY <2>1 DEF Opened, Placeholder
  <2>4. CASE current' = rows'[1].id
    <3>1. view' = rows' /\ at' = "resolve"
      BY <2>3, <2>4 DEF Opened, Proceed
    <3> QED
      BY <1>1, <1>2, <2>1, <2>2, <2>3, <2>4, <3>1, PlaceTaken DEF Dialog
  <2>5. CASE current' # rows'[1].id
    <3>1. view' = <<>> /\ at' = NextRow
      BY <2>3, <2>5 DEF Opened, ToNextRow, Proceed
    <3>2. Len(names) # 0 /\ Len(view') = 0
      BY <1>1, <3>1
    <3>3. at' = "row"
      BY <2>1, <2>3, <2>5, <3>1, <3>2 DEF NextRow
    <3>4. AtPlaceholder'
      BY <2>1, <2>2, <2>3, <3>1 DEF AtPlaceholder
    <3>5. view' \in Seq(Row)
      BY <3>1
    <3> QED
      BY <2>3, <3>1, <3>3, <3>4, <3>5 DEF DialogOK, Dialog
  <2> QED
    BY <2>4, <2>5
<1>5. CASE rows' = rows
  <2>1. PICK v \in Seq(Row) : v = rows'
    BY <1>2
  <2>2. /\ WorkersOf(v) = before /\ Len(v) = Len(before)
        /\ \A i \in 1 .. Len(v) : v[i].worker = before[i]
    BY <1>3, <1>5, <2>1, WorkersAre
  <2>3. ~Placeholder(v)
    <3>1. ASSUME Len(v) = 1 PROVE v[1].worker # Blank
      <4>1. v[1].worker = before[1] /\ 1 \in 1 .. Len(before)
        BY <2>2, <3>1
      <4>2. before[1] \in Workers
        BY <1>1, <4>1
      <4> QED
        BY <4>1, <4>2, HeaderAssumption
    <3> QED
      BY <3>1 DEF Placeholder
  <2>4. keep' = m /\ view' = v /\ ToNextRow
    BY <1>1, <2>1, <2>2, <2>3, MatchingIs DEF Opened
  <2>5. before = SubSeq(before, 1, Len(before))
    BY <1>1
  <2>6. CASE m < Len(before)
    <3>1. Len(v) \in (m + 1) .. Len(before)
      BY <1>1, <2>2, <2>6
    <3>2. Deleting(names, before, m, v, keep')
      BY <2>2, <2>4, <2>5, <3>1 DEF Deleting
    <3> QED
      BY <1>1, <2>1, <2>4, <3>2, ToNext DEF Dialog
  <2>7. CASE m = Len(before)
    <3>1. Good(names, before, m, WorkersOf(v))
      BY <1>1, <2>2, <2>5, <2>7, StartIsGood
    <3>2. Adding(names, before, m, v, keep')
      BY <2>2, <2>4, <2>7, <3>1 DEF Adding
    <3> QED
      BY <1>1, <2>1, <2>4, <3>2, ToNext DEF Dialog
  <2> QED
    BY <1>1, <2>6, <2>7
<1> QED
  BY <1>3, <1>4, <1>5, CarryIs

LEMMA AcceptRow ==
  ASSUME HeaderInv, Live, at = "row", CarryOut(at), UNCHANGED <<header, before, keep>>,
         current' = Selected, view' = (IF view = <<>> THEN rows' ELSE view),
         IF view = <<>> THEN Proceed("resolve") ELSE ToNextRow
  PROVE  DialogOK' /\ at' \in Dialog \cup {"okDialog"} /\ at' # "confirm"
<1>1. /\ Matching \in Nat /\ header.names # <<>> /\ Asked
  BY Known DEF HeaderInv, Places, Dialog
<1>2. RowsOK /\ DialogOK
  BY DEF HeaderInv, LiveOK
<1>3. rows' = rows /\ rows \in Seq(Row)
  BY <1>2, CarryIs DEF RowsOK
<1>4. CASE view = <<>>
  <2>1. before = <<>> /\ Len(rows) = 1 /\ rows[1].worker = Blank
    BY <1>2, <1>4 DEF DialogOK, AtPlaceholder
  <2>2. view' = rows' /\ at' = "resolve" /\ current' = rows[1].id
    BY <1>4 DEF Selected, Proceed
  <2> QED
    BY <1>1, <1>3, <2>1, <2>2, PlaceTaken DEF Dialog
<1>5. CASE view # <<>>
  <2>1. rows = view /\ (DeletingOK \/ AddingOK)
    BY <1>2, <1>5 DEF DialogOK, AtPlaceholder
  <2>2. view' = rows' /\ ToNextRow /\ view' = view /\ keep' = keep
    BY <1>3, <1>5, <2>1
  <2> QED
    BY <1>1, <1>3, <2>1, <2>2, ToNext DEF DeletingOK, AddingOK, Dialog
<1> QED
  BY <1>4, <1>5

(* The start of a start of a sequence.                                     *)
LEMMA StartOfStart ==
  ASSUME NEW S, NEW s \in Seq(S), NEW n \in Nat, n + 1 <= Len(s)
  PROVE  SubSeq(SubSeq(s, 1, n + 1), 1, n) = SubSeq(s, 1, n)
OBVIOUS

LEMMA AcceptDeletion ==
  ASSUME HeaderInv, Live, at \in {"deleteRow", "confirm"}, CarryOut(at),
         UNCHANGED <<header, before, keep>>, LastDeleted, view' = rows', ToNextRow
  PROVE  DialogOK' /\ at' \in Dialog \cup {"okDialog"} /\ at' # "confirm"
<1> DEFINE names == header.names
           m == Matching
<1>1. /\ names \in Seq(Approver) /\ before \in Seq(Workers) /\ names # <<>>
      /\ Best(names, before, m) /\ m \in 0 .. Len(before) /\ m \in Nat
  BY Known DEF HeaderInv, Places, Dialog
<1>2. RowsOK' /\ rows' \in Seq(Row)
  BY CarriedOn DEF RowsOK
<1>3. view \in Seq(Row) /\ Deleting(names, before, m, view, keep)
  BY DEF HeaderInv, LiveOK, DialogOK, Dialog, DeletingOK
<1>4. /\ keep = m /\ Len(view) \in (m + 1) .. Len(before)
      /\ WorkersOf(view) = SubSeq(before, 1, Len(view))
  BY <1>3 DEF Deleting
<1>5. PICK n \in m .. Len(before) : Len(view) = n + 1 /\ n + 1 <= Len(before)
  <2>1. Len(before) \in Nat
    BY <1>1
  <2> HIDE DEF m
  <2>2. PICK k \in (m + 1) .. Len(before) : k = Len(view)
    BY <1>4
  <2>3. k - 1 \in m .. Len(before) /\ k = (k - 1) + 1 /\ k <= Len(before)
    BY <1>1, <2>1
  <2> QED
    BY <2>2, <2>3
<1>6. PICK v \in Seq(Row) : v = rows'
  BY <1>2
<1>7. WorkersOf(v) = SubSeq(before, 1, n) /\ Len(v) = n
  <2>1. WorkersOf(v) = SubSeq(WorkersOf(view), 1, Len(view) - 1)
    BY <1>6 DEF LastDeleted
  <2>2. SubSeq(SubSeq(before, 1, n + 1), 1, n) = SubSeq(before, 1, n)
    <3>1. n \in Nat
      <4> HIDE DEF m
      <4> QED
        BY <1>1, <1>5
    <3> QED
      BY <1>1, <1>5, <3>1, StartOfStart
  <2>3. WorkersOf(v) = SubSeq(before, 1, n)
    <3>1. (n + 1) - 1 = n
      BY <1>1, <1>5
    <3> QED
      BY <1>4, <1>5, <2>1, <2>2, <3>1
  <2>4. Len(SubSeq(before, 1, n)) = n
    BY <1>1, <1>5
  <2> QED
    BY <2>3, <2>4, WorkersAre
<1>8. CASE n = m
  <2>1. Good(names, before, m, WorkersOf(v))
    BY <1>1, <1>7, <1>8, StartIsGood
  <2>2. Adding(names, before, m, v, keep')
    BY <1>4, <1>7, <1>8, <2>1 DEF Adding
  <2> QED
    BY <1>1, <1>6, <2>2, ToNext DEF Dialog
<1>9. CASE n > m
  <2>1. Len(v) \in (m + 1) .. Len(before)
    BY <1>1, <1>5, <1>7, <1>9
  <2>2. Deleting(names, before, m, v, keep')
    BY <1>4, <1>7, <2>1 DEF Deleting
  <2> QED
    BY <1>1, <1>6, <2>2, ToNext DEF Dialog
<1> QED
  BY <1>1, <1>5, <1>8, <1>9

LEMMA AcceptNew ==
  ASSUME HeaderInv, Live, at = "new", CarryOut(at), UNCHANGED <<header, before>>,
         HeaderAccept(AfterHeader)
  PROVE  DialogOK' /\ at' = "resolve"
<1> DEFINE names == header.names
           m == Matching
<1>1. /\ names \in Seq(Approver) /\ before \in Seq(Workers) /\ names # <<>>
      /\ m \in 0 .. Len(before) /\ m \in Nat
  BY Known DEF HeaderInv, Places, Dialog
<1>2. /\ RowsOK /\ rows = view /\ Adding(names, before, m, view, keep)
      /\ Len(view) < Len(names) /\ (view = <<>> \/ AtEnd)
  BY DEF HeaderInv, LiveOK, DialogOK, AddingOK
<1>3. /\ current' \in IdsOf(rows') \ IdsOf(view)
      /\ \/ view' = rows' \/ view' = Append(view, [id |-> current', worker |-> Blank])
      /\ Len(view') = Len(view) + 1 /\ view'[Len(view')].id = current'
      /\ at' = "resolve"
  BY DEF HeaderAccept, Proceed
<1>4. Inserted
  <2>1. CASE UNCHANGED <<rows, lastId>>
    BY <1>2, <1>3, <2>1
  <2> QED
    BY <1>2, <2>1, CarryIs
<1>5. /\ RowsOK' /\ rows' = Append(rows, [id |-> lastId + 1, worker |-> Blank])
      /\ current' = lastId + 1
  BY <1>2, <1>4, InsertedIs DEF AtEnd
<1>6. view' = rows'
  BY <1>2, <1>3, <1>5
<1>7. PICK v \in Seq(Row) : v = rows'
  BY <1>5 DEF RowsOK
<1>8. PICK n \in Nat : n = Len(rows)
  BY <1>2 DEF RowsOK
<1>9. /\ rows \in Seq(Row) /\ Len(v) = n + 1 /\ v # <<>> /\ v[n + 1].worker = Blank
      /\ SubSeq(v, 1, n) = rows
  <2>1. rows \in Seq(Row)
    BY <1>2 DEF RowsOK
  <2> QED
    BY <1>5, <1>7, <1>8, <2>1
<1>10. Good(names, before, m, SubSeq(WorkersOf(v), 1, n))
  <2>1. WorkersOf(SubSeq(v, 1, n)) = SubSeq(WorkersOf(v), 1, n)
    BY <1>9, WorkersOfStart
  <2> QED
    BY <1>2, <1>9, <2>1 DEF Adding
<1>11. Resolving(names, before, m, v)
  <2>1. Len(v) - 1 = n /\ Len(v) <= Len(names)
    <3>1. n < Len(names) /\ Len(names) \in Nat
      BY <1>1, <1>2, <1>8
    <3> QED
      BY <1>9, <3>1
  <2> QED
    BY <1>9, <1>10, <2>1 DEF Resolving
<1>12. AtEnd'
  BY <1>3, <1>6, <1>7, <1>9 DEF AtEnd
<1>13. Matching' = m /\ header'.names = names /\ before' = before
  BY DEF Matching, StartMatches, Matches
<1> QED
  BY <1>3, <1>6, <1>7, <1>11, <1>12, <1>13 DEF DialogOK

LEMMA AcceptResolve ==
  ASSUME HeaderInv, Live, at = "resolve", CarryOut(at), UNCHANGED <<header, before>>,
         HeaderAccept(AfterHeader)
  PROVE  /\ DialogOK' /\ at' \in Dialog \cup {"okDialog"} /\ at' # "confirm"
         /\ Way(header.names, before, Matching, Saved', FALSE) /\ view' = rows'
<1> DEFINE names == header.names
           m == Matching
<1>1. /\ names \in Seq(Approver) /\ before \in Seq(Workers) /\ names # <<>>
      /\ m \in 0 .. Len(before) /\ m \in Nat
  BY Known DEF HeaderInv, Places, Dialog
<1>2. RowsOK /\ rows = view /\ AtEnd /\ Resolving(names, before, m, view)
  BY DEF HeaderInv, LiveOK, DialogOK
<1>3. PICK n \in Nat : Len(rows) = n + 1
  <2>1. rows \in Seq(Row) /\ rows # <<>>
    BY <1>2 DEF RowsOK, AtEnd
  <2> QED
    BY <2>1
<1>4. /\ rows \in Seq(Row) /\ rows # <<>> /\ n + 1 <= Len(names)
      /\ current = rows[n + 1].id /\ rows[n + 1].worker = Blank
      /\ Good(names, before, m, SubSeq(WorkersOf(rows), 1, n))
  <2>1. (n + 1) - 1 = n
    OBVIOUS
  <2> QED
    BY <1>2, <1>3, <2>1 DEF RowsOK, AtEnd, Resolving
<1>5. /\ \E i \in DOMAIN rows' :
           /\ rows'[i].id = rows[n + 1].id
           /\ rows'[i].worker \in names[n + 1].who
           /\ view' = [rows EXCEPT ![n + 1] = rows'[i]]
      /\ keep' = Len(view') /\ ToNextRow
  BY <1>2, <1>3 DEF HeaderAccept, Matches, Name
<1>6. PICK i \in DOMAIN rows' :
        /\ rows'[i].id = rows[n + 1].id
        /\ rows'[i].worker \in names[n + 1].who
        /\ view' = [rows EXCEPT ![n + 1] = rows'[i]]
  BY <1>5
<1>7. RowsOK'
  BY CarriedOn
<1>8. PICK v \in Seq(Row) : v = rows'
  BY <1>7 DEF RowsOK
<1>9. names[n + 1].who \subseteq Workers
  <2>1. names[n + 1] \in Approver
    BY <1>1, <1>4
  <2> QED
    BY <2>1 DEF Approver
<1>10. Resolved
  <2>1. CASE UNCHANGED <<rows, lastId>>
    <3>1. i = n + 1
      BY <1>2, <1>3, <1>4, <1>6, <2>1 DEF RowsOK, Distinct
    <3> QED
      BY <1>4, <1>6, <1>9, <2>1, <3>1, HeaderAssumption
  <2> QED
    BY <1>2, <2>1, CarryIs
<1>11. /\ Len(v) = n + 1 /\ v[n + 1].id = rows[n + 1].id
       /\ \A j \in 1 .. n : v[j] = rows[j]
  <2>1. (n + 1) - 1 = n /\ current = rows[Len(rows)].id
    BY <1>3, <1>4
  <2> QED
    BY <1>2, <1>3, <1>4, <1>8, <1>10, <2>1, ResolvedIs
<1>12. i = n + 1
  <2>1. Distinct(v, lastId')
    BY <1>7, <1>8 DEF RowsOK
  <2>2. i \in DOMAIN v /\ n + 1 \in DOMAIN v /\ v[i].id = v[n + 1].id
    BY <1>6, <1>8, <1>11
  <2> QED
    BY <2>1, <2>2 DEF Distinct
<1>13. view' = v
  <2> DEFINE u == [rows EXCEPT ![n + 1] = v[n + 1]]
  <2>1. v[n + 1] \in Row
    BY <1>11
  <2>2. u \in Seq(Row) /\ Len(u) = n + 1 /\ u[n + 1] = v[n + 1]
        /\ \A j \in 1 .. n : u[j] = rows[j]
    BY <1>3, <1>4, <2>1
  <2>3. u = v
    BY <1>11, <2>2
  <2> QED
    BY <1>6, <1>8, <1>12, <2>3
<1>14. Good(names, before, m, WorkersOf(v)) /\ Len(WorkersOf(v)) = Len(v)
       /\ WorkersOf(v) \in Seq(Workers \cup {Blank})
  <2>1. /\ WorkersOf(v) \in Seq(Workers \cup {Blank}) /\ Len(WorkersOf(v)) = n + 1
        /\ WorkersOf(v)[n + 1] = v[n + 1].worker
    BY <1>11, WorkersAre
  <2>2. SubSeq(WorkersOf(rows), 1, n) = SubSeq(WorkersOf(v), 1, n)
    <3>1. SubSeq(rows, 1, n) = SubSeq(v, 1, n)
      BY <1>3, <1>4, <1>11
    <3>2. /\ WorkersOf(SubSeq(rows, 1, n)) = SubSeq(WorkersOf(rows), 1, n)
          /\ WorkersOf(SubSeq(v, 1, n)) = SubSeq(WorkersOf(v), 1, n)
      BY <1>3, <1>4, <1>11, WorkersOfStart
    <3> QED
      BY <3>1, <3>2
  <2>3. Good(names, before, m, SubSeq(WorkersOf(v), 1, n))
    BY <1>4, <2>2
  <2>4. WorkersOf(v)[n + 1] \in names[n + 1].who
    BY <1>6, <1>8, <1>12, <2>1
  <2> QED
    BY <1>1, <1>4, <1>11, <2>1, <2>3, <2>4, OneMoreIsWay
<1>15. Adding(names, before, m, v, keep')
  BY <1>5, <1>13, <1>14 DEF Adding
<1>16. DialogOK' /\ at' \in Dialog \cup {"okDialog"} /\ at' # "confirm"
  BY <1>1, <1>5, <1>8, <1>13, <1>15, ToNext DEF Dialog
<1>17. Saved' = WorkersOf(v)
  <2>1. \A j \in 1 .. Len(v) : WorkersOf(v)[j] \in Workers
    BY <1>1, <1>14, GoodIs
  <2> QED
    BY <1>8, <2>1, SavedAll DEF Saved
<1>18. Way(names, before, m, WorkersOf(v), FALSE)
  BY <1>1, <1>14, GoodIs
<1> QED
  BY <1>8, <1>13, <1>16, <1>17, <1>18

(* Each part of an accepted answer leads to a step, and leaves the asked.  *)
LEMMA AcceptedIs ==
  ASSUME Accept
  PROVE  /\ Live /\ CarryOut(at) /\ UNCHANGED <<header, before>> /\ posted' = "none"
         /\ \/ at \in HeaderSteps /\ HeaderAccept(AfterHeader)
            \/ /\ at \notin HeaderSteps /\ UNCHANGED <<rows, asking>>
               /\ at' \notin Dialog \cup {"approvers"} /\ (at' \in Early => at \in Early)
<1>1. Live /\ CarryOut(at)
  BY DEF Accept, Waiting, Live
<1>2. ASSUME at \in GridSteps, GridAccept(op = "delete", AfterOpen)
      PROVE  at' \notin Dialog \cup {"approvers"} /\ (at' \in Early => at \in Early)
  <2>1. AfterOpen \in {"menu", "lineMenu", "pickLine", "submit", "tab"}
    BY DEF AfterOpen
  <2> QED
    BY <1>2, <2>1 DEF GridAccept, Proceed, Dialog, Early, OpenSteps
<1>3. LinesAccept("save") => at' \notin Dialog \cup Early
  BY LinesProceed DEF Proceed, LinesSteps, Dialog, Early, OpenSteps
<1>4. ReceiptsAccept(op, "save") => at' \notin Dialog \cup Early
  BY ReceiptsProceed DEF Proceed, ReceiptSteps, Dialog, Early, OpenSteps
<1>5. HeaderAccept(AfterHeader) => UNCHANGED <<header, before>>
  BY DEF HeaderAccept, clientHeader
<1>6. at \in GridSteps \cup LinesSteps \cup ReceiptSteps =>
        at \notin HeaderSteps /\ UNCHANGED <<rows, asking>>
  BY <1>1 DEF GridSteps, HeaderSteps, LinesSteps, ReceiptSteps, CarryOut, Dynamics,
              dynamicsHeader
<1> QED
  BY <1>1, <1>2, <1>3, <1>4, <1>5, <1>6, AcceptFrame DEF Accept, clientHeader, Early

(* Before the dialog.                                                      *)
LEMMA AcceptEarly ==
  ASSUME HeaderInv, Live, at \in {"menu", "edit", "title", "final"}, CarryOut(at),
         UNCHANGED <<header, before>>, HeaderAccept(AfterHeader)
  PROVE  /\ at' \in {"edit", "title", "final", "approvers", "okEdit"}
         /\ at' = "approvers" => header.names # <<>>
         /\ Untouched'
<1>1. RowsOK /\ WorkersOf(rows) = before
  BY DEF HeaderInv, LiveOK, Early, Untouched
<1>2. rows' = rows
  BY <1>1, CarryIs
<1>3. \A list : /\ ToApprovers(list) \in {"approvers", "okEdit"}
                /\ ToApprovers(list) = "approvers" => header.names # <<>>
  BY DEF ToApprovers
<1>4. \A list : /\ AfterTitle(list) \in {"final", "approvers", "okEdit"}
                /\ AfterTitle(list) = "approvers" => header.names # <<>>
  BY <1>3 DEF AfterTitle
<1>5. \A list : /\ AfterEdit(list) \in {"title", "final", "approvers", "okEdit"}
                /\ AfterEdit(list) = "approvers" => header.names # <<>>
  BY <1>4 DEF AfterEdit
<1>6. /\ at' \in {"edit", "title", "final", "approvers", "okEdit"}
      /\ at' = "approvers" => header.names # <<>>
  <2>1. CASE at = "menu"
    BY <2>1 DEF HeaderAccept, Proceed
  <2>2. CASE at = "edit"
    BY <1>5, <2>2 DEF HeaderAccept, Proceed
  <2>3. CASE at = "title"
    BY <1>4, <2>3 DEF HeaderAccept, Proceed
  <2>4. CASE at = "final"
    BY <1>3, <2>4 DEF HeaderAccept, Proceed
  <2> QED
    BY <2>1, <2>2, <2>3, <2>4
<1> QED
  BY <1>1, <1>2, <1>6 DEF Untouched

(* A deletion that asks first leaves all as it is.                         *)
LEMMA AcceptAsking ==
  ASSUME HeaderInv, Live, at = "deleteRow", CarryOut(at), asking',
         UNCHANGED <<header, before, view, keep>>, at' = "confirm"
  PROVE  DialogOK'
<1>1. RowsOK /\ rows = view /\ AtEnd /\ DeletingOK /\ view \in Seq(Row) /\ ~asking
  BY DEF HeaderInv, LiveOK, DialogOK, Dialog
<1>2. UNCHANGED <<rows, current>>
  BY <1>1, CarryIs
<1>3. DeletingOK'
  <2>1. Matching' = Matching
    BY DEF Matching, StartMatches, Matches
  <2> QED
    BY <1>1, <2>1 DEF DeletingOK
<1>4. AtEnd'
  BY <1>1, <1>2 DEF AtEnd
<1> QED
  BY <1>1, <1>2, <1>3, <1>4 DEF DialogOK

LEMMA AcceptHeader ==
  ASSUME HeaderInv, Live, at \in HeaderSteps, CarryOut(at),
         UNCHANGED <<header, before>>, HeaderAccept(AfterHeader)
  PROVE  /\ at' \in Dialog \cup {"approvers"} => header.names # <<>>
         /\ LiveOK'
         /\ header.names # <<>> =>
              Way(header.names, before, Matching, Saved', at' = "resolve")
<1> DEFINE names == header.names
           Along == Way(names, before, Matching, Saved', FALSE)
<1>1. RowsOK /\ Places /\ (asking => at = "confirm")
  BY DEF HeaderInv, LiveOK
<1>2. at # "resolve" /\ names # <<>> => Along
  BY CarriedOn
<1>3. Along => Way(names, before, Matching, Saved', at' = "resolve")
  BY DEF Way
<1>4. at \notin {"deleteRow", "confirm"} => ~asking'
  BY <1>1, CarryIs
<1> HIDE DEF Along
<1>5. CASE at \in {"menu", "edit", "title", "final"}
  <2>1. /\ at' \in {"edit", "title", "final", "approvers", "okEdit"}
        /\ at' = "approvers" => names # <<>>
        /\ Untouched'
    BY <1>5, AcceptEarly
  <2>2. LiveOK'
    BY <1>4, <1>5, <2>1 DEF LiveOK, DialogOK, Dialog
  <2> QED
    BY <1>2, <1>3, <1>5, <2>1, <2>2 DEF Dialog
<1>6. CASE at \in Dialog \cup {"approvers"} /\ DialogOK' /\ Along
           /\ at' \in Dialog \cup {"okDialog"} /\ (asking' => at' = "confirm")
  <2>1. names # <<>>
    BY <1>1, <1>6 DEF Places
  <2>2. at' \notin Early
    BY <1>6 DEF Early, Dialog, OpenSteps
  <2>3. LiveOK'
    BY <1>6, <2>2 DEF LiveOK
  <2> QED
    BY <1>3, <1>6, <2>1, <2>3
<1>7. CASE at = "approvers"
  <2>1. Opened
    BY <1>7 DEF HeaderAccept
  <2>2. DialogOK' /\ at' \in Dialog \cup {"okDialog"}
    BY <1>7, <2>1, AcceptApprovers
  <2> QED
    BY <1>1, <1>2, <1>4, <1>6, <1>7, <2>2 DEF Places
<1>8. CASE at = "row"
  <2>1. /\ current' = Selected /\ view' = (IF view = <<>> THEN rows' ELSE view) /\ keep' = keep
        /\ IF view = <<>> THEN Proceed("resolve") ELSE ToNextRow
    BY <1>8 DEF HeaderAccept
  <2>2. DialogOK' /\ at' \in Dialog \cup {"okDialog"}
    BY <1>8, <2>1, AcceptRow
  <2> QED
    BY <1>1, <1>2, <1>4, <1>6, <1>8, <2>2 DEF Places, Dialog
<1>9. CASE at = "deleteRow" /\ asking'
  <2>1. at' = "confirm" /\ UNCHANGED <<view, keep>>
    BY <1>9 DEF HeaderAccept, Proceed, clientHeader
  <2>2. DialogOK'
    BY <1>9, <2>1, AcceptAsking
  <2> QED
    BY <1>1, <1>2, <1>6, <1>9, <2>1, <2>2 DEF Places, Dialog
<1>10. CASE at \in {"deleteRow", "confirm"} /\ ~asking'
  <2>1. LastDeleted /\ view' = rows' /\ keep' = keep /\ ToNextRow
    BY <1>10 DEF HeaderAccept
  <2>2. DialogOK' /\ at' \in Dialog \cup {"okDialog"}
    BY <1>10, <2>1, AcceptDeletion
  <2> QED
    BY <1>1, <1>2, <1>6, <1>10, <2>2 DEF Places, Dialog
<1>11. CASE at = "confirm" /\ asking'
  BY <1>11 DEF HeaderAccept
<1>12. CASE at = "new"
  <2>1. DialogOK' /\ at' = "resolve"
    BY <1>12, AcceptNew
  <2> QED
    BY <1>1, <1>2, <1>4, <1>6, <1>12, <2>1 DEF Places, Dialog
<1>13. CASE at = "resolve"
  <2>1. DialogOK' /\ at' \in Dialog \cup {"okDialog"} /\ Along
    BY <1>13, AcceptResolve DEF Along
  <2> QED
    BY <1>4, <1>6, <1>13, <2>1 DEF Dialog
<1>14. CASE at \in {"okDialog", "okEdit"}
  <2>1. at' \in {"okDialog", "okEdit", "newLine", "save"}
    BY <1>14 DEF HeaderAccept, Proceed, AfterHeader, ToLines
  <2>2. LiveOK'
    BY <1>4, <1>14, <2>1 DEF LiveOK, DialogOK, Dialog, Early, OpenSteps
  <2> QED
    BY <1>2, <1>3, <1>14, <2>1, <2>2 DEF Dialog
<1> QED
  BY <1>5, <1>7, <1>8, <1>9, <1>10, <1>11, <1>12, <1>13, <1>14 DEF HeaderSteps

-----------------------------------------------------------------------------
(* The steps.                                                              *)

LEMMA UntouchedIs ==
  ASSUME Asked, RowsOK, Untouched
  PROVE  ApproversOnTheWay
<1>1. before \in Seq(Workers) /\ rows \in Seq(Row) /\ WorkersOf(rows) = before
  BY DEF Asked, RowsOK, Untouched
<1>2. \A i \in 1 .. Len(rows) : WorkersOf(rows)[i] \in Workers
  <2>1. Len(rows) = Len(before)
    BY <1>1, WorkersAre
  <2> QED
    BY <1>1, <2>1
<1>3. Saved = before
  BY <1>1, <1>2, SavedAll DEF Saved
<1>4. /\ Len(before) \in 0 .. Len(before) /\ before = SubSeq(before, 1, Len(before))
      /\ Matching \in 0 .. Len(before)
  BY <1>1, Known
<1>5. \E n \in 0 .. Len(before) : Saved = SubSeq(before, 1, n)
  BY <1>3, <1>4
<1>6. Len(Saved) >= Len(before) /\ Len(Saved) >= Matching
  BY <1>1, <1>3, <1>4
<1> QED
  BY <1>5, <1>6 DEF ApproversOnTheWay

LEMMA InitHeader == Init => HeaderInv
<1> SUFFICES ASSUME Init PROVE HeaderInv
  OBVIOUS
<1>1. HeaderInit({header}, {before}) /\ before \in Seq(Workers) /\ header.names \in Seq(Approver)
  <2>1. header \in HeaderInputs \/ header = NoHeader
    BY DEF Init, HeaderInit
  <2>2. NoHeader.names \in Seq(Approver)
    BY DEF NoHeader
  <2>3. before \in ReportApprovers \/ before = <<>>
    BY DEF Init, HeaderInit
  <2>4. \A input \in HeaderInputs : input.names \in Seq(Approver)
    <3>1. \A input \in HeaderInput : input.names \in Seq(Approver)
      BY DEF HeaderInput
    <3> QED
      BY <3>1, HeaderAssumption
  <2> QED
    BY <2>1, <2>2, <2>3, <2>4, DraftsAssumption DEF Init, HeaderInit
<1>2. PICK n \in Nat : n = Len(before) /\ DOMAIN before = 1 .. n
  BY <1>1
<1>3. rows = [i \in 1 .. n |-> [id |-> i, worker |-> before[i]]]
  BY <1>1, <1>2 DEF HeaderInit
<1>4. \A i \in 1 .. n : /\ [id |-> i, worker |-> before[i]] \in Row
                        /\ [id |-> i, worker |-> before[i]].id = i
                        /\ [id |-> i, worker |-> before[i]].worker = before[i]
  <2>1. \A i \in 1 .. n : i \in Nat \ {0} /\ before[i] \in Workers
    BY <1>1, <1>2
  <2> QED
    BY <2>1 DEF Row
<1>5. rows \in Seq(Row) /\ Len(rows) = n /\ DOMAIN rows = 1 .. n
  <2>1. rows \in [1 .. n -> Row]
    BY <1>3, <1>4
  <2> QED
    BY <2>1, SeqIntro
<1>6. \A i \in 1 .. n : rows[i].id = i /\ rows[i].worker = before[i]
  BY <1>3, <1>4
<1>7. lastId = n /\ current = 0 /\ asking = FALSE
  BY <1>1, <1>2 DEF HeaderInit
<1>8. RowsOK
  <2>1. Distinct(rows, lastId)
    BY <1>5, <1>6, <1>7 DEF Distinct
  <2> QED
    BY <1>5, <1>7, <2>1 DEF RowsOK
<1>9. Untouched
  <2>1. /\ WorkersOf(rows) \in Seq(Workers \cup {Blank}) /\ Len(WorkersOf(rows)) = n
        /\ \A i \in 1 .. n : WorkersOf(rows)[i] = before[i]
    BY <1>5, <1>6, WorkersAre
  <2> QED
    BY <1>1, <1>2, <2>1 DEF Untouched
<1>10. Asked
  BY <1>1 DEF Asked
<1>11. at \notin Dialog \cup {"approvers"} /\ posted = "none"
  BY DEF Init, Dialog, ToLines
<1>12. DialogOK
  BY <1>11 DEF DialogOK, Dialog
<1> QED
  BY <1>7, <1>8, <1>9, <1>10, <1>11, <1>12, UntouchedIs DEF HeaderInv, Places, LiveOK

(* A request that is carried out keeps what does not depend on the client. *)
LEMMA Onward ==
  ASSUME HeaderInv, Live, CarryOut(at), UNCHANGED <<header, before>>,
         posted' = "none",
         at' \in Dialog \cup {"approvers"} => header.names # <<>>,
         Live' => LiveOK',
         header.names # <<>> => Way(header.names, before, Matching, Saved', at' = "resolve")
  PROVE  HeaderInv'
<1>1. RowsOK' /\ (header.names = <<>> => Untouched')
  BY CarriedOn
<1>2. Asked /\ Asked'
  BY DEF HeaderInv, Asked
<1>3. Places'
  BY DEF Places
<1>4. ApproversOnTheWay'
  BY <1>1, <1>2, UntouchedThere, WayThere
<1> QED
  BY <1>1, <1>2, <1>3, <1>4 DEF HeaderInv

LEMMA AcceptInv == HeaderInv /\ Accept => HeaderInv'
<1> SUFFICES ASSUME HeaderInv, Accept PROVE HeaderInv'
  OBVIOUS
<1>1. /\ Live /\ CarryOut(at) /\ UNCHANGED <<header, before>> /\ posted' = "none"
      /\ \/ at \in HeaderSteps /\ HeaderAccept(AfterHeader)
         \/ /\ at \notin HeaderSteps /\ UNCHANGED <<rows, asking>>
            /\ at' \notin Dialog \cup {"approvers"} /\ (at' \in Early => at \in Early)
  BY AcceptedIs
<1>2. CASE at \in HeaderSteps /\ HeaderAccept(AfterHeader)
  BY <1>1, <1>2, AcceptHeader, Onward
<1>3. CASE /\ at \notin HeaderSteps /\ UNCHANGED <<rows, asking>>
           /\ at' \notin Dialog \cup {"approvers"} /\ (at' \in Early => at \in Early)
  <2>1. (at \in Early => Untouched) /\ (asking => at = "confirm")
    BY <1>1 DEF HeaderInv, LiveOK
  <2>2. at \notin {"confirm", "resolve"} /\ at' # "resolve"
    BY <1>3 DEF HeaderSteps, Dialog
  <2>3. LiveOK'
    BY <1>1, <1>3, <2>1, <2>2 DEF LiveOK, DialogOK, Dialog, Untouched
  <2>4. header.names # <<>> =>
          Way(header.names, before, Matching, Saved', at' = "resolve")
    BY <1>1, <2>2, CarriedOn
  <2> QED
    BY <1>1, <1>3, <2>3, <2>4, Onward
<1> QED
  BY <1>1, <1>2, <1>3

(* A request may be carried out although its operation has ended, or ends. *)
LEMMA EndedInv ==
  ASSUME HeaderInv, Live, CarryOut(at), UNCHANGED <<at, header, before>>,
         ~Live', posted' = "none"
  PROVE  HeaderInv'
<1>1. at \in Dialog \cup {"approvers"} => header.names # <<>>
  BY DEF HeaderInv, Places
<1>2. header.names # <<>> => Way(header.names, before, Matching, Saved', at = "resolve")
  BY CarriedOn
<1> QED
  BY <1>1, <1>2, Onward

LEMMA RejectInv == HeaderInv /\ Reject => HeaderInv'
<1> SUFFICES ASSUME HeaderInv, Reject PROVE HeaderInv'
  OBVIOUS
<1>1. Live /\ CarryOut(at) /\ UNCHANGED <<at, header, before>>
  BY DEF Reject, Waiting, Live, End, clientHeader
<1>2. ~Live' /\ posted' = "none"
  BY EndingIsNotPending DEF Reject, Live, End
<1> QED
  BY <1>1, <1>2, EndedInv

LEMMA LateInv == HeaderInv /\ LateEffect => HeaderInv'
<1> SUFFICES ASSUME HeaderInv, LateEffect PROVE HeaderInv'
  OBVIOUS
<1>1. posted = at
  BY DEF LateEffect, HeaderInv, Places
<1>2. Live /\ CarryOut(at) /\ UNCHANGED <<at, header, before>>
  BY <1>1 DEF LateEffect, Live, clientHeader
<1>3. ~Live' /\ posted' = "none"
  BY DEF LateEffect, Live, Pending
<1> QED
  BY <1>2, <1>3, EndedInv

(* Sending, giving up and abandoning change nothing in Dynamics.           *)
LEMMA QuietInv ==
  HeaderInv /\ (Post \/ GiveUp \/ Abandon \/ UNCHANGED vars) => HeaderInv'
<1> SUFFICES ASSUME HeaderInv, Post \/ GiveUp \/ Abandon \/ UNCHANGED vars
             PROVE  HeaderInv'
  OBVIOUS
<1>1. UNCHANGED <<at, headerVars>>
  BY DEF Post, GiveUp, Abandon, Send, End, vars, exchangeVars
<1>2. UNCHANGED <<at, header, before, rows, current, lastId, asking, view, keep>>
  BY <1>1 DEF headerVars, dynamicsHeader, clientHeader
<1>3. posted' \in {"none", at'}
  BY <1>1 DEF Post, GiveUp, Abandon, Send, End, vars, exchangeVars, HeaderInv, Places
<1>4. Live' => Live
  BY DEF Post, GiveUp, Abandon, Waiting, Send, End, vars, exchangeVars, Live, Pending
<1>5. Asked' /\ RowsOK' /\ Places' /\ (header'.names = <<>> => Untouched')
  BY <1>2, <1>3 DEF HeaderInv, Asked, RowsOK, Places, Untouched
<1>6. Matching' = Matching /\ Saved' = Saved
  BY <1>2 DEF Matching, StartMatches, Matches, Saved
<1>7. ApproversOnTheWay'
  BY <1>2, <1>6 DEF HeaderInv, ApproversOnTheWay, Matches
<1>8. LiveOK => LiveOK'
  <2>1. DialogOK => DialogOK'
    BY <1>2, <1>6 DEF DialogOK, AtEnd, DeletingOK, AddingOK, AtPlaceholder
  <2> QED
    BY <1>2, <2>1 DEF LiveOK, Untouched
<1> QED
  BY <1>4, <1>5, <1>7, <1>8 DEF HeaderInv

(* ApproversOnTheWay holds of every instance: whatever approvers a report  *)
(* has, however many are asked for, whatever Dynamics ignores or resolves  *)
(* to somebody else, and whenever an operation ends or its last request is *)
(* carried out.                                                            *)
THEOREM ApproversRight == Spec => []ApproversOnTheWay
<1>1. HeaderInv /\ [Next]_vars => HeaderInv'
  BY AcceptInv, RejectInv, LateInv, QuietInv DEF Next, Stop
<1>2. HeaderInv => ApproversOnTheWay
  BY DEF HeaderInv
<1> QED
  BY InitHeader, <1>1, <1>2, PTL DEF Spec

-----------------------------------------------------------------------------
(* The expense lines: the client's belief about the report's lines is      *)
(* true.  The list tells lines apart by their keys only.  That a list      *)
(* which shows the right keys holds the right lines is a matter of         *)
(* counting, with which this part begins.                                  *)

(* The function by which FoldLeft is defined, on the sets of indices.      *)
Folds(list, dom, g) ==
  g = [s \in SUBSET dom |-> IF s = {} THEN 0 ELSE g[s \ {Max(s)}] + list[Max(s)]]

LEMMA MaxIs ==
  ASSUME NEW n \in Nat, NEW s \in SUBSET (1 .. n), s # {}
  PROVE  /\ Max(s) \in s /\ \A i \in s : i <= Max(s)
         /\ \A k \in s : (\A i \in s : i <= k) => k = Max(s)
<1>1. \E x \in s : \A y \in s : x >= y
  <2> DEFINE T == {k \in Nat : \A t \in SUBSET (1 .. k) :
                                 t # {} => \E x \in t : \A y \in t : x >= y}
  <2>1. 0 \in T
    <3>1. 1 .. 0 = {}
      OBVIOUS
    <3> QED
      BY <3>1
  <2>2. ASSUME NEW k \in Nat, k \in T PROVE k + 1 \in T
    <3> SUFFICES ASSUME NEW t \in SUBSET (1 .. (k + 1)), t # {}
                 PROVE  \E x \in t : \A y \in t : x >= y
      OBVIOUS
    <3>1. CASE k + 1 \in t
      BY <3>1
    <3>2. CASE k + 1 \notin t
      <4>1. t \in SUBSET (1 .. k)
        BY <3>2
      <4> QED
        BY <2>2, <4>1
    <3> QED
      BY <3>1, <3>2
  <2> HIDE DEF T
  <2>3. n \in T
    BY <2>1, <2>2, SetInduction
  <2> QED
    BY <2>3 DEF T
<1>2. Max(s) \in s /\ \A y \in s : Max(s) >= y
  BY <1>1 DEF Max
<1>3. PICK m \in s : m = Max(s)
  BY <1>2
<1>4. \A i \in s : i <= m
  BY <1>2, <1>3
<1>5. ASSUME NEW k \in s, \A i \in s : i <= k PROVE k = m
  <2>1. m <= k /\ k <= m /\ m \in Nat /\ k \in Nat
    BY <1>4, <1>5
  <2> QED
    BY <2>1
<1> QED
  BY <1>3, <1>4, <1>5

LEMMA FoldExists ==
  ASSUME NEW list, NEW n \in Nat
  PROVE  \E g : Folds(list, 1 .. n, g)
<1> DEFINE T == {k \in Nat : \E g : Folds(list, 1 .. k, g)}
<1>1. 0 \in T
  <2> DEFINE g == [s \in SUBSET {} |-> 0]
  <2>1. g = [s \in SUBSET {} |-> IF s = {} THEN 0 ELSE g[s \ {Max(s)}] + list[Max(s)]]
    OBVIOUS
  <2>2. 1 .. 0 = {}
    OBVIOUS
  <2> QED
    BY <2>1, <2>2 DEF Folds
<1>2. ASSUME NEW k \in Nat, k \in T PROVE k + 1 \in T
  <2>1. PICK h : Folds(list, 1 .. k, h)
    BY <1>2
  <2> DEFINE g == [s \in SUBSET (1 .. (k + 1)) |->
                    IF k + 1 \in s THEN h[s \ {k + 1}] + list[k + 1] ELSE h[s]]
  <2>2. ASSUME NEW s \in SUBSET (1 .. (k + 1))
        PROVE  g[s] = IF s = {} THEN 0 ELSE g[s \ {Max(s)}] + list[Max(s)]
    <3>1. CASE k + 1 \in s
      <4>1. Max(s) = k + 1
        <5>1. k + 1 \in Nat /\ s # {} /\ \A i \in s : i <= k + 1
          BY <3>1
        <5>2. \A j \in s : (\A i \in s : i <= j) => j = Max(s)
          BY <5>1, MaxIs
        <5> QED
          BY <3>1, <5>1, <5>2
      <4>2. s \ {k + 1} \in SUBSET (1 .. (k + 1)) /\ k + 1 \notin s \ {k + 1}
        OBVIOUS
      <4>3. g[s \ {k + 1}] = h[s \ {k + 1}]
        BY <4>2
      <4>4. g[s] = h[s \ {k + 1}] + list[k + 1]
        BY <3>1
      <4> HIDE DEF g
      <4> QED
        BY <3>1, <4>1, <4>3, <4>4
    <3>2. CASE k + 1 \notin s /\ s # {}
      <4>1. s \in SUBSET (1 .. k)
        BY <3>2
      <4>2. h[s] = h[s \ {Max(s)}] + list[Max(s)]
        BY <2>1, <3>2, <4>1 DEF Folds
      <4>3. s \ {Max(s)} \in SUBSET (1 .. (k + 1)) /\ k + 1 \notin s \ {Max(s)}
        BY <3>2
      <4>4. g[s] = h[s] /\ g[s \ {Max(s)}] = h[s \ {Max(s)}]
        BY <3>2, <4>3
      <4> HIDE DEF g
      <4> QED
        BY <3>2, <4>2, <4>4
    <3>3. CASE s = {}
      <4>1. h[s] = 0
        BY <2>1, <3>3 DEF Folds
      <4>2. g[s] = h[s]
        BY <3>3
      <4> HIDE DEF g
      <4> QED
        BY <3>3, <4>1, <4>2
    <3> QED
      BY <3>1, <3>2, <3>3
  <2>3. g = [s \in SUBSET (1 .. (k + 1)) |-> g[s]]
    OBVIOUS
  <2> HIDE DEF g
  <2>4. g = [s \in SUBSET (1 .. (k + 1)) |->
               IF s = {} THEN 0 ELSE g[s \ {Max(s)}] + list[Max(s)]]
    BY <2>2, <2>3
  <2> QED
    BY <2>4 DEF Folds
<1> HIDE DEF T
<1>3. n \in T
  BY <1>1, <1>2, SetInduction
<1> QED
  BY <1>3 DEF T

(* The running sum t of a list.                                            *)
Runs(list, t) == t[0] = 0 /\ \A i \in 1 .. Len(list) : t[i] = t[i - 1] + list[i]

LEMMA TotalRuns ==
  ASSUME NEW S, NEW list \in Seq(S)
  PROVE  \E t : Runs(list, t) /\ Total(list) = t[Len(list)]
<1> DEFINE n == Len(list)
<1>1. n \in Nat /\ DOMAIN list = 1 .. n
  OBVIOUS
<1>2. Total(list) = (CHOOSE g : Folds(list, 1 .. n, g))[1 .. n]
  <2>1. Total(list) = (CHOOSE g : Folds(list, DOMAIN list, g))[DOMAIN list]
    BY DEF Total, FoldLeft, MapThenFoldSet, Folds
  <2> QED
    BY <1>1, <2>1
<1>3. PICK g : Folds(list, 1 .. n, g) /\ Total(list) = g[1 .. n]
  <2>1. \E g : Folds(list, 1 .. n, g)
    BY <1>1, FoldExists
  <2> QED
    BY <1>2, <2>1
<1> DEFINE t == [i \in 0 .. n |-> g[1 .. i]]
<1> HIDE DEF n
<1>4. t[0] = 0
  <2>1. 1 .. 0 = {} /\ {} \in SUBSET (1 .. n)
    OBVIOUS
  <2> QED
    BY <1>1, <1>3, <2>1 DEF Folds
<1>5. ASSUME NEW i \in 1 .. n PROVE t[i] = t[i - 1] + list[i]
  <2>1. 1 .. i \in SUBSET (1 .. n) /\ 1 .. i # {} /\ i \in 1 .. i
    BY <1>1
  <2>2. Max(1 .. i) = i
    <3>1. i \in Nat /\ \A j \in 1 .. i : j <= i
      BY <1>1
    <3>2. \A k \in 1 .. i : (\A j \in 1 .. i : j <= k) => k = Max(1 .. i)
      BY <1>1, <2>1, MaxIs
    <3> QED
      BY <2>1, <3>1, <3>2
  <2>3. (1 .. i) \ {i} = 1 .. (i - 1)
    BY <1>1
  <2>4. g[1 .. i] = g[(1 .. i) \ {Max(1 .. i)}] + list[Max(1 .. i)]
    BY <1>3, <2>1 DEF Folds
  <2>5. i \in 0 .. n /\ i - 1 \in 0 .. n
    BY <1>1
  <2> QED
    BY <2>2, <2>3, <2>4, <2>5
<1>6. t[n] = g[1 .. n]
  BY <1>1
<1> QED
  BY <1>3, <1>4, <1>5, <1>6 DEF Runs, n

(* Running sums of lists of numbers that agree up to an index do so there. *)
LEMMA RunsAgree ==
  ASSUME NEW f \in Seq(Nat), NEW g \in Seq(Nat), NEW t, NEW u, Runs(f, t), Runs(g, u),
         NEW n \in Nat, n <= Len(f), n <= Len(g), \A i \in 1 .. n : f[i] = g[i]
  PROVE  t[n] = u[n] /\ t[n] \in Nat
<1> DEFINE T == {k \in Nat : k <= n => t[k] = u[k] /\ t[k] \in Nat}
<1>1. 0 \in T
  BY DEF Runs
<1>2. ASSUME NEW k \in Nat, k \in T PROVE k + 1 \in T
  <2> SUFFICES ASSUME k + 1 <= n PROVE t[k + 1] = u[k + 1] /\ t[k + 1] \in Nat
    OBVIOUS
  <2>1. t[k] = u[k] /\ t[k] \in Nat
    BY <1>2
  <2>2. k + 1 \in 1 .. n /\ k + 1 \in 1 .. Len(f) /\ k + 1 \in 1 .. Len(g) /\ (k + 1) - 1 = k
    OBVIOUS
  <2>3. f[k + 1] = g[k + 1] /\ f[k + 1] \in Nat
    BY <2>2
  <2>4. t[k + 1] = t[k] + f[k + 1] /\ u[k + 1] = u[k] + g[k + 1]
    BY <2>2 DEF Runs
  <2> QED
    BY <2>1, <2>3, <2>4
<1> HIDE DEF T
<1>3. n \in T
  BY <1>1, <1>2, SetInduction
<1> QED
  BY <1>3 DEF T

LEMMA TotalNat ==
  ASSUME NEW f \in Seq(Nat)
  PROVE  Total(f) \in Nat
<1>1. PICK t : Runs(f, t) /\ Total(f) = t[Len(f)]
  BY TotalRuns
<1>2. Len(f) \in Nat /\ Len(f) <= Len(f)
  OBVIOUS
<1>3. t[Len(f)] \in Nat
  BY <1>1, <1>2, RunsAgree
<1> QED
  BY <1>1, <1>3

LEMMA TotalEmpty == Total(<<>>) = 0
<1>1. <<>> \in Seq(Nat) /\ Len(<<>>) = 0
  OBVIOUS
<1>2. PICK t : Runs(<<>>, t) /\ Total(<<>>) = t[Len(<<>>)]
  BY <1>1, TotalRuns
<1> QED
  BY <1>1, <1>2 DEF Runs

(* One more element.                                                       *)
LEMMA TotalStep ==
  ASSUME NEW f \in Seq(Nat), NEW g \in Seq(Nat), Len(g) = Len(f) + 1,
         \A i \in 1 .. Len(f) : f[i] = g[i]
  PROVE  Total(g) = Total(f) + g[Len(g)]
<1>1. PICK t : Runs(f, t) /\ Total(f) = t[Len(f)]
  BY TotalRuns
<1>2. PICK u : Runs(g, u) /\ Total(g) = u[Len(g)]
  BY TotalRuns
<1>3. Len(f) \in Nat /\ Len(f) <= Len(f) /\ Len(f) <= Len(g)
  OBVIOUS
<1>4. t[Len(f)] = u[Len(f)]
  <2>1. \A n \in Nat : n <= Len(f) /\ n <= Len(g) /\ (\A i \in 1 .. n : f[i] = g[i])
                       => t[n] = u[n]
    BY <1>1, <1>2, RunsAgree
  <2> QED
    BY <1>3, <2>1
<1>5. Len(g) \in 1 .. Len(g) /\ Len(g) - 1 = Len(f)
  OBVIOUS
<1>6. u[Len(g)] = u[Len(g) - 1] + g[Len(g)]
  BY <1>2, <1>5 DEF Runs
<1> QED
  BY <1>1, <1>2, <1>4, <1>5, <1>6

(* The totals of the beginnings of a list.                                 *)
LEMMA Beginnings ==
  ASSUME NEW f \in Seq(Nat)
  PROVE  /\ Total(SubSeq(f, 1, 0)) = 0
         /\ Total(SubSeq(f, 1, Len(f))) = Total(f)
         /\ \A n \in 0 .. Len(f) : Total(SubSeq(f, 1, n)) \in Nat
         /\ \A n \in 1 .. Len(f) : Total(SubSeq(f, 1, n)) = Total(SubSeq(f, 1, n - 1)) + f[n]
<1>1. SubSeq(f, 1, 0) = <<>> /\ SubSeq(f, 1, Len(f)) = f
  OBVIOUS
<1>2. \A n \in 0 .. Len(f) : /\ SubSeq(f, 1, n) \in Seq(Nat) /\ Len(SubSeq(f, 1, n)) = n
                             /\ \A i \in 1 .. n : SubSeq(f, 1, n)[i] = f[i]
  OBVIOUS
<1>3. ASSUME NEW n \in 0 .. Len(f) PROVE Total(SubSeq(f, 1, n)) \in Nat
  BY <1>2, TotalNat
<1>4. ASSUME NEW n \in 1 .. Len(f)
      PROVE  Total(SubSeq(f, 1, n)) = Total(SubSeq(f, 1, n - 1)) + f[n]
  <2>1. n - 1 \in 0 .. Len(f) /\ n \in 0 .. Len(f) /\ n \in 1 .. n /\ (n - 1) + 1 = n
    OBVIOUS
  <2>2. PICK g \in Seq(Nat) : g = SubSeq(f, 1, n - 1)
    BY <1>2, <2>1
  <2>3. PICK h \in Seq(Nat) : h = SubSeq(f, 1, n)
    BY <1>2, <2>1
  <2>4. Len(h) = Len(g) + 1 /\ h[Len(h)] = f[n]
    BY <1>2, <2>1, <2>2, <2>3
  <2>5. \A i \in 1 .. Len(g) : g[i] = h[i]
    BY <1>2, <2>1, <2>2, <2>3
  <2>6. Total(h) = Total(g) + h[Len(h)]
    BY <2>4, <2>5, TotalStep
  <2> QED
    BY <2>2, <2>3, <2>4, <2>6
<1> QED
  BY <1>1, <1>3, <1>4, TotalEmpty

(* A beginning is no more than the whole, and no less than its elements.   *)
LEMMA BeginningLess ==
  ASSUME NEW f \in Seq(Nat), NEW n \in 0 .. Len(f)
  PROVE  /\ Total(SubSeq(f, 1, n)) <= Total(f)
         /\ n > 0 => Total(SubSeq(f, 1, n - 1)) + f[n] <= Total(f) /\ f[n] <= Total(f)
<1> DEFINE P(k) == Total(SubSeq(f, 1, k))
           T == {k \in Nat : n + k <= Len(f) => P(n) <= P(n + k)}
<1>0. \A k \in 0 .. Len(f) : P(k) \in Nat
  BY Beginnings
<1>1. \A k \in 1 .. Len(f) : P(k) = P(k - 1) + f[k] /\ f[k] \in Nat
  BY Beginnings
<1>2. P(Len(f)) = Total(f)
  BY Beginnings
<1> HIDE DEF P
<1>3. 0 \in T
  <2>1. n + 0 = n /\ P(n) \in Nat
    BY <1>0
  <2> QED
    BY <2>1
<1>4. ASSUME NEW k \in Nat, k \in T PROVE k + 1 \in T
  <2> SUFFICES ASSUME n + (k + 1) <= Len(f) PROVE P(n) <= P(n + (k + 1))
    OBVIOUS
  <2>1. n + (k + 1) \in 1 .. Len(f) /\ (n + (k + 1)) - 1 = n + k /\ n + k \in 0 .. Len(f)
    OBVIOUS
  <2>2. P(n) <= P(n + k)
    BY <1>4, <2>1
  <2>3. P(n + (k + 1)) = P(n + k) + f[n + (k + 1)] /\ f[n + (k + 1)] \in Nat
    BY <1>1, <2>1
  <2>4. P(n) \in Nat /\ P(n + k) \in Nat
    BY <1>0, <2>1
  <2> QED
    BY <2>2, <2>3, <2>4
<1> HIDE DEF T
<1>5. Len(f) - n \in T
  <2>1. Len(f) - n \in Nat
    OBVIOUS
  <2> QED
    BY <1>3, <1>4, <2>1, SetInduction
<1>6. P(n) <= Total(f)
  <2>1. n + (Len(f) - n) = Len(f)
    OBVIOUS
  <2> QED
    BY <1>2, <1>5, <2>1 DEF T
<1>7. ASSUME n > 0 PROVE P(n - 1) + f[n] <= Total(f) /\ f[n] <= Total(f)
  <2>1. n \in 1 .. Len(f) /\ n - 1 \in 0 .. Len(f)
    BY <1>7
  <2>2. P(n) = P(n - 1) + f[n] /\ P(n - 1) \in Nat /\ f[n] \in Nat
    BY <1>0, <1>1, <2>1
  <2>3. Total(f) \in Nat
    BY TotalNat
  <2> QED
    BY <1>6, <2>2, <2>3
<1> QED
  BY <1>6, <1>7 DEF P

(* Nothing adds up to nothing.                                             *)
LEMMA TotalZero ==
  ASSUME NEW f \in Seq(Nat), \A i \in 1 .. Len(f) : f[i] = 0
  PROVE  Total(f) = 0
<1> DEFINE P(k) == Total(SubSeq(f, 1, k))
           T == {k \in Nat : k <= Len(f) => P(k) = 0}
<1>1. P(0) = 0 /\ P(Len(f)) = Total(f)
  BY Beginnings
<1>2. \A k \in 1 .. Len(f) : P(k) = P(k - 1) + f[k]
  BY Beginnings
<1> HIDE DEF P
<1>3. 0 \in T
  BY <1>1
<1>4. ASSUME NEW k \in Nat, k \in T PROVE k + 1 \in T
  <2> SUFFICES ASSUME k + 1 <= Len(f) PROVE P(k + 1) = 0
    OBVIOUS
  <2>1. k + 1 \in 1 .. Len(f) /\ (k + 1) - 1 = k /\ P(k) = 0
    BY <1>4
  <2> QED
    BY <1>2, <2>1
<1> HIDE DEF T
<1>5. Len(f) \in T
  <2>1. Len(f) \in Nat
    OBVIOUS
  <2> QED
    BY <1>3, <1>4, <2>1, SetInduction
<1> QED
  BY <1>1, <1>5 DEF T

-----------------------------------------------------------------------------
(* Lines by kind.                                                          *)

Kinds == AllKeys \X BOOLEAN
\* What the rows add to one kind.
Days(kinds, items, kind) ==
  [i \in DOMAIN kinds |-> IF kinds[i] = kind THEN items[i].days ELSE 0]
RowKeys(items) == [i \in DOMAIN items |-> items[i].key]
RowKinds(items) == [i \in DOMAIN items |-> <<items[i].key, TRUE>>]

LEMMA ItemRowFields ==
  \A row \in ItemRow : /\ row.key \in Keys /\ row.days \in Nat \ {0} /\ row.dated \in BOOLEAN
                       /\ row.key \in AllKeys /\ row.key # OtherKey
  BY LinesAssumption DEF ItemRow, AllKeys

LEMMA LineInputFields ==
  \A new \in LineInput : /\ new.key \in Keys /\ new.fields \in 3 .. 6
                         /\ new.rows \in Seq(ItemRow) /\ new.key \in AllKeys
  BY DEF LineInput, AllKeys

LEMMA DaysAre ==
  ASSUME NEW items \in Seq(ItemRow), NEW n \in 0 .. Len(items), NEW kinds,
         DOMAIN kinds = 1 .. n, NEW kind
  PROVE  /\ Days(kinds, items, kind) \in Seq(Nat) /\ Len(Days(kinds, items, kind)) = n
         /\ \A i \in 1 .. n :
              Days(kinds, items, kind)[i] = IF kinds[i] = kind THEN items[i].days ELSE 0
         /\ Total(Days(kinds, items, kind)) \in Nat
<1>1. \A i \in 1 .. n : items[i].days \in Nat
  <2>1. \A i \in 1 .. n : items[i] \in ItemRow
    OBVIOUS
  <2> QED
    BY <2>1, ItemRowFields
<1>2. Days(kinds, items, kind) \in [1 .. n -> Nat]
  BY <1>1 DEF Days
<1>3. Days(kinds, items, kind) \in Seq(Nat) /\ Len(Days(kinds, items, kind)) = n
  BY <1>2, SeqIntro
<1>4. \A i \in 1 .. n :
        Days(kinds, items, kind)[i] = IF kinds[i] = kind THEN items[i].days ELSE 0
  BY DEF Days
<1> QED
  BY <1>3, <1>4, TotalNat

LEMMA PlusAllIs ==
  ASSUME NEW D, NEW bag \in [D -> Nat], NEW items \in Seq(ItemRow),
         NEW n \in 0 .. Len(items), NEW kinds, DOMAIN kinds = 1 .. n
  PROVE  /\ PlusAll(bag, kinds, items) \in [D -> Nat]
         /\ \A kind \in D : /\ PlusAll(bag, kinds, items)[kind]
                                 = bag[kind] + Total(Days(kinds, items, kind))
                            /\ PlusAll(bag, kinds, items)[kind] >= bag[kind]
<1>1. PlusAll(bag, kinds, items) = [kind \in D |-> bag[kind] + Total(Days(kinds, items, kind))]
  BY DEF PlusAll, Days
<1>2. \A kind : Total(Days(kinds, items, kind)) \in Nat
  BY DaysAre
<1> HIDE DEF Days
<1>3. \A kind \in D : bag[kind] \in Nat
  OBVIOUS
<1> QED
  BY <1>1, <1>2, <1>3

LEMMA PlusIs ==
  ASSUME NEW D, NEW bag \in [D -> Nat], NEW kind, NEW n \in Nat
  PROVE  /\ Plus(bag, kind, n) \in [D -> Nat]
         /\ \A k \in D : /\ Plus(bag, kind, n)[k] = IF k = kind THEN bag[k] + n ELSE bag[k]
                         /\ Plus(bag, kind, n)[k] >= bag[k]
<1>1. Plus(bag, kind, n) = [k \in D |-> IF k = kind THEN bag[kind] + n ELSE bag[k]]
  BY DEF Plus
<1>2. \A k \in D : bag[k] \in Nat
  OBVIOUS
<1>3. \A k \in D : Plus(bag, kind, n)[k] = IF k = kind THEN bag[k] + n ELSE bag[k]
  BY <1>1
<1>4. \A k \in D : Plus(bag, kind, n)[k] \in Nat /\ Plus(bag, kind, n)[k] >= bag[k]
  BY <1>2, <1>3
<1>5. Plus(bag, kind, n) \in [D -> Nat]
  BY <1>1, <1>4
<1> QED
  BY <1>3, <1>4, <1>5

LEMMA CountsAre ==
  ASSUME NEW bag \in Bag
  PROVE  /\ Counts(bag) \in [AllKeys -> Nat]
         /\ \A k \in AllKeys : Counts(bag)[k] = bag[<<k, TRUE>>] + bag[<<k, FALSE>>]
<1>1. \A k \in AllKeys : bag[<<k, TRUE>>] \in Nat /\ bag[<<k, FALSE>>] \in Nat
  <2>1. bag \in [Kinds -> Nat]
    BY DEF Bag, Kinds
  <2>2. \A k \in AllKeys : <<k, TRUE>> \in Kinds /\ <<k, FALSE>> \in Kinds
    BY DEF Kinds
  <2> QED
    BY <2>1, <2>2
<1>2. Counts(bag) = [k \in AllKeys |-> bag[<<k, TRUE>>] + bag[<<k, FALSE>>]]
  BY DEF Counts
<1>3. \A k \in AllKeys : bag[<<k, TRUE>>] + bag[<<k, FALSE>>] \in Nat
  <2>1. \A m, n \in Nat : m + n \in Nat
    OBVIOUS
  <2> QED
    BY <1>1, <2>1, Zenon
<1> QED
  BY <1>2, <1>3

LEMMA BagsAre ==
  ASSUME NEW bag \in Bag, NEW new \in LineInput
  PROVE  /\ WithRows(bag, new.rows) \in Bag
         /\ WithLine(bag, new) \in Bag
         /\ NoLines \in Bag
         /\ \A kind \in Kinds :
              /\ WithRows(bag, new.rows)[kind]
                   = bag[kind] + Total(Days(RowKinds(new.rows), new.rows, kind))
              /\ WithLine(bag, new)[kind] = bag[kind] + WithLine(NoLines, new)[kind]
              /\ WithLine(NoLines, new)[kind] \in Nat
<1>1. new.rows \in Seq(ItemRow) /\ new.key \in AllKeys
  BY LineInputFields
<1>2. PICK items \in Seq(ItemRow) : items = new.rows
  BY <1>1
<1>3. Len(items) \in 0 .. Len(items) /\ DOMAIN RowKinds(items) = 1 .. Len(items)
  BY DEF RowKinds
<1>4. \A b : WithRows(b, items) = PlusAll(b, RowKinds(items), items)
  BY DEF WithRows, RowKinds
<1>5. \A b \in [Kinds -> Nat] : /\ WithRows(b, items) \in [Kinds -> Nat]
                        /\ \A kind \in Kinds : WithRows(b, items)[kind]
                             = b[kind] + Total(Days(RowKinds(items), items, kind))
  BY <1>3, <1>4, PlusAllIs
<1>6. NoLines \in Bag /\ \A kind \in Kinds : NoLines[kind] = 0
  BY DEF NoLines, Bag, Kinds
<1>7. Bag = [Kinds -> Nat]
  BY DEF Bag, Kinds
<1> DEFINE one == <<new.key, TRUE>>
           P(b) == Plus(b, one, 1)
<1> HIDE DEF one
<1>8. ASSUME NEW b \in [Kinds -> Nat]
      PROVE  /\ P(b) \in [Kinds -> Nat]
             /\ \A kind \in Kinds : P(b)[kind] = IF kind = one THEN b[kind] + 1 ELSE b[kind]
  <2>1. 1 \in Nat
    OBVIOUS
  <2> QED
    BY <2>1, PlusIs
<1>9. \A b : WithLine(b, new) = WithRows(P(b), items)
  BY <1>2 DEF WithLine, one
<1>10. \A kind : Total(Days(RowKinds(items), items, kind)) \in Nat
  BY <1>3, DaysAre
<1> HIDE DEF P
<1>11. ASSUME NEW b \in [Kinds -> Nat]
       PROVE  /\ WithLine(b, new) \in [Kinds -> Nat]
              /\ \A kind \in Kinds : WithLine(b, new)[kind]
                   = P(b)[kind] + Total(Days(RowKinds(items), items, kind))
  <2>1. P(b) \in [Kinds -> Nat] /\ WithLine(b, new) = WithRows(P(b), items)
    BY <1>8, <1>9
  <2> QED
    BY <1>5, <2>1
<1>12. ASSUME NEW kind \in Kinds
       PROVE  /\ WithLine(bag, new)[kind] = bag[kind] + WithLine(NoLines, new)[kind]
              /\ WithLine(NoLines, new)[kind] \in Nat
  <2>1. /\ WithLine(bag, new)[kind] = P(bag)[kind] + Total(Days(RowKinds(items), items, kind))
        /\ WithLine(NoLines, new)[kind]
             = P(NoLines)[kind] + Total(Days(RowKinds(items), items, kind))
    BY <1>6, <1>7, <1>11
  <2>2. /\ P(bag)[kind] = IF kind = one THEN bag[kind] + 1 ELSE bag[kind]
        /\ P(NoLines)[kind] = IF kind = one THEN NoLines[kind] + 1 ELSE NoLines[kind]
    BY <1>6, <1>7, <1>8
  <2>3. bag[kind] \in Nat /\ NoLines[kind] = 0
    BY <1>6, <1>7
  <2>4. PICK t \in Nat : t = Total(Days(RowKinds(items), items, kind))
    BY <1>10
  <2> QED
    BY <2>1, <2>2, <2>3, <2>4
<1> QED
  BY <1>2, <1>5, <1>6, <1>7, <1>11, <1>12

(* Adding lines one after the other.                                       *)
LEMMA WithLinesIs ==
  ASSUME NEW bag \in Bag, NEW list \in Seq(LineInput)
  PROVE  /\ WithLines(bag, list) \in Bag
         /\ WithLines(bag, <<>>) = bag
         /\ \A n \in 0 .. Len(list) : WithLines(bag, SubSeq(list, 1, n)) \in Bag
         /\ \A n \in 1 .. Len(list) :
              WithLines(bag, SubSeq(list, 1, n))
                = WithLine(WithLines(bag, SubSeq(list, 1, n - 1)), list[n])
<1> DEFINE F(l, kind) == [i \in DOMAIN l |-> WithLine(NoLines, l[i])[kind]]
<1>1. Bag = [Kinds -> Nat]
  BY DEF Bag, Kinds
<1>2. \A b, l : b \in [Kinds -> Nat] =>
        WithLines(b, l) = [kind \in Kinds |-> b[kind] + Total(F(l, kind))]
  BY DEF WithLines
<1>3. \A new \in LineInput : \A kind \in Kinds : WithLine(NoLines, new)[kind] \in Nat
  BY BagsAre
<1>4. ASSUME NEW l \in Seq(LineInput), NEW kind \in Kinds
      PROVE  /\ F(l, kind) \in Seq(Nat) /\ Len(F(l, kind)) = Len(l)
             /\ \A i \in 1 .. Len(l) : F(l, kind)[i] = WithLine(NoLines, l[i])[kind]
             /\ Total(F(l, kind)) \in Nat
  <2>1. \A i \in 1 .. Len(l) : WithLine(NoLines, l[i])[kind] \in Nat
    BY <1>3
  <2>2. F(l, kind) \in [1 .. Len(l) -> Nat] /\ Len(l) \in Nat
    BY <2>1
  <2>3. F(l, kind) \in Seq(Nat) /\ Len(F(l, kind)) = Len(l)
    BY <2>2, SeqIntro
  <2>4. \A i \in 1 .. Len(l) : F(l, kind)[i] = WithLine(NoLines, l[i])[kind]
    OBVIOUS
  <2> HIDE DEF F
  <2> QED
    BY <2>3, <2>4, TotalNat
<1>5. \A kind : F(<<>>, kind) = <<>>
  OBVIOUS
<1> HIDE DEF F
<1>6. ASSUME NEW l \in Seq(LineInput)
      PROVE  /\ WithLines(bag, l) \in [Kinds -> Nat]
             /\ \A kind \in Kinds : WithLines(bag, l)[kind] = bag[kind] + Total(F(l, kind))
  <2>1. bag \in [Kinds -> Nat]
    BY <1>1
  <2>2. \A kind \in Kinds : bag[kind] \in Nat /\ Total(F(l, kind)) \in Nat
    BY <1>4, <2>1
  <2> QED
    BY <1>2, <2>1, <2>2
<1>7. WithLines(bag, <<>>) = bag
  <2>1. bag \in [Kinds -> Nat] /\ \A kind \in Kinds : bag[kind] + 0 = bag[kind]
    BY <1>1
  <2> QED
    BY <1>2, <1>5, <2>1, TotalEmpty
<1>8. \A n \in 0 .. Len(list) :
        /\ SubSeq(list, 1, n) \in Seq(LineInput) /\ Len(SubSeq(list, 1, n)) = n
        /\ \A i \in 1 .. n : SubSeq(list, 1, n)[i] = list[i]
  OBVIOUS
<1>9. ASSUME NEW n \in 1 .. Len(list)
      PROVE  WithLines(bag, SubSeq(list, 1, n))
               = WithLine(WithLines(bag, SubSeq(list, 1, n - 1)), list[n])
  <2>1. n \in 0 .. Len(list) /\ n - 1 \in 0 .. Len(list) /\ n \in 1 .. n /\ (n - 1) + 1 = n
    OBVIOUS
  <2>2. PICK p \in Seq(LineInput) : p = SubSeq(list, 1, n - 1)
    BY <1>8, <2>1
  <2>3. PICK q \in Seq(LineInput) : q = SubSeq(list, 1, n)
    BY <1>8, <2>1
  <2>4. Len(p) = n - 1 /\ Len(q) = n /\ q[n] = list[n] /\ \A i \in 1 .. (n - 1) : p[i] = q[i]
    BY <1>8, <2>1, <2>2, <2>3
  <2>5. list[n] \in LineInput
    OBVIOUS
  <2>6. PICK b \in [Kinds -> Nat] : b = WithLines(bag, p)
    BY <1>6
  <2>7. WithLine(b, list[n]) \in [Kinds -> Nat] /\ WithLines(bag, q) \in [Kinds -> Nat]
    BY <1>1, <1>6, <2>5, BagsAre
  <2>8. ASSUME NEW kind \in Kinds PROVE WithLines(bag, q)[kind] = WithLine(b, list[n])[kind]
    <3>1. /\ F(p, kind) \in Seq(Nat) /\ Len(F(p, kind)) = n - 1
          /\ \A i \in 1 .. (n - 1) : F(p, kind)[i] = WithLine(NoLines, p[i])[kind]
          /\ Total(F(p, kind)) \in Nat
      BY <1>4, <2>4
    <3>2. /\ F(q, kind) \in Seq(Nat) /\ Len(F(q, kind)) = n
          /\ \A i \in 1 .. n : F(q, kind)[i] = WithLine(NoLines, q[i])[kind]
      BY <1>4, <2>4
    <3>3. \A i \in 1 .. Len(F(p, kind)) : F(p, kind)[i] = F(q, kind)[i]
      <4> SUFFICES ASSUME NEW i \in 1 .. (n - 1) PROVE F(p, kind)[i] = F(q, kind)[i]
        BY <3>1
      <4>1. i \in 1 .. n /\ p[i] = q[i]
        BY <2>4
      <4> QED
        BY <3>1, <3>2, <4>1
    <3>4. Total(F(q, kind)) = Total(F(p, kind)) + F(q, kind)[n]
      <4>1. Len(F(q, kind)) = Len(F(p, kind)) + 1
        BY <2>1, <3>1, <3>2
      <4>2. Total(F(q, kind)) = Total(F(p, kind)) + F(q, kind)[Len(F(q, kind))]
        BY <3>1, <3>2, <3>3, <4>1, TotalStep
      <4> QED
        BY <3>2, <4>2
    <3>5. F(q, kind)[n] = WithLine(NoLines, list[n])[kind]
      BY <2>1, <2>4, <3>2
    <3>6. WithLine(NoLines, list[n])[kind] \in Nat
      BY <1>3, <2>5
    <3>7. WithLine(b, list[n])[kind] = b[kind] + WithLine(NoLines, list[n])[kind]
      BY <1>1, <2>5, BagsAre
    <3>8. b[kind] = bag[kind] + Total(F(p, kind)) /\ bag[kind] \in Nat
      BY <1>1, <1>6, <2>6
    <3>9. WithLines(bag, q)[kind] = bag[kind] + Total(F(q, kind))
      BY <1>6
    <3> QED
      BY <3>1, <3>4, <3>5, <3>6, <3>7, <3>8, <3>9
  <2> QED
    BY <2>2, <2>3, <2>6, <2>7, <2>8
<1>10. WithLines(bag, list) \in Bag
  BY <1>1, <1>6
<1>11. \A n \in 0 .. Len(list) : WithLines(bag, SubSeq(list, 1, n)) \in Bag
  BY <1>1, <1>6, <1>8
<1> QED
  BY <1>7, <1>9, <1>10, <1>11

(* What a saved line must have added for the list to show one more.        *)
LEMMA SavedOne ==
  ASSUME NEW bag \in Bag, NEW key \in AllKeys
  PROVE  /\ Counts(bag) # Add(Counts(bag), key, 1)
         /\ \A n \in Nat, exact \in BOOLEAN :
              Counts(Plus(bag, <<key, exact>>, n)) = Add(Counts(bag), key, 1) => n = 1
<1>1. Counts(bag) \in [AllKeys -> Nat]
  BY CountsAre
<1>2. PICK c \in Nat : c = Counts(bag)[key]
  BY <1>1
<1>3. Add(Counts(bag), key, 1)[key] = c + 1
  BY <1>1, <1>2 DEF Add
<1>4. ASSUME NEW n \in Nat, NEW exact \in BOOLEAN
      PROVE  Counts(Plus(bag, <<key, exact>>, n))[key] = c + n
  <2> DEFINE kind == <<key, exact>>
             yes == <<key, TRUE>>
             no == <<key, FALSE>>
  <2>1. bag \in [Kinds -> Nat] /\ yes \in Kinds /\ no \in Kinds /\ yes # no
    BY DEF Bag, Kinds
  <2>2. kind = yes \/ kind = no
    BY <1>4
  <2>3. c = bag[yes] + bag[no]
    BY <1>2, CountsAre
  <2> HIDE DEF kind, yes, no
  <2>4. PICK b \in Bag : b = Plus(bag, kind, n)
    BY <2>1, PlusIs DEF Bag, Kinds
  <2>5. /\ b[yes] = IF yes = kind THEN bag[yes] + n ELSE bag[yes]
        /\ b[no] = IF no = kind THEN bag[no] + n ELSE bag[no]
    BY <2>1, <2>4, PlusIs
  <2>6. Counts(b)[key] = b[yes] + b[no]
    BY CountsAre DEF yes, no
  <2>7. bag[yes] \in Nat /\ bag[no] \in Nat
    BY <2>1
  <2>8. b[yes] + b[no] = c + n
    BY <2>1, <2>2, <2>3, <2>5, <2>7
  <2> QED
    BY <2>4, <2>6, <2>8 DEF kind
<1>5. Counts(bag) # Add(Counts(bag), key, 1)
  BY <1>2, <1>3
<1>6. ASSUME NEW n \in Nat, NEW exact \in BOOLEAN,
             Counts(Plus(bag, <<key, exact>>, n)) = Add(Counts(bag), key, 1)
      PROVE  n = 1
  BY <1>2, <1>3, <1>4, <1>6
<1> QED
  BY <1>5, <1>6

(* A row whose subcategory was lost is not one of those asked for, and the *)
(* list tells.                                                             *)
LEMMA ClosedAll ==
  ASSUME NEW bag \in Bag, NEW items \in Seq(ItemRow), NEW kinds,
         DOMAIN kinds = 1 .. Len(items),
         \A i \in 1 .. Len(items) : kinds[i] \in {<<items[i].key, TRUE>>, <<OtherKey, FALSE>>},
         Counts(PlusAll(bag, kinds, items)) = PlusAll(Counts(bag), RowKeys(items), items)
  PROVE  \A i \in 1 .. Len(items) : kinds[i] = <<items[i].key, TRUE>>
<1> DEFINE yes == <<OtherKey, TRUE>>
           no == <<OtherKey, FALSE>>
           n == Len(items)
           other == Days(kinds, items, no)
<1>1. n \in 0 .. n /\ \A i \in 1 .. n : items[i] \in ItemRow
  OBVIOUS
<1>2. \A i \in 1 .. n : items[i].days \in Nat \ {0} /\ items[i].key # OtherKey
  BY <1>1, ItemRowFields
<1>3. /\ bag \in [Kinds -> Nat] /\ yes \in Kinds /\ no \in Kinds /\ OtherKey \in AllKeys
  BY DEF Bag, Kinds, AllKeys
<1>4. Counts(bag) \in [AllKeys -> Nat] /\ Counts(bag)[OtherKey] = bag[yes] + bag[no]
  BY <1>3, CountsAre
<1>5. PICK b \in Bag : b = PlusAll(bag, kinds, items)
  BY <1>1, <1>3, PlusAllIs DEF Bag, Kinds
<1>6. Counts(b)[OtherKey] = b[yes] + b[no]
  BY <1>3, CountsAre
<1>7. /\ b[yes] = bag[yes] + Total(Days(kinds, items, yes))
      /\ b[no] = bag[no] + Total(Days(kinds, items, no))
  BY <1>1, <1>3, <1>5, PlusAllIs
<1>8. DOMAIN RowKeys(items) = 1 .. n /\ \A i \in 1 .. n : RowKeys(items)[i] = items[i].key
  BY DEF RowKeys
<1>9. PlusAll(Counts(bag), RowKeys(items), items)[OtherKey]
        = Counts(bag)[OtherKey] + Total(Days(RowKeys(items), items, OtherKey))
  BY <1>1, <1>3, <1>4, <1>8, PlusAllIs
<1>10. Total(Days(RowKeys(items), items, OtherKey)) = 0
  <2>1. PICK f \in Seq(Nat) : f = Days(RowKeys(items), items, OtherKey)
    BY <1>1, <1>8, DaysAre
  <2>2. /\ Len(f) = n
        /\ \A i \in 1 .. n : f[i] = IF RowKeys(items)[i] = OtherKey THEN items[i].days ELSE 0
    BY <1>1, <1>8, <2>1, DaysAre
  <2>3. \A i \in 1 .. Len(f) : f[i] = 0
    BY <1>2, <1>8, <2>2
  <2> QED
    BY <2>1, <2>3, TotalZero
<1>11. PICK f \in Seq(Nat) : f = Days(kinds, items, no)
  BY <1>1, DaysAre
<1>12. /\ Len(f) = n /\ Total(f) \in Nat
       /\ \A i \in 1 .. n : f[i] = IF kinds[i] = no THEN items[i].days ELSE 0
  <2>1. Total(f) \in Nat
    BY TotalNat
  <2> HIDE DEF no
  <2>2. /\ Len(Days(kinds, items, no)) = n
        /\ \A i \in 1 .. n :
             Days(kinds, items, no)[i] = IF kinds[i] = no THEN items[i].days ELSE 0
    BY <1>1, DaysAre
  <2> QED
    BY <1>11, <2>1, <2>2
<1>13. Total(Days(kinds, items, yes)) \in Nat
  BY <1>1, DaysAre
<1>14. bag[yes] \in Nat /\ bag[no] \in Nat
  BY <1>3
<1>15. Total(f) = 0
  <2> HIDE DEF yes, no
  <2> QED
    BY <1>4, <1>5, <1>6, <1>7, <1>9, <1>10, <1>11, <1>12, <1>13, <1>14
<1>16. ASSUME NEW i \in 1 .. n PROVE kinds[i] # no
  <2>1. f[i] <= Total(f) /\ f[i] \in Nat
    <3>1. i \in 0 .. Len(f) /\ i > 0
      BY <1>12
    <3>2. f[i] <= Total(f)
      BY <3>1, BeginningLess
    <3> QED
      BY <1>12, <3>2
  <2>2. f[i] = 0
    BY <1>15, <2>1
  <2> QED
    BY <1>2, <1>12, <2>2
<1> QED
  BY <1>16

(* Closing without effect is not mistaken for an itemization.              *)
LEMMA ClosedSome ==
  ASSUME NEW counts \in [AllKeys -> Nat], NEW items \in Seq(ItemRow), items # <<>>
  PROVE  PlusAll(counts, RowKeys(items), items) # counts
<1> DEFINE n == Len(items)
           key == items[1].key
<1>1. n \in 0 .. n /\ 1 \in 1 .. n /\ items[1] \in ItemRow
  OBVIOUS
<1>2. items[1].days \in Nat \ {0} /\ key \in AllKeys
  BY <1>1, ItemRowFields
<1>3. DOMAIN RowKeys(items) = 1 .. n /\ RowKeys(items)[1] = key
  BY <1>1 DEF RowKeys
<1>4. PlusAll(counts, RowKeys(items), items)[key]
        = counts[key] + Total(Days(RowKeys(items), items, key))
  BY <1>1, <1>2, <1>3, PlusAllIs
<1>5. PICK f \in Seq(Nat) : f = Days(RowKeys(items), items, key)
  BY <1>1, <1>3, DaysAre
<1>6. Len(f) = n /\ f[1] = items[1].days /\ Total(f) \in Nat
  BY <1>1, <1>3, <1>5, DaysAre
<1>7. f[1] <= Total(f)
  BY <1>1, <1>6, BeginningLess
<1>8. counts[key] \in Nat
  BY <1>2
<1> HIDE DEF key
<1> QED
  BY <1>2, <1>4, <1>5, <1>6, <1>7, <1>8

-----------------------------------------------------------------------------
(* The invariant of adding and itemizing lines.                            *)

LineSteps == {"newLine", "field", "saveLine"}
\* The steps in the open Itemize expense dialog.
SheetSteps == {"newRow", "closeSheet"} \cup RowParts
ItemSteps == {"pickLine", "lineMenu", "sheet"} \cup SheetSteps

\* Which step is about which line, row and field.
LinePlaces ==
  /\ posted \in {"none", at} /\ (verdict = "nil" => posted = "none")
  /\ at \in LinesSteps => op \in {"new", "itemize"} /\ nth \in 1 .. Len(wanted)
  /\ op = "itemize" => /\ Len(wanted) = 1 /\ nth = 1 /\ wanted[1].rows # <<>>
                       /\ at \notin LineSteps \cup HeaderSteps
  /\ op = "new" => /\ at \notin OpenSteps \cup {"pickLine"}
                   /\ at \in HeaderSteps => nth = 1
  /\ at \in ItemSteps => Rows # <<>>
  /\ at \in {"field", "saveLine"} => field \in 1 .. Line.fields
  /\ at = "saveLine" => field = Line.fields

\* The fields of the New expense dialog.
FieldsOK ==
  /\ at \in {"field", "saveLine"} => right \subseteq 1 .. Line.fields
  /\ at = "field" => 1 .. (field - 1) \subseteq right
  /\ at = "saveLine" => 1 .. field \subseteq right
\* The rows of the Itemize expense dialog.
SheetOK ==
  /\ at \in ItemSteps \ {"pickLine"} => card
  /\ at \in SheetSteps =>
       /\ sums /\ Len(sheet) \in 1 .. Len(Rows)
       /\ \A i \in 1 .. Len(sheet) :
            i < Len(sheet) \/ at \in {"newRow", "closeSheet"} =>
              {"start", "rate", "quantity"} \subseteq sheet[i]
  /\ at = "newRow" => Len(sheet) < Len(Rows)
  /\ at = "closeSheet" => Len(sheet) = Len(Rows)
  /\ at = "start" => Rows[Len(sheet)].dated
LinesLive ==
  /\ seen \in {NoList, Counts(lines)} /\ FieldsOK /\ SheetOK
  /\ at \notin {"field", "saveLine"} \cup SheetSteps => dialog = "none"

Reported == Live \/ verdict = "nil"
LinesNow == IF op = "itemize" /\ at \in OpenSteps THEN original ELSE Believed
LinesInv ==
  /\ LinesTypeOK /\ LinePlaces
  /\ \A kind \in AllKeys \X BOOLEAN : lines[kind] >= original[kind]
  /\ Live => LinesLive
  /\ Reported /\ op \in {"new", "itemize"} => lines = LinesNow

Least(bag, base) == \A kind \in AllKeys \X BOOLEAN : bag[kind] >= base[kind]

-----------------------------------------------------------------------------
(* What Dynamics may do with a request.                                    *)

(* The steps of one part are of no other.                                  *)
LEMMA StepsApart ==
  /\ LinesSteps \cap (GridSteps \cup HeaderSteps \cup ReceiptSteps) = {}
  /\ HeaderSteps \cap (GridSteps \cup ReceiptSteps) = {} /\ GridSteps \cap ReceiptSteps = {}
  /\ OpenSteps \subseteq GridSteps \cup {"link"}
  BY DEF LinesSteps, GridSteps, HeaderSteps, ReceiptSteps, OpenSteps

LEMMA LinesCarried ==
  ASSUME NEW step, CarryOut(step)
  PROVE  UNCHANGED dynamicsLines \/ (step \in LinesSteps /\ LinesCarry(step))
  BY DEF CarryOut, Dynamics

(* What each request on the lines may do.                                  *)
LEMMA LinesCarryIs ==
  ASSUME NEW step \in LinesSteps, LinesCarry(step)
  PROVE  /\ step = "newLine" => /\ dialog' = "line" /\ right' \in SUBSET (2 .. Line.fields)
                                /\ UNCHANGED <<lines, sheet, card>>
         /\ step = "field" => /\ \E lost \in SUBSET right : right' = (right \ lost) \cup {field}
                              /\ UNCHANGED <<lines, dialog, sheet, card>>
         /\ step = "saveLine" => /\ \E n \in 0 .. 2 : lines' = Plus(lines, SavedKind, n)
                                 /\ dialog' \in {"none", dialog} /\ card' = TRUE
                                 /\ UNCHANGED <<right, sheet>>
         /\ step = "pickLine" => card' = TRUE /\ UNCHANGED <<lines, dialog, right, sheet>>
         /\ step = "lineMenu" => UNCHANGED <<lines, dialog, right, sheet, card>>
         /\ step = "sheet" => /\ dialog' = "sheet"
                              /\ sheet' = <<IF Rows[1].dated THEN {} ELSE {"start"}>>
                              /\ UNCHANGED <<lines, right, card>>
         /\ step = "newRow" => /\ sheet' = Append(sheet, NewRowParts)
                               /\ UNCHANGED <<lines, dialog, right, card>>
         /\ step \in RowParts =>
              /\ \E lost \in SUBSET sheet[Len(sheet)] :
                   sheet' = LastRow((sheet[Len(sheet)] \ lost) \cup {step})
              /\ UNCHANGED <<lines, dialog, right, card>>
         /\ step = "closeSheet" => /\ dialog' \in {"none", dialog}
                                   /\ lines' \in {lines, Itemized}
                                   /\ UNCHANGED <<right, sheet, card>>
<1> USE DEF LinesCarry
<1>1. CASE step = "newLine"
  BY <1>1 DEF RowParts
<1>2. CASE step = "field"
  BY <1>2 DEF RowParts
<1>3. CASE step = "saveLine"
  BY <1>3 DEF RowParts
<1>4. CASE step = "pickLine"
  BY <1>4 DEF RowParts
<1>5. CASE step = "lineMenu"
  BY <1>5 DEF RowParts, dynamicsLines
<1>6. CASE step = "sheet"
  BY <1>6 DEF RowParts
<1>7. CASE step = "newRow"
  BY <1>7 DEF RowParts
<1>8. CASE step \in RowParts
  BY <1>8 DEF RowParts
<1>9. CASE step = "closeSheet"
  BY <1>9 DEF RowParts
<1> QED
  BY <1>1, <1>2, <1>3, <1>4, <1>5, <1>6, <1>7, <1>8, <1>9 DEF LinesSteps, RowParts

(* The line and the rows at work.                                          *)
LEMMA AtWork ==
  ASSUME LinesTypeOK, nth \in 1 .. Len(wanted)
  PROVE  /\ Line \in LineInput /\ Line = wanted[nth]
         /\ Line.key \in AllKeys /\ Line.fields \in 3 .. 6 /\ Rows \in Seq(ItemRow)
<1>1. Line \in LineInput
  BY DEF LinesTypeOK, Line
<1> QED
  BY <1>1, LineInputFields DEF Line, Rows

(* What the rows of the sheet may become.                                  *)
LEMMA ItemizedIs ==
  ASSUME LinesTypeOK, nth \in 1 .. Len(wanted), Len(sheet) <= Len(Rows)
  PROVE  Itemized \in Bag /\ Least(Itemized, lines)
<1>1. Rows \in Seq(ItemRow) /\ lines \in [Kinds -> Nat] /\ sheet \in Seq(SUBSET RowParts)
  BY AtWork DEF LinesTypeOK, Bag, Kinds
<1>2. PICK items \in Seq(ItemRow) : items = Rows
  BY <1>1
<1>3. PICK n \in 0 .. Len(items) : n = Len(sheet)
  BY <1>1, <1>2
<1> DEFINE kinds == [i \in DOMAIN sheet |-> RowKind(i)]
<1>4. DOMAIN kinds = 1 .. n
  BY <1>1, <1>3
<1>5. Itemized = PlusAll(lines, kinds, items)
  BY <1>2 DEF Itemized
<1> HIDE DEF kinds
<1>6. /\ PlusAll(lines, kinds, items) \in [Kinds -> Nat]
      /\ \A kind \in Kinds : PlusAll(lines, kinds, items)[kind] >= lines[kind]
  BY <1>1, <1>4, PlusAllIs
<1> QED
  BY <1>5, <1>6 DEF Bag, Kinds, Least

(* Whatever the request, the report's lines remain, and the types.         *)
LEMMA LinesKept ==
  ASSUME LinesInv, Live, CarryOut(at)
  PROVE  /\ lines' \in Bag /\ Least(lines', original)
         /\ dialog' \in {"none", "line", "sheet"} /\ right' \subseteq 1 .. 6
         /\ sheet' \in Seq(SUBSET RowParts) /\ card' \in BOOLEAN
<1>1. LinesTypeOK /\ LinePlaces /\ LinesLive /\ Least(lines, original)
  BY DEF LinesInv, Least
<1>2. CASE UNCHANGED dynamicsLines
  BY <1>1, <1>2 DEF LinesTypeOK, dynamicsLines, Least
<1>3. CASE at \in LinesSteps /\ LinesCarry(at)
  <2>1. nth \in 1 .. Len(wanted) /\ Line.fields \in 3 .. 6 /\ Rows \in Seq(ItemRow)
    BY <1>1, <1>3, AtWork DEF LinePlaces
  <2>2. ASSUME NEW bag \in Bag, Least(bag, lines) PROVE Least(bag, original)
    <3>1. \A kind \in Kinds : bag[kind] \in Nat /\ lines[kind] \in Nat /\ original[kind] \in Nat
      BY <1>1 DEF Bag, Kinds, LinesTypeOK
    <3> QED
      BY <1>1, <2>2, <3>1 DEF Least, Kinds
  <2>3. CASE at = "newLine"
    <3>1. /\ dialog' = "line" /\ right' \in SUBSET (2 .. Line.fields)
          /\ UNCHANGED <<lines, sheet, card>>
      BY <1>3, <2>3, LinesCarryIs
    <3>2. right' \subseteq 1 .. 6
      BY <2>1, <3>1
    <3>3. Least(lines', original)
      BY <1>1, <3>1 DEF Least
    <3> QED
      BY <1>1, <3>1, <3>2, <3>3 DEF LinesTypeOK
  <2>4. CASE at = "field"
    <3>1. field \in 1 .. 6
      BY <1>1, <2>1, <2>4 DEF LinePlaces
    <3> QED
      BY <1>1, <1>3, <2>4, <3>1, LinesCarryIs DEF LinesTypeOK
  <2>5. CASE at = "saveLine"
    <3>1. PICK n \in 0 .. 2 : lines' = Plus(lines, SavedKind, n)
      BY <1>3, <2>5, LinesCarryIs
    <3>2. lines \in [Kinds -> Nat] /\ n \in Nat
      BY <1>1 DEF LinesTypeOK, Bag, Kinds
    <3>3. PICK kind : kind = SavedKind
      OBVIOUS
    <3>4. Plus(lines, kind, n) \in [Kinds -> Nat]
          /\ \A k \in Kinds : Plus(lines, kind, n)[k] >= lines[k]
      BY <3>2, PlusIs
    <3>5. lines' \in Bag /\ Least(lines', lines)
      BY <3>1, <3>3, <3>4 DEF Bag, Kinds, Least
    <3>6. Least(lines', original)
      BY <2>2, <3>5
    <3> QED
      BY <1>1, <1>3, <2>5, <3>5, <3>6, LinesCarryIs DEF LinesTypeOK
  <2>6. CASE at \in {"pickLine", "lineMenu"}
    BY <1>1, <1>3, <2>6, LinesCarryIs DEF LinesTypeOK
  <2>7. CASE at = "sheet"
    <3>1. PICK parts \in SUBSET RowParts : parts = IF Rows[1].dated THEN {} ELSE {"start"}
      BY DEF RowParts
    <3>2. sheet' = <<parts>>
      BY <1>3, <2>7, <3>1, LinesCarryIs
    <3>3. sheet' \in Seq(SUBSET RowParts)
      BY <3>2
    <3> QED
      BY <1>1, <1>3, <2>7, <3>3, LinesCarryIs DEF LinesTypeOK
  <2>8. CASE at = "newRow"
    <3>1. NewRowParts \in SUBSET RowParts
      BY DEF NewRowParts, RowParts
    <3>2. sheet' = Append(sheet, NewRowParts)
      BY <1>3, <2>8, LinesCarryIs
    <3>3. sheet' \in Seq(SUBSET RowParts)
      BY <1>1, <3>1, <3>2 DEF LinesTypeOK
    <3> QED
      BY <1>1, <1>3, <2>8, <3>3, LinesCarryIs DEF LinesTypeOK
  <2>9. CASE at \in RowParts
    <3>1. Len(sheet) \in 1 .. Len(Rows) /\ sheet \in Seq(SUBSET RowParts)
      BY <1>1, <2>9 DEF LinesLive, SheetOK, SheetSteps, LinesTypeOK
    <3>2. PICK lost \in SUBSET sheet[Len(sheet)] :
            sheet' = LastRow((sheet[Len(sheet)] \ lost) \cup {at})
      BY <1>3, <2>9, LinesCarryIs
    <3>3. (sheet[Len(sheet)] \ lost) \cup {at} \in SUBSET RowParts
      BY <2>9, <3>1
    <3>4. PICK parts \in SUBSET RowParts : parts = (sheet[Len(sheet)] \ lost) \cup {at}
      BY <3>3
    <3>5. sheet' = [sheet EXCEPT ![Len(sheet)] = parts]
      BY <3>2, <3>4 DEF LastRow
    <3>6. sheet' \in Seq(SUBSET RowParts)
      BY <3>1, <3>5
    <3> QED
      BY <1>1, <1>3, <2>9, <3>6, LinesCarryIs DEF LinesTypeOK
  <2>10. CASE at = "closeSheet"
    <3>1. Len(sheet) <= Len(Rows)
      BY <1>1, <2>10 DEF LinesLive, SheetOK, SheetSteps
    <3>2. Itemized \in Bag /\ Least(Itemized, lines)
      BY <1>1, <2>1, <3>1, ItemizedIs
    <3>3. lines' \in {lines, Itemized}
      BY <1>3, <2>10, LinesCarryIs
    <3>4. lines' \in Bag /\ Least(lines', original)
      BY <1>1, <2>2, <3>2, <3>3 DEF LinesTypeOK
    <3> QED
      BY <1>1, <1>3, <2>10, <3>4, LinesCarryIs DEF LinesTypeOK
  <2> QED
    BY <1>3, <2>3, <2>4, <2>5, <2>6, <2>7, <2>8, <2>9, <2>10 DEF LinesSteps, RowParts
<1> QED
  BY <1>2, <1>3, LinesCarried

-----------------------------------------------------------------------------
(* Answers accepted by the other parts.                                    *)

LEMMA GridGoes ==
  ASSUME NEW removal, GridAccept(removal, AfterOpen)
  PROVE  \/ /\ at' \in GridSteps \cup {"done"}
            /\ at' \in OpenSteps => at \in OpenSteps
            /\ at \in OpenSteps => at' \in OpenSteps \/ removal
         \/ at = "link" /\ at' = AfterOpen
  BY DEF GridAccept, Proceed, GridSteps, OpenSteps

LEMMA AwayGoes ==
  ASSUME Accept, at \notin LinesSteps
  PROVE  /\ UNCHANGED <<op, lines, dialog, right, sheet, card>>
         /\ UNCHANGED <<wanted, sums, original, seen, nth, field>>
         /\ posted' = "none"
         /\ \/ /\ at \in GridSteps /\ at' \in GridSteps \cup {"done"}
               /\ at' \in OpenSteps => at \in OpenSteps
               /\ at \in OpenSteps => at' \in OpenSteps \/ op = "delete"
            \/ at = "link" /\ at' = AfterOpen
            \/ at \in HeaderSteps /\ at' \in HeaderSteps \cup {AfterHeader}
            \/ at \in ReceiptSteps /\ at' \in ReceiptSteps \cup {"save"}
<1>1. UNCHANGED dynamicsLines
  BY LinesCarried DEF Accept
<1>2. CASE at \in GridSteps /\ GridAccept(op = "delete", AfterOpen) /\ UNCHANGED clientLines
  BY <1>1, <1>2, GridGoes, AcceptFrame DEF dynamicsLines, clientLines
<1>3. CASE at \in HeaderSteps /\ HeaderAccept(AfterHeader) /\ UNCHANGED clientLines
  <2>1. at' \in HeaderSteps \cup {AfterHeader}
    BY <1>3, HeaderProceeds DEF Proceed
  <2> QED
    BY <1>1, <1>3, <2>1, AcceptFrame DEF dynamicsLines, clientLines
<1>4. CASE at \in ReceiptSteps /\ ReceiptsAccept(op, "save") /\ UNCHANGED clientLines
  <2>1. at' \in ReceiptSteps \cup {"save"}
    BY <1>4, ReceiptsProceed DEF Proceed
  <2> QED
    BY <1>1, <1>4, <2>1, AcceptFrame DEF dynamicsLines, clientLines
<1> QED
  BY <1>2, <1>3, <1>4 DEF Accept

LEMMA AcceptAway == LinesInv /\ Accept /\ at \notin LinesSteps => LinesInv'
<1> SUFFICES ASSUME LinesInv, Accept, at \notin LinesSteps PROVE LinesInv'
  OBVIOUS
<1>1. /\ LinesTypeOK /\ LinePlaces /\ LinesLive /\ Least(lines, original)
      /\ op \in {"new", "itemize"} => lines = LinesNow
  BY DEF LinesInv, Least, Accept, Waiting, Live, Reported
<1>2. /\ UNCHANGED <<op, lines, dialog, right, sheet, card>>
      /\ UNCHANGED <<wanted, sums, original, seen, nth, field>>
      /\ posted' = "none"
      /\ \/ /\ at \in GridSteps /\ at' \in GridSteps \cup {"done"}
            /\ at' \in OpenSteps => at \in OpenSteps
            /\ at \in OpenSteps => at' \in OpenSteps \/ op = "delete"
         \/ at = "link" /\ at' = AfterOpen
         \/ at \in HeaderSteps /\ at' \in HeaderSteps \cup {AfterHeader}
         \/ at \in ReceiptSteps /\ at' \in ReceiptSteps \cup {"save"}
  BY AwayGoes
<1>3. LinesTypeOK' /\ Least(lines', original')
  BY <1>1, <1>2 DEF LinesTypeOK, Least
<1>4. \A s : s \in GridSteps \cup HeaderSteps \cup ReceiptSteps \cup {"done", "save"} =>
        s \notin LinesSteps \cup LineSteps \cup ItemSteps
  BY DEF LineSteps, ItemSteps, SheetSteps, RowParts, LinesSteps, GridSteps, HeaderSteps,
         ReceiptSteps
<1>5. Rows' = Rows /\ Line' = Line /\ Counts(lines)' = Counts(lines)
  BY <1>2 DEF Rows, Line, Counts
<1>6. \/ /\ at' \notin LinesSteps \cup LineSteps \cup ItemSteps
         /\ at' \in HeaderSteps => at \in HeaderSteps \/ op = "edit"
         /\ at' \in OpenSteps => at \in OpenSteps
         /\ op = "itemize" /\ at \in OpenSteps => at' \in OpenSteps
         /\ at \in HeaderSteps /\ op = "new" => at' \in HeaderSteps \/ (at' = "save" /\ wanted = <<>>)
      \/ op = "itemize" /\ at \in OpenSteps /\ at' = (IF card THEN "lineMenu" ELSE "pickLine")
      \/ op = "new" /\ at \in HeaderSteps /\ at' = "newLine" /\ wanted # <<>>
  <2>1. CASE /\ at \in GridSteps /\ at' \in GridSteps \cup {"done"}
             /\ at' \in OpenSteps => at \in OpenSteps
             /\ at \in OpenSteps => at' \in OpenSteps \/ op = "delete"
    <3>1. at \notin HeaderSteps /\ at' \notin HeaderSteps
      BY <2>1 DEF GridSteps, HeaderSteps
    <3> QED
      BY <1>4, <2>1, <3>1
  <2>2. CASE at = "link" /\ at' = AfterOpen
    <3>1. at \in OpenSteps /\ at \notin HeaderSteps
      BY <2>2 DEF OpenSteps, HeaderSteps
    <3>2. op # "new"
      BY <1>1, <3>1 DEF LinePlaces
    <3>3. CASE op = "itemize"
      BY <2>2, <3>1, <3>3 DEF AfterOpen
    <3>4. CASE op # "itemize"
      <4>1. AfterOpen \in {"menu", "submit", "tab"}
        BY <3>4 DEF AfterOpen
      <4>2. CASE AfterOpen = "menu"
        <5>1. op = "edit"
          BY <4>2 DEF AfterOpen
        <5> QED
          BY <1>1, <2>2, <3>1, <4>2, <5>1
          DEF LineSteps, ItemSteps, SheetSteps, RowParts, LinesSteps, OpenSteps, HeaderSteps
      <4>3. CASE AfterOpen \in {"submit", "tab"}
        BY <2>2, <3>1, <3>4, <4>3
        DEF LineSteps, ItemSteps, SheetSteps, RowParts, LinesSteps, OpenSteps, HeaderSteps
      <4> QED
        BY <4>1, <4>2, <4>3
    <3> QED
      BY <3>3, <3>4
  <2>3. CASE at \in HeaderSteps /\ at' \in HeaderSteps \cup {AfterHeader}
    <3>1. \A s \in HeaderSteps \cup {"save", "newLine"} : s \notin OpenSteps
      BY DEF HeaderSteps, OpenSteps
    <3>0. op # "itemize"
      BY <1>1, <2>3 DEF LinePlaces
    <3>2. CASE at' \in HeaderSteps
      BY <1>4, <2>3, <3>0, <3>1, <3>2
    <3>3. CASE at' = AfterHeader /\ op # "new"
      <4>1. at' = "save"
        BY <3>3 DEF AfterHeader
      <4> QED
        BY <1>4, <2>3, <3>0, <3>1, <3>3, <4>1
    <3>4. CASE at' = AfterHeader /\ op = "new" /\ wanted = <<>>
      <4>1. at' = "save"
        BY <3>4 DEF AfterHeader, ToLines
      <4> QED
        BY <1>4, <2>3, <3>0, <3>1, <3>4, <4>1
    <3>5. CASE at' = AfterHeader /\ op = "new" /\ wanted # <<>>
      <4>1. at' = "newLine"
        BY <3>5 DEF AfterHeader, ToLines
      <4> QED
        BY <2>3, <3>5, <4>1
    <3> QED
      BY <2>3, <3>2, <3>3, <3>4, <3>5
  <2>4. CASE at \in ReceiptSteps /\ at' \in ReceiptSteps \cup {"save"}
    <3>1. at \notin HeaderSteps \cup OpenSteps /\ at' \notin HeaderSteps \cup OpenSteps
      BY <2>4 DEF HeaderSteps, ReceiptSteps, OpenSteps
    <3> QED
      BY <1>4, <2>4, <3>1
  <2> QED
    BY <1>2, <2>1, <2>2, <2>3, <2>4
<1>7. op = "new" /\ at \in HeaderSteps => nth = 1
  BY <1>1 DEF LinePlaces
<1>8. wanted \in Seq(LineInput)
  BY <1>1 DEF LinesTypeOK
<1>9. LinePlaces'
  <2>1. CASE /\ at' \notin LinesSteps \cup LineSteps \cup ItemSteps
             /\ at' \in HeaderSteps => at \in HeaderSteps \/ op = "edit"
             /\ at' \in OpenSteps => at \in OpenSteps
    <3>1. at' \notin {"pickLine", "field", "saveLine"}
      BY <2>1 DEF LineSteps, ItemSteps
    <3> QED
      BY <1>1, <1>2, <2>1, <3>1 DEF LinePlaces
  <2>2. CASE op = "itemize" /\ at \in OpenSteps /\ at' = (IF card THEN "lineMenu" ELSE "pickLine")
    <3>1. Rows # <<>> /\ nth \in 1 .. Len(wanted)
      BY <1>1, <2>2 DEF LinePlaces, Rows, Line
    <3>2. at' \notin {"field", "saveLine"} \cup LineSteps \cup HeaderSteps
      BY <2>2 DEF LineSteps, HeaderSteps
    <3> QED
      BY <1>1, <1>2, <1>5, <2>2, <3>1, <3>2 DEF LinePlaces
  <2>3. CASE op = "new" /\ at \in HeaderSteps /\ at' = "newLine" /\ wanted # <<>>
    <3>1. nth \in 1 .. Len(wanted)
      BY <1>7, <1>8, <2>3
    <3>2. at' \notin {"field", "saveLine", "pickLine"} \cup HeaderSteps \cup OpenSteps \cup ItemSteps
      BY <2>3 DEF HeaderSteps, OpenSteps, ItemSteps, SheetSteps, RowParts
    <3> QED
      BY <1>1, <1>2, <1>5, <2>3, <3>1, <3>2 DEF LinePlaces
  <2> QED
    BY <1>6, <2>1, <2>2, <2>3
<1>10. LinesLive'
  <2>1. at \notin {"field", "saveLine"} \cup SheetSteps
    BY DEF LinesSteps, SheetSteps, RowParts
  <2>2. dialog = "none" /\ seen \in {NoList, Counts(lines)}
    BY <1>1, <2>1 DEF LinesLive
  <2>3. at' \notin {"field", "saveLine"} \cup SheetSteps
    BY <1>6 DEF LineSteps, ItemSteps, SheetSteps, RowParts
  <2>4. at' \in ItemSteps \ {"pickLine"} => card
    BY <1>6 DEF ItemSteps, SheetSteps, RowParts
  <2>5. FieldsOK' /\ SheetOK'
    <3>1. at' \notin {"newRow", "closeSheet", "start"}
      BY <2>3 DEF SheetSteps, RowParts
    <3> QED
      BY <1>2, <2>3, <2>4, <3>1 DEF FieldsOK, SheetOK
  <2> QED
    BY <1>2, <1>5, <2>2, <2>5 DEF LinesLive
<1>11. op \in {"new", "itemize"} => lines' = LinesNow'
  <2>1. CASE op = "new" /\ at \in HeaderSteps
    <3>1. lines = original
      <4>1. at \notin LinesSteps
        OBVIOUS
      <4> QED
        BY <1>1, <2>1 DEF LinesNow, Believed
    <3>2. CASE at' \in HeaderSteps
      <4>1. at' \notin LinesSteps
        BY <3>2 DEF HeaderSteps, LinesSteps
      <4> QED
        BY <1>2, <2>1, <3>1, <3>2, <4>1 DEF LinesNow, Believed
    <3>3. CASE at' = "save" /\ wanted = <<>>
      <4>1. at' \notin LinesSteps \cup HeaderSteps
        BY <3>3 DEF HeaderSteps, LinesSteps
      <4>2. WithLines(original, wanted) = original
        BY <1>1, <1>8, <3>3, WithLinesIs DEF LinesTypeOK
      <4>3. WithLines(original', wanted') = WithLines(original, wanted)
        BY <1>2
      <4> QED
        BY <1>2, <2>1, <3>1, <4>1, <4>2, <4>3 DEF LinesNow, Believed
    <3>4. CASE at' = "newLine" /\ wanted # <<>>
      <4>1. at' \in LinesSteps
        BY <3>4 DEF LinesSteps
      <4>2. SubSeq(wanted, 1, nth - 1) = <<>>
        BY <1>7, <1>8, <2>1
      <4>3. WithLines(original, SubSeq(wanted, 1, nth - 1)) = original
        BY <1>1, <1>8, <4>2, WithLinesIs DEF LinesTypeOK
      <4>4. Believed' = WithLines(original, SubSeq(wanted, 1, nth - 1))
        BY <1>2, <2>1, <3>4, <4>1 DEF Believed
      <4> QED
        BY <1>2, <2>1, <3>1, <4>3, <4>4 DEF LinesNow
    <3> QED
      BY <1>6, <2>1, <3>2, <3>3, <3>4 DEF HeaderSteps, OpenSteps
  <2>2. CASE op = "new" /\ at \notin HeaderSteps
    <3>1. at' \notin LinesSteps \cup HeaderSteps
      BY <1>6, <2>2
    <3>2. lines = WithLines(original, wanted)
      BY <1>1, <2>2 DEF LinesNow, Believed
    <3>3. Believed' = WithLines(original, wanted)
      BY <1>2, <2>2, <3>1 DEF Believed
    <3> QED
      BY <1>2, <2>2, <3>2, <3>3 DEF LinesNow
  <2>3. CASE op = "itemize" /\ at' \in LinesSteps
    <3>1. at \in OpenSteps
      BY <1>6, <2>3
    <3>2. lines = original /\ at' \notin OpenSteps
      BY <1>1, <2>3, <3>1 DEF LinesNow, LinesSteps, OpenSteps
    <3> QED
      BY <1>2, <2>3, <3>2 DEF LinesNow, Believed
  <2>4. CASE op = "itemize" /\ at' \notin LinesSteps /\ at' \in OpenSteps
    <3>1. at \in OpenSteps
      BY <1>6, <2>4
    <3>2. lines = original
      BY <1>1, <2>4, <3>1 DEF LinesNow
    <3> QED
      BY <1>2, <2>4, <3>2 DEF LinesNow
  <2>5. CASE op = "itemize" /\ at' \notin LinesSteps /\ at' \notin OpenSteps
    <3>1. at \notin OpenSteps
      <4>1. at' \notin {"lineMenu", "pickLine"}
        BY <2>5 DEF LinesSteps
      <4> QED
        BY <1>6, <2>5, <4>1
    <3>2. lines = WithRows(original, Rows)
      BY <1>1, <2>5, <3>1 DEF LinesNow, Believed
    <3>3. Believed' = WithRows(original, Rows)
      BY <1>2, <1>5, <2>5 DEF Believed
    <3> QED
      BY <1>2, <2>5, <3>2, <3>3 DEF LinesNow
  <2> QED
    BY <2>1, <2>2, <2>3, <2>4, <2>5
<1>12. \A kind \in AllKeys \X BOOLEAN : lines'[kind] >= original'[kind]
  BY <1>3 DEF Least
<1> QED
  BY <1>2, <1>3, <1>9, <1>10, <1>11, <1>12 DEF LinesInv

-----------------------------------------------------------------------------
(* Answers accepted on the lines.                                          *)

\* What an accepted answer leaves to be shown of each step.
LinesThere == LinePlaces' /\ LinesLive' /\ lines' = LinesNow'

LEMMA NoRows ==
  ASSUME NEW bag \in Bag, NEW items \in Seq(ItemRow)
  PROVE  Len(items) = 0 => WithRows(bag, items) = bag
<1> DEFINE kinds == RowKinds(items)
<1>1. PICK n \in 0 .. Len(items) : n = Len(items) /\ DOMAIN kinds = 1 .. n
  BY DEF RowKinds
<1>2. bag \in [Kinds -> Nat] /\ WithRows(bag, items) = PlusAll(bag, kinds, items)
  BY DEF Bag, Kinds, WithRows, RowKinds
<1> HIDE DEF kinds
<1>3. /\ PlusAll(bag, kinds, items) \in [Kinds -> Nat]
      /\ \A kind \in Kinds : PlusAll(bag, kinds, items)[kind]
                               = bag[kind] + Total(Days(kinds, items, kind))
  BY <1>1, <1>2, PlusAllIs
<1>4. ASSUME NEW kind \in Kinds, Len(items) = 0
      PROVE  bag[kind] + Total(Days(kinds, items, kind)) = bag[kind]
  <2>1. Days(kinds, items, kind) \in Seq(Nat) /\ Len(Days(kinds, items, kind)) = 0
    <3>1. Days(kinds, items, kind) \in Seq(Nat) /\ Len(Days(kinds, items, kind)) = n
      BY <1>1, DaysAre
    <3> QED
      BY <1>1, <1>4, <3>1
  <2>2. Days(kinds, items, kind) = <<>>
    BY <2>1
  <2>3. bag[kind] \in Nat
    BY <1>2
  <2> QED
    BY <2>2, <2>3, TotalEmpty
<1> QED
  BY <1>2, <1>3, <1>4

(* The facts that hold at every step on the lines.                         *)
LEMMA AcceptedLines ==
  ASSUME LinesInv, Accept, at \in LinesSteps
  PROVE  /\ LinesTypeOK /\ LinePlaces /\ LinesLive /\ lines = LinesNow
         /\ LinesAccept("save") /\ (UNCHANGED dynamicsLines \/ LinesCarry(at))
         /\ UNCHANGED <<op, wanted, sums, original>> /\ posted' = "none"
         /\ nth \in 1 .. Len(wanted) /\ op \in {"new", "itemize"} /\ lines = Believed
<1>1. /\ LinesTypeOK /\ LinePlaces /\ LinesLive
      /\ op \in {"new", "itemize"} => lines = LinesNow
  BY DEF LinesInv, Accept, Waiting, Live, Reported
<1>2. LinesAccept("save")
  BY StepsApart DEF Accept
<1>3. UNCHANGED dynamicsLines \/ LinesCarry(at)
  BY LinesCarried DEF Accept
<1>4. UNCHANGED <<op, wanted, sums, original>> /\ posted' = "none"
  BY <1>2, AcceptFrame DEF LinesAccept
<1>5. nth \in 1 .. Len(wanted) /\ op \in {"new", "itemize"}
  BY <1>1 DEF LinePlaces
<1>6. at \notin OpenSteps
  BY DEF LinesSteps, OpenSteps
<1> QED
  BY <1>1, <1>2, <1>3, <1>4, <1>5, <1>6 DEF LinesNow

(* The list is known as it is, if at all.                                  *)
LEMMA SeenThere ==
  ASSUME LinesInv, Accept, at \in LinesSteps, UNCHANGED lines
  PROVE  seen' \in {NoList, Counts(lines')} /\ Counts(lines') = Counts(lines)
<1>1. seen \in {NoList, Counts(lines)} /\ (seen' = Counts(lines') \/ seen' = seen)
  BY AcceptedLines DEF LinesLive, LinesAccept, Observe
<1>2. Counts(lines') = Counts(lines)
  OBVIOUS
<1> QED
  BY <1>1, <1>2

(* A step within the work on one line.                                     *)
LEMMA SameLine ==
  ASSUME LinesInv, Accept, at \in LinesSteps, UNCHANGED <<lines, nth>>,
         at \in LineSteps <=> at' \in LineSteps, at' \in LinesSteps
  PROVE  /\ lines' = LinesNow' /\ Line' = Line /\ Rows' = Rows
         /\ nth' \in 1 .. Len(wanted')
<1>1. /\ UNCHANGED <<op, wanted, original>> /\ lines = Believed
      /\ nth \in 1 .. Len(wanted)
  BY AcceptedLines
<1>2. at' \notin OpenSteps
  BY DEF LinesSteps, OpenSteps
<1>3. Line' = Line /\ Rows' = Rows
  BY <1>1 DEF Line, Rows
<1>4. Believed' = Believed
  BY <1>1, <1>3 DEF Believed, LineSteps
<1> QED
  BY <1>1, <1>2, <1>3, <1>4 DEF LinesNow

LEMMA AcceptNewLine == LinesInv /\ Accept /\ at = "newLine" => LinesThere
<1> SUFFICES ASSUME LinesInv, Accept, at = "newLine" PROVE LinesThere
  OBVIOUS
<1>0. at \in LinesSteps
  BY DEF LinesSteps
<1>1. /\ LinesTypeOK /\ LinePlaces /\ LinesLive /\ LinesAccept("save")
      /\ UNCHANGED dynamicsLines \/ LinesCarry(at)
      /\ UNCHANGED <<op, wanted, sums, original>> /\ posted' = "none"
      /\ nth \in 1 .. Len(wanted) /\ op \in {"new", "itemize"}
  BY <1>0, AcceptedLines
<1>2. /\ dialog' = "line" /\ field' = 1 /\ at' = "field" /\ nth' = nth /\ verdict' = verdict
  BY <1>1 DEF LinesAccept, Proceed
<1>3. dialog = "none"
  BY <1>1 DEF LinesLive, SheetSteps, RowParts
<1>4. right' \in SUBSET (2 .. Line.fields) /\ UNCHANGED <<lines, sheet, card>>
  BY <1>0, <1>1, <1>2, <1>3, LinesCarryIs DEF dynamicsLines
<1>5. lines' = LinesNow' /\ Line' = Line /\ Rows' = Rows /\ nth' \in 1 .. Len(wanted')
  BY <1>0, <1>2, <1>4, SameLine DEF LineSteps, LinesSteps
<1>6. Line.fields \in 3 .. 6
  BY <1>1, AtWork
<1>7. LinePlaces'
  <2>1. op # "itemize"
    BY <1>1 DEF LinePlaces, LineSteps
  <2>2. at' \notin OpenSteps \cup HeaderSteps \cup ItemSteps \cup {"pickLine", "saveLine"}
    BY <1>2 DEF OpenSteps, HeaderSteps, ItemSteps, SheetSteps, RowParts
  <2>3. field' \in 1 .. Line'.fields
    BY <1>2, <1>5, <1>6
  <2>4. verdict' # "nil"
    BY <1>2 DEF Accept, Waiting, Pending
  <2> QED
    BY <1>1, <1>2, <1>5, <2>1, <2>2, <2>3, <2>4 DEF LinePlaces
<1>8. LinesLive'
  <2>1. seen' \in {NoList, Counts(lines')}
    BY <1>0, <1>4, SeenThere
  <2>2. right' \subseteq 1 .. Line'.fields
    BY <1>4, <1>5, <1>6
  <2>3. FieldsOK'
    BY <1>2, <2>2 DEF FieldsOK
  <2>4. SheetOK'
    BY <1>2 DEF SheetOK, ItemSteps, SheetSteps, RowParts
  <2> QED
    BY <1>2, <2>1, <2>3, <2>4 DEF LinesLive
<1> QED
  BY <1>5, <1>7, <1>8 DEF LinesThere

LEMMA AcceptField == LinesInv /\ Accept /\ at = "field" => LinesThere
<1> SUFFICES ASSUME LinesInv, Accept, at = "field" PROVE LinesThere
  OBVIOUS
<1>0. at \in LinesSteps
  BY DEF LinesSteps
<1>1. /\ LinesTypeOK /\ LinePlaces /\ LinesLive /\ LinesAccept("save")
      /\ UNCHANGED dynamicsLines \/ LinesCarry(at)
      /\ UNCHANGED <<op, wanted, sums, original>> /\ posted' = "none"
      /\ nth \in 1 .. Len(wanted) /\ op \in {"new", "itemize"}
  BY <1>0, AcceptedLines
<1>2. /\ nth' = nth /\ verdict' = verdict /\ 1 .. field \subseteq right'
      /\ IF field < Line.fields THEN at' = "field" /\ field' = field + 1
         ELSE at' = "saveLine" /\ field' = field
  BY <1>1 DEF LinesAccept, Proceed, FieldsRight
<1>3. UNCHANGED <<lines, sheet, card>>
  BY <1>0, <1>1, LinesCarryIs DEF dynamicsLines
<1>4. right' = right \/ \E lost \in SUBSET right : right' = (right \ lost) \cup {field}
  BY <1>0, <1>1, LinesCarryIs DEF dynamicsLines
<1>5. lines' = LinesNow' /\ Line' = Line /\ Rows' = Rows /\ nth' \in 1 .. Len(wanted')
  BY <1>0, <1>2, <1>3, SameLine DEF LineSteps, LinesSteps
<1>6. Line.fields \in 3 .. 6 /\ field \in 1 .. Line.fields /\ right \subseteq 1 .. Line.fields
  BY <1>1, AtWork DEF LinePlaces, LinesLive, FieldsOK
<1>7. LinePlaces'
  <2>1. op # "itemize"
    BY <1>1 DEF LinePlaces, LineSteps
  <2>2. at' \notin OpenSteps \cup HeaderSteps \cup ItemSteps \cup {"pickLine"}
    BY <1>2 DEF OpenSteps, HeaderSteps, ItemSteps, SheetSteps, RowParts
  <2>3. field' \in 1 .. Line'.fields /\ (at' = "saveLine" => field' = Line'.fields)
    BY <1>2, <1>5, <1>6
  <2>4. verdict' # "nil"
    BY <1>2 DEF Accept, Waiting, Pending
  <2> QED
    BY <1>1, <1>2, <1>5, <2>1, <2>2, <2>3, <2>4 DEF LinePlaces
<1>8. LinesLive'
  <2>1. seen' \in {NoList, Counts(lines')}
    BY <1>0, <1>3, SeenThere
  <2>2. right' \subseteq 1 .. Line'.fields
    BY <1>4, <1>5, <1>6
  <2>3. (at' = "field" => 1 .. (field' - 1) \subseteq right')
        /\ (at' = "saveLine" => 1 .. field' \subseteq right')
    BY <1>2, <1>6
  <2>4. FieldsOK'
    BY <2>2, <2>3 DEF FieldsOK
  <2>5. SheetOK'
    BY <1>2 DEF SheetOK, ItemSteps, SheetSteps, RowParts
  <2> QED
    BY <1>2, <2>1, <2>4, <2>5 DEF LinesLive
<1> QED
  BY <1>5, <1>7, <1>8 DEF LinesThere

(* The list after a line was itemized or needs no itemization.             *)
LEMMA LineAdded ==
  ASSUME LinesTypeOK, nth \in 1 .. Len(wanted)
  PROVE  /\ WithLines(original, SubSeq(wanted, 1, nth - 1)) \in Bag
         /\ WithRows(Plus(WithLines(original, SubSeq(wanted, 1, nth - 1)),
                          <<Line.key, TRUE>>, 1), Rows)
              = WithLines(original, SubSeq(wanted, 1, nth))
         /\ nth = Len(wanted) => SubSeq(wanted, 1, nth) = wanted
<1>1. wanted \in Seq(LineInput) /\ original \in Bag
  BY DEF LinesTypeOK
<1>2. nth - 1 \in 0 .. Len(wanted) /\ nth \in 1 .. Len(wanted)
  BY <1>1
<1>3. WithLines(original, SubSeq(wanted, 1, nth))
        = WithLine(WithLines(original, SubSeq(wanted, 1, nth - 1)), wanted[nth])
  BY <1>1, <1>2, WithLinesIs
<1>4. WithLines(original, SubSeq(wanted, 1, nth - 1)) \in Bag
  BY <1>1, <1>2, WithLinesIs
<1>5. nth = Len(wanted) => SubSeq(wanted, 1, nth) = wanted
  BY <1>1
<1> QED
  BY <1>3, <1>4, <1>5 DEF WithLine, Line, Rows

(* On to the next line, or to the end.                                     *)
LEMMA NextLineThere ==
  ASSUME LinesInv, Accept, at \in LinesSteps, NextLine("save"), op = "new",
         lines' = WithLines(original, SubSeq(wanted, 1, nth)), UNCHANGED field,
         seen' = Counts(lines'), dialog' = "none"
  PROVE  LinesThere
<1>1. /\ LinesTypeOK /\ LinePlaces
      /\ UNCHANGED <<op, wanted, sums, original>> /\ posted' = "none"
      /\ nth \in 1 .. Len(wanted)
  BY AcceptedLines
<1>2. wanted \in Seq(LineInput)
  BY <1>1 DEF LinesTypeOK
<1>3. \/ nth < Len(wanted) /\ at' = "newLine" /\ nth' = nth + 1
      \/ nth = Len(wanted) /\ at' = "save" /\ nth' = nth
  BY <1>1, <1>2 DEF NextLine, Proceed
<1>4. verdict' # "nil"
  BY DEF NextLine, Proceed, Accept, Waiting, Pending
<1>5. at' \notin OpenSteps \cup HeaderSteps \cup ItemSteps \cup {"pickLine", "field", "saveLine"}
  BY <1>3 DEF OpenSteps, HeaderSteps, ItemSteps, SheetSteps, RowParts
<1>6. LinePlaces'
  <2>1. nth' \in Nat \ {0} /\ (at' \in LinesSteps => nth' \in 1 .. Len(wanted))
    BY <1>1, <1>2, <1>3 DEF LinesSteps
  <2> QED
    BY <1>1, <1>4, <1>5, <2>1 DEF LinePlaces
<1>7. LinesLive'
  <2>1. FieldsOK' /\ SheetOK'
    BY <1>5 DEF FieldsOK, SheetOK, ItemSteps, SheetSteps, RowParts
  <2>2. Counts(lines)' = Counts(lines')
    OBVIOUS
  <2> QED
    BY <2>1, <2>2 DEF LinesLive
<1>8. lines' = LinesNow'
  <2>1. CASE nth < Len(wanted) /\ at' = "newLine" /\ nth' = nth + 1
    <3>1. at' \in LinesSteps /\ nth' - 1 = nth
      BY <1>1, <1>2, <2>1 DEF LinesSteps
    <3>2. Believed' = WithLines(original, SubSeq(wanted, 1, nth))
      BY <1>1, <2>1, <3>1 DEF Believed
    <3> QED
      BY <1>1, <3>2 DEF LinesNow
  <2>2. CASE nth = Len(wanted) /\ at' = "save" /\ nth' = nth
    <3>1. at' \notin LinesSteps \cup HeaderSteps
      BY <2>2 DEF LinesSteps, HeaderSteps
    <3>2. Believed' = WithLines(original, wanted)
      BY <1>1, <3>1 DEF Believed
    <3>3. SubSeq(wanted, 1, nth) = wanted
      BY <1>1, <2>2, LineAdded
    <3> QED
      BY <1>1, <3>2, <3>3 DEF LinesNow
  <2> QED
    BY <1>3, <2>1, <2>2
<1> QED
  BY <1>6, <1>7, <1>8 DEF LinesThere

LEMMA AcceptSaveLine == LinesInv /\ Accept /\ at = "saveLine" => LinesThere
<1> SUFFICES ASSUME LinesInv, Accept, at = "saveLine" PROVE LinesThere
  OBVIOUS
<1>0. at \in LinesSteps
  BY DEF LinesSteps
<1>1. /\ LinesTypeOK /\ LinePlaces /\ LinesLive /\ LinesAccept("save")
      /\ UNCHANGED dynamicsLines \/ LinesCarry(at)
      /\ UNCHANGED <<op, wanted, sums, original>> /\ posted' = "none"
      /\ nth \in 1 .. Len(wanted) /\ op \in {"new", "itemize"} /\ lines = Believed
  BY <1>0, AcceptedLines
<1>2. /\ dialog' = "none" /\ field' = field /\ seen # NoList
      /\ seen' = Add(seen, Line.key, 1) /\ seen' = Counts(lines')
      /\ IF HasRows THEN Proceed("lineMenu") /\ UNCHANGED nth ELSE NextLine("save")
  BY <1>1 DEF LinesAccept, Added, Observe
<1>3. /\ Line.key \in AllKeys /\ Line.fields \in 3 .. 6 /\ Rows \in Seq(ItemRow)
  BY <1>1, AtWork
<1>4. field = Line.fields /\ right = 1 .. Line.fields
  BY <1>1, <1>3 DEF LinePlaces, LinesLive, FieldsOK
<1>5. SavedKind = <<Line.key, TRUE>>
  <2>1. {1, 2} \subseteq right
    BY <1>3, <1>4
  <2> QED
    BY <1>4, <2>1 DEF SavedKind
<1>6. seen = Counts(lines)
  BY <1>1, <1>2 DEF LinesLive
<1>7. Counts(lines') = Add(Counts(lines), Line.key, 1)
  BY <1>2, <1>6
<1>8. lines \in Bag
  BY <1>1 DEF LinesTypeOK
<1>9. ~UNCHANGED dynamicsLines
  BY <1>3, <1>7, <1>8, SavedOne DEF dynamicsLines
<1>10. card' = TRUE /\ \E n \in 0 .. 2 : lines' = Plus(lines, <<Line.key, TRUE>>, n)
  BY <1>0, <1>1, <1>5, <1>9, LinesCarryIs
<1>11. lines' = Plus(lines, <<Line.key, TRUE>>, 1)
  <2>1. PICK n \in 0 .. 2 : lines' = Plus(lines, <<Line.key, TRUE>>, n)
    BY <1>10
  <2>2. PICK key \in AllKeys : key = Line.key
    BY <1>3
  <2>3. TRUE \in BOOLEAN /\ n \in Nat
    OBVIOUS
  <2>4. Counts(Plus(lines, <<key, TRUE>>, n)) = Add(Counts(lines), key, 1) => n = 1
    BY <1>8, <2>3, SavedOne
  <2>5. n = 1
    BY <1>7, <2>1, <2>2, <2>4
  <2> QED
    BY <2>1, <2>5
<1>12. lines = WithLines(original, SubSeq(wanted, 1, nth - 1)) /\ op = "new"
  <2>1. op # "itemize"
    BY <1>1 DEF LinePlaces, LineSteps
  <2> QED
    BY <1>0, <1>1, <2>1 DEF Believed
<1>13. CASE HasRows
  <2>1. at' = "lineMenu" /\ nth' = nth /\ verdict' = verdict
    BY <1>2, <1>13 DEF Proceed
  <2>2. verdict' # "nil"
    BY <2>1 DEF Accept, Waiting, Pending
  <2>3. Line' = Line /\ Rows' = Rows /\ Rows # <<>>
    BY <1>1, <1>13, <2>1 DEF Line, Rows, HasRows
  <2>4. at' \notin OpenSteps \cup HeaderSteps \cup SheetSteps \cup LineSteps \cup {"pickLine"}
    BY <2>1 DEF OpenSteps, HeaderSteps, SheetSteps, RowParts, LineSteps
  <2>5. LinePlaces'
    BY <1>1, <1>12, <2>1, <2>2, <2>3, <2>4 DEF LinePlaces, LineSteps
  <2>6. FieldsOK'
    BY <2>1 DEF FieldsOK
  <2>7. SheetOK'
    BY <1>10, <2>1 DEF SheetOK, SheetSteps, RowParts
  <2>8. LinesLive'
    BY <1>2, <2>6, <2>7 DEF LinesLive
  <2>9. at' \in LinesSteps
    BY <2>1 DEF LinesSteps
  <2>10. Believed' = Plus(WithLines(original, SubSeq(wanted, 1, nth - 1)), <<Line.key, TRUE>>, 1)
    BY <1>1, <1>12, <2>1, <2>3, <2>9 DEF Believed
  <2> QED
    BY <1>1, <1>11, <1>12, <2>5, <2>8, <2>10 DEF LinesThere, LinesNow
<1>14. CASE ~HasRows
  <2>1. Rows = <<>>
    BY <1>14 DEF HasRows
  <2>2. lines' \in Bag
    BY <1>8, <1>11, PlusIs DEF Bag
  <2>3. WithRows(lines', Rows) = lines'
    <3>1. Len(Rows) = 0
      BY <2>1
    <3> QED
      BY <1>3, <2>2, <3>1, NoRows
  <2>4. lines' = WithLines(original, SubSeq(wanted, 1, nth))
    BY <1>1, <1>11, <1>12, <2>3, LineAdded
  <2> QED
    BY <1>0, <1>2, <1>12, <1>14, <2>4, NextLineThere
<1> QED
  BY <1>13, <1>14

(* A step of an itemization that leads to another one.                     *)
LEMMA ItemThere ==
  ASSUME LinesInv, Accept, at \in ItemSteps, at' \in ItemSteps \ {"pickLine"},
         UNCHANGED <<lines, nth, field, verdict>>, card' = TRUE,
         at' \notin SheetSteps => dialog' = "none",
         at' \in SheetSteps =>
           /\ sums' /\ Len(sheet') \in 1 .. Len(Rows)
           /\ \A i \in 1 .. Len(sheet') :
                i < Len(sheet') \/ at' \in {"newRow", "closeSheet"} =>
                  {"start", "rate", "quantity"} \subseteq sheet'[i],
         at' = "newRow" => Len(sheet') < Len(Rows),
         at' = "closeSheet" => Len(sheet') = Len(Rows),
         at' = "start" => Rows[Len(sheet')].dated
  PROVE  LinesThere
<1>1. at \in LinesSteps /\ at' \in LinesSteps
  BY DEF ItemSteps, SheetSteps, RowParts, LinesSteps
<1>2. at \notin LineSteps /\ at' \notin LineSteps
  BY DEF ItemSteps, SheetSteps, RowParts, LineSteps
<1>3. /\ LinesTypeOK /\ LinePlaces /\ LinesLive
      /\ UNCHANGED <<op, wanted, sums, original>> /\ posted' = "none"
      /\ nth \in 1 .. Len(wanted) /\ op \in {"new", "itemize"}
  BY <1>1, AcceptedLines
<1>4. lines' = LinesNow' /\ Line' = Line /\ Rows' = Rows /\ nth' \in 1 .. Len(wanted')
  BY <1>1, <1>2, SameLine
<1>5. at' \notin OpenSteps \cup HeaderSteps \cup LineSteps \cup {"pickLine", "field", "saveLine"}
  BY <1>2 DEF ItemSteps, SheetSteps, RowParts, OpenSteps, HeaderSteps, LineSteps
<1>6. LinePlaces'
  <2>1. verdict' # "nil"
    BY DEF Accept, Waiting, Pending
  <2>2. Rows # <<>>
    BY <1>3 DEF LinePlaces
  <2> QED
    BY <1>3, <1>4, <1>5, <2>1, <2>2 DEF LinePlaces
<1>7. LinesLive'
  <2>1. seen' \in {NoList, Counts(lines')}
    BY <1>1, SeenThere
  <2>2. FieldsOK'
    BY <1>5 DEF FieldsOK
  <2>3. SheetOK'
    BY <1>4 DEF SheetOK
  <2> QED
    BY <2>1, <2>2, <2>3 DEF LinesLive
<1> QED
  BY <1>4, <1>6, <1>7 DEF LinesThere

LEMMA AcceptMenu == LinesInv /\ Accept /\ at \in {"pickLine", "lineMenu"} => LinesThere
<1> SUFFICES ASSUME LinesInv, Accept, at \in {"pickLine", "lineMenu"} PROVE LinesThere
  OBVIOUS
<1>0. at \in LinesSteps /\ at \in ItemSteps
  BY DEF LinesSteps, ItemSteps
<1>1. /\ LinesTypeOK /\ LinePlaces /\ LinesLive /\ LinesAccept("save")
      /\ UNCHANGED dynamicsLines \/ LinesCarry(at)
  BY <1>0, AcceptedLines
<1>2. /\ UNCHANGED <<nth, field>> /\ verdict' = verdict
      /\ \/ at = "pickLine" /\ card' /\ at' = "lineMenu"
         \/ at = "lineMenu" /\ at' = "sheet"
  BY <1>1 DEF LinesAccept, Proceed
<1>3. UNCHANGED <<lines, dialog, right, sheet>> /\ (at = "lineMenu" => card' = card)
  BY <1>0, <1>1, LinesCarryIs DEF dynamicsLines
<1>4. card' \in BOOLEAN
  BY LinesKept DEF Accept, Live, Waiting
<1>5. card' = TRUE /\ dialog' = "none"
  BY <1>0, <1>1, <1>2, <1>3, <1>4 DEF LinesLive, SheetOK, SheetSteps, RowParts, LinesTypeOK
<1>6. at' \in ItemSteps \ {"pickLine"} /\ at' \notin SheetSteps \cup {"newRow", "closeSheet", "start"}
  BY <1>2 DEF ItemSteps, SheetSteps, RowParts
<1> QED
  BY <1>0, <1>2, <1>3, <1>5, <1>6, ItemThere

LEMMA AcceptSheet == LinesInv /\ Accept /\ at = "sheet" => LinesThere
<1> SUFFICES ASSUME LinesInv, Accept, at = "sheet" PROVE LinesThere
  OBVIOUS
<1>0. at \in LinesSteps /\ at \in ItemSteps
  BY DEF LinesSteps, ItemSteps
<1>1. /\ LinesTypeOK /\ LinePlaces /\ LinesLive /\ LinesAccept("save")
      /\ UNCHANGED dynamicsLines \/ LinesCarry(at)
      /\ UNCHANGED <<op, wanted, sums, original>>
      /\ nth \in 1 .. Len(wanted)
  BY <1>0, AcceptedLines
<1>2. UNCHANGED <<nth, field>> /\ verdict' = verdict /\ dialog' = "sheet" /\ sums /\ at' = "subcategory"
  BY <1>1 DEF LinesAccept, Proceed
<1>3. dialog = "none" /\ card = TRUE
  BY <1>0, <1>1 DEF LinesLive, SheetOK, SheetSteps, RowParts, LinesTypeOK
<1>4. /\ sheet' = <<IF Rows[1].dated THEN {} ELSE {"start"}>>
      /\ UNCHANGED <<lines, right, card>>
  BY <1>0, <1>1, <1>2, <1>3, LinesCarryIs DEF dynamicsLines
<1>5. Len(sheet') = 1
  BY <1>4
<1>6. Rows # <<>> /\ Rows \in Seq(ItemRow)
  BY <1>0, <1>1, AtWork DEF LinePlaces
<1>7. Len(sheet') \in 1 .. Len(Rows)
  BY <1>5, <1>6
<1>8. at' \in ItemSteps \ {"pickLine"} /\ at' \notin {"newRow", "closeSheet", "start"}
      /\ at' \in SheetSteps
  BY <1>2 DEF ItemSteps, SheetSteps, RowParts
<1>9. \A i \in 1 .. Len(sheet') : ~(i < Len(sheet'))
  BY <1>5
<1> QED
  BY <1>0, <1>1, <1>2, <1>3, <1>4, <1>7, <1>8, <1>9, ItemThere

LEMMA AcceptNewRow == LinesInv /\ Accept /\ at = "newRow" => LinesThere
<1> SUFFICES ASSUME LinesInv, Accept, at = "newRow" PROVE LinesThere
  OBVIOUS
<1>0. at \in LinesSteps /\ at \in ItemSteps /\ at \in SheetSteps
  BY DEF LinesSteps, ItemSteps, SheetSteps
<1>1. /\ LinesTypeOK /\ LinePlaces /\ LinesLive /\ LinesAccept("save")
      /\ UNCHANGED dynamicsLines \/ LinesCarry(at)
      /\ UNCHANGED <<op, wanted, sums, original>>
      /\ nth \in 1 .. Len(wanted)
  BY <1>0, AcceptedLines
<1>2. /\ UNCHANGED <<nth, field>> /\ verdict' = verdict /\ at' = "subcategory"
      /\ Len(sheet') = Len(sheet) + 1
  BY <1>1 DEF LinesAccept, Proceed
<1>3. /\ card = TRUE /\ sums /\ sheet \in Seq(SUBSET RowParts)
      /\ Len(sheet) \in 1 .. Len(Rows) /\ Len(sheet) < Len(Rows)
      /\ \A i \in 1 .. Len(sheet) : {"start", "rate", "quantity"} \subseteq sheet[i]
  BY <1>0, <1>1 DEF LinesLive, SheetOK, LinesTypeOK, ItemSteps, SheetSteps
<1>4. sheet' # sheet
  BY <1>2, <1>3
<1>5. sheet' = Append(sheet, NewRowParts) /\ UNCHANGED <<lines, dialog, right, card>>
  BY <1>0, <1>1, <1>4, LinesCarryIs DEF dynamicsLines
<1>6. Rows \in Seq(ItemRow)
  BY <1>1, AtWork
<1>7. Len(sheet') \in 1 .. Len(Rows)
  BY <1>2, <1>3, <1>6
<1>8. \A i \in 1 .. Len(sheet') :
        i < Len(sheet') => {"start", "rate", "quantity"} \subseteq sheet'[i]
  <2> SUFFICES ASSUME NEW i \in 1 .. Len(sheet), i < Len(sheet')
               PROVE  {"start", "rate", "quantity"} \subseteq sheet'[i]
    BY <1>2, <1>3
  <2>1. sheet'[i] = sheet[i]
    BY <1>3, <1>5
  <2> QED
    BY <1>3, <2>1
<1>9. at' \in ItemSteps \ {"pickLine"} /\ at' \notin {"newRow", "closeSheet", "start"}
      /\ at' \in SheetSteps
  BY <1>2 DEF ItemSteps, SheetSteps, RowParts
<1> QED
  BY <1>0, <1>1, <1>2, <1>3, <1>5, <1>7, <1>8, <1>9, ItemThere

(* A part of the last row is set: the other rows remain.                   *)
LEMMA AcceptPart == LinesInv /\ Accept /\ at \in RowParts => LinesThere
<1> SUFFICES ASSUME LinesInv, Accept, at \in RowParts PROVE LinesThere
  OBVIOUS
<1>0. at \in LinesSteps /\ at \in ItemSteps /\ at \in SheetSteps
  BY DEF LinesSteps, ItemSteps, SheetSteps, RowParts
<1>1. /\ LinesTypeOK /\ LinePlaces /\ LinesLive /\ LinesAccept("save")
      /\ UNCHANGED dynamicsLines \/ LinesCarry(at)
      /\ UNCHANGED <<op, wanted, sums, original>>
      /\ nth \in 1 .. Len(wanted)
  BY <1>0, AcceptedLines
<1>2. /\ UNCHANGED <<nth, field>> /\ verdict' = verdict
      /\ \/ at = "subcategory" /\ at' = AfterSubcategory
         \/ at = "start" /\ at' = "rate"
         \/ at = "rate" /\ at' = "quantity"
         \/ /\ at = "quantity" /\ {"start", "rate", "quantity"} \subseteq sheet'[Len(sheet)]
            /\ at' = AfterRow
  <2>1. at \in {"subcategory", "start", "rate", "quantity"}
    BY DEF RowParts
  <2>2. CASE at = "subcategory"
    <3>1. UNCHANGED <<nth, field>> /\ Proceed(AfterSubcategory)
      BY <1>1, <2>2 DEF LinesAccept
    <3>2. AfterSubcategory # "done"
      BY DEF AfterSubcategory
    <3> QED
      BY <2>2, <3>1, <3>2 DEF Proceed
  <2>3. CASE at = "start"
    BY <1>1, <2>3 DEF LinesAccept, Proceed
  <2>4. CASE at = "rate"
    BY <1>1, <2>4 DEF LinesAccept, Proceed
  <2>5. CASE at = "quantity"
    <3>1. /\ UNCHANGED <<nth, field>> /\ Proceed(AfterRow)
          /\ {"start", "rate", "quantity"} \subseteq sheet'[Len(sheet)]
      BY <1>1, <2>5 DEF LinesAccept
    <3>2. AfterRow # "done"
      BY DEF AfterRow
    <3> QED
      BY <2>5, <3>1, <3>2 DEF Proceed
  <2> QED
    BY <2>1, <2>2, <2>3, <2>4, <2>5
<1>3. /\ card = TRUE /\ sums /\ sheet \in Seq(SUBSET RowParts)
      /\ Len(sheet) \in 1 .. Len(Rows)
      /\ \A i \in 1 .. Len(sheet) :
           i < Len(sheet) => {"start", "rate", "quantity"} \subseteq sheet[i]
  <2>1. at \in ItemSteps \ {"pickLine"}
    BY <1>0 DEF RowParts
  <2>2. SheetOK /\ card \in BOOLEAN /\ sheet \in Seq(SUBSET RowParts)
    BY <1>1 DEF LinesLive, LinesTypeOK
  <2> QED
    BY <1>0, <2>1, <2>2 DEF SheetOK
<1>4. \/ sheet' = sheet
      \/ \E lost \in SUBSET sheet[Len(sheet)] :
           sheet' = LastRow((sheet[Len(sheet)] \ lost) \cup {at})
  BY <1>0, <1>1, LinesCarryIs DEF dynamicsLines
<1>5. UNCHANGED <<lines, dialog, right, card>>
  BY <1>0, <1>1, LinesCarryIs DEF dynamicsLines
<1>6. Len(sheet') = Len(sheet) /\ \A i \in 1 .. Len(sheet) : i < Len(sheet) => sheet'[i] = sheet[i]
  BY <1>3, <1>4 DEF LastRow
<1>7. at' \in SheetSteps /\ at' # "newRow" => at' # "pickLine"
  BY DEF SheetSteps, RowParts
<1>8. /\ at' \in {"start", "rate", "quantity", "newRow", "closeSheet"}
      /\ at' = "start" => Rows[Len(sheet)].dated
      /\ at' = "newRow" => Len(sheet) < Len(Rows)
      /\ at' = "closeSheet" => ~(Len(sheet) < Len(Rows))
      /\ at' \in {"newRow", "closeSheet"} =>
           {"start", "rate", "quantity"} \subseteq sheet'[Len(sheet)]
  BY <1>2 DEF AfterSubcategory, AfterRow
<1>9. Rows \in Seq(ItemRow)
  BY <1>1, AtWork
<1>10. at' = "closeSheet" => Len(sheet') = Len(Rows)
  BY <1>3, <1>6, <1>8, <1>9
<1>11. \A i \in 1 .. Len(sheet') :
         i < Len(sheet') \/ at' \in {"newRow", "closeSheet"} =>
           {"start", "rate", "quantity"} \subseteq sheet'[i]
  <2> SUFFICES ASSUME NEW i \in 1 .. Len(sheet'),
                      i < Len(sheet') \/ at' \in {"newRow", "closeSheet"}
               PROVE  {"start", "rate", "quantity"} \subseteq sheet'[i]
    OBVIOUS
  <2>1. CASE i < Len(sheet)
    BY <1>3, <1>6, <2>1
  <2>2. CASE i = Len(sheet)
    BY <1>6, <1>8, <2>2
  <2> QED
    BY <1>3, <1>6, <2>1, <2>2
<1>12. at' \in ItemSteps \ {"pickLine"} /\ at' \in SheetSteps
  BY <1>8 DEF ItemSteps, SheetSteps, RowParts
<1>13. /\ at' = "start" => Rows[Len(sheet')].dated
       /\ at' = "newRow" => Len(sheet') < Len(Rows)
       /\ Len(sheet') \in 1 .. Len(Rows)
  BY <1>3, <1>6, <1>8
<1> QED
  BY <1>0, <1>1, <1>2, <1>3, <1>5, <1>10, <1>11, <1>12, <1>13, ItemThere

(* The itemization is closed: the list shows just the days of the rows     *)
(* more, so each of the lines made is the one asked for.                   *)
LEMMA ClosedLines ==
  ASSUME LinesInv, Accept, at = "closeSheet"
  PROVE  /\ lines' = WithRows(lines, Rows) /\ seen' = Counts(lines') /\ dialog' = "none"
         /\ NextLine("save") /\ UNCHANGED field
<1>0. at \in LinesSteps /\ at \in ItemSteps /\ at \in SheetSteps
  BY DEF LinesSteps, ItemSteps, SheetSteps
<1>1. /\ LinesTypeOK /\ LinePlaces /\ LinesLive /\ LinesAccept("save")
      /\ UNCHANGED dynamicsLines \/ LinesCarry(at)
      /\ nth \in 1 .. Len(wanted)
  BY <1>0, AcceptedLines
<1>2. /\ dialog' = "none" /\ UNCHANGED field /\ seen # NoList
      /\ seen' = Expected /\ seen' = Counts(lines') /\ NextLine("save")
  BY <1>1 DEF LinesAccept, Added, Observe
<1>3. SheetOK /\ sheet \in Seq(SUBSET RowParts) /\ lines \in Bag
      /\ seen \in {NoList, Counts(lines)}
  BY <1>1 DEF LinesLive, LinesTypeOK
<1>4. /\ Len(sheet) = Len(Rows)
      /\ \A i \in 1 .. Len(sheet) : {"start", "rate", "quantity"} \subseteq sheet[i]
  BY <1>0, <1>3 DEF SheetOK
<1>5. PICK items \in Seq(ItemRow) : items = Rows
  BY <1>1, AtWork
<1>6. items # <<>>
  BY <1>0, <1>1, <1>5 DEF LinePlaces
<1>7. PICK counts \in [AllKeys -> Nat] : counts = Counts(lines)
  BY <1>3, CountsAre
<1>8. Expected = PlusAll(counts, RowKeys(items), items)
  BY <1>2, <1>3, <1>5, <1>7 DEF Expected, RowKeys
<1>9. Counts(lines') # Counts(lines)
  <2>1. PlusAll(counts, RowKeys(items), items) # counts
    BY <1>6, ClosedSome
  <2> QED
    BY <1>2, <1>7, <1>8, <2>1
<1>10. lines' # lines
  BY <1>9
<1>11. lines' = Itemized
  BY <1>0, <1>1, <1>10, LinesCarryIs DEF dynamicsLines
<1> DEFINE kinds == [i \in DOMAIN sheet |-> RowKind(i)]
<1>12. DOMAIN kinds = 1 .. Len(items)
  BY <1>3, <1>4, <1>5
<1>13. \A i \in 1 .. Len(items) : kinds[i] \in {<<items[i].key, TRUE>>, <<OtherKey, FALSE>>}
  <2> SUFFICES ASSUME NEW i \in 1 .. Len(items)
               PROVE  kinds[i] \in {<<items[i].key, TRUE>>, <<OtherKey, FALSE>>}
    OBVIOUS
  <2>1. kinds[i] = RowKind(i)
    BY <1>12
  <2>2. sheet[i] \in SUBSET RowParts /\ {"start", "rate", "quantity"} \subseteq sheet[i]
    BY <1>3, <1>4, <1>5
  <2>3. CASE "subcategory" \in sheet[i]
    <3>1. sheet[i] = RowParts
      BY <2>2, <2>3 DEF RowParts
    <3>2. RowKind(i) = <<items[i].key, TRUE>>
      <4>1. {"subcategory", "start"} \subseteq sheet[i]
        BY <2>2, <2>3
      <4> QED
        BY <1>5, <3>1, <4>1 DEF RowKind
    <3> QED
      BY <2>1, <3>2
  <2>4. CASE "subcategory" \notin sheet[i]
    <3>1. sheet[i] # RowParts /\ ~({"subcategory", "start"} \subseteq sheet[i])
      BY <2>4 DEF RowParts
    <3>2. RowKind(i) = <<OtherKey, FALSE>>
      BY <3>1 DEF RowKind
    <3> QED
      BY <2>1, <3>2
  <2> QED
    BY <2>3, <2>4
<1>14. Itemized = PlusAll(lines, kinds, items)
  BY <1>5 DEF Itemized
<1> HIDE DEF kinds
<1>15. Counts(PlusAll(lines, kinds, items)) = PlusAll(Counts(lines), RowKeys(items), items)
  <2>1. Counts(lines') = PlusAll(counts, RowKeys(items), items)
    BY <1>2, <1>8
  <2> QED
    BY <1>7, <1>11, <1>14, <2>1
<1>16. \A i \in 1 .. Len(items) : kinds[i] = <<items[i].key, TRUE>>
  BY <1>3, <1>12, <1>13, <1>15, ClosedAll
<1>17. kinds = RowKinds(items)
  <2>1. RowKinds(items) = [i \in 1 .. Len(items) |-> <<items[i].key, TRUE>>]
    BY DEF RowKinds
  <2>2. kinds = [i \in 1 .. Len(items) |-> kinds[i]]
    <3>1. kinds = [i \in DOMAIN kinds |-> kinds[i]]
      BY DEF kinds
    <3> QED
      BY <1>12, <3>1
  <2> QED
    BY <1>16, <2>1, <2>2
<1>18. lines' = WithRows(lines, items)
  BY <1>11, <1>14, <1>17 DEF WithRows, RowKinds
<1> QED
  BY <1>2, <1>5, <1>18

LEMMA AcceptCloseSheet == LinesInv /\ Accept /\ at = "closeSheet" => LinesThere
<1> SUFFICES ASSUME LinesInv, Accept, at = "closeSheet" PROVE LinesThere
  OBVIOUS
<1>0. at \in LinesSteps /\ at \in ItemSteps
  BY DEF LinesSteps, ItemSteps, SheetSteps
<1>1. /\ LinesTypeOK /\ LinePlaces /\ LinesLive
      /\ UNCHANGED <<op, wanted, sums, original>> /\ posted' = "none"
      /\ nth \in 1 .. Len(wanted) /\ op \in {"new", "itemize"} /\ lines = Believed
  BY <1>0, AcceptedLines
<1>2. /\ lines' = WithRows(lines, Rows) /\ seen' = Counts(lines') /\ dialog' = "none"
      /\ NextLine("save") /\ UNCHANGED field
  BY ClosedLines
<1>3. CASE op = "new"
  <2>1. lines = Plus(WithLines(original, SubSeq(wanted, 1, nth - 1)), <<Line.key, TRUE>>, 1)
    BY <1>0, <1>1, <1>3 DEF Believed
  <2>2. lines' = WithLines(original, SubSeq(wanted, 1, nth))
    BY <1>1, <1>2, <2>1, LineAdded
  <2> QED
    BY <1>0, <1>2, <1>3, <2>2, NextLineThere
<1>4. CASE op = "itemize"
  <2>1. Len(wanted) = 1 /\ nth = 1 /\ wanted[1].rows # <<>>
    BY <1>1, <1>4 DEF LinePlaces
  <2>2. at' = "save" /\ nth' = nth /\ verdict' = verdict
    BY <1>2, <2>1 DEF NextLine, Proceed
  <2>3. verdict' # "nil"
    BY <2>2 DEF Accept, Waiting, Pending
  <2>4. at' \notin OpenSteps \cup LinesSteps \cup HeaderSteps \cup ItemSteps \cup LineSteps
    BY <2>2 DEF OpenSteps, LinesSteps, HeaderSteps, ItemSteps, SheetSteps, RowParts, LineSteps
  <2>5. at' \notin {"pickLine", "field", "saveLine"}
    BY <2>2
  <2>6. LinePlaces'
    BY <1>1, <1>4, <2>1, <2>2, <2>3, <2>4, <2>5 DEF LinePlaces
  <2>7. LinesLive'
    <3>1. FieldsOK' /\ SheetOK'
      BY <2>2, <2>4 DEF FieldsOK, SheetOK, ItemSteps
    <3>2. Counts(lines)' = Counts(lines')
      OBVIOUS
    <3> QED
      BY <1>2, <3>1, <3>2 DEF LinesLive
  <2>8. lines' = LinesNow'
    <3>1. lines = original
      BY <1>0, <1>1, <1>4 DEF Believed
    <3>2. Rows' = Rows
      BY <1>1, <2>2 DEF Rows, Line
    <3>3. Believed' = WithRows(original, Rows)
      BY <1>1, <1>4, <2>4, <3>2 DEF Believed
    <3> QED
      BY <1>1, <1>2, <2>4, <3>1, <3>3 DEF LinesNow
  <2> QED
    BY <2>6, <2>7, <2>8 DEF LinesThere
<1> QED
  BY <1>1, <1>3, <1>4

(* The step of an accepted answer on the lines.                            *)
LEMMA AcceptLines == LinesInv /\ Accept /\ at \in LinesSteps => LinesInv'
<1> SUFFICES ASSUME LinesInv, Accept, at \in LinesSteps PROVE LinesInv'
  OBVIOUS
<1>1. LinesThere
  BY AcceptNewLine, AcceptField, AcceptSaveLine, AcceptMenu, AcceptSheet, AcceptNewRow,
     AcceptPart, AcceptCloseSheet DEF LinesSteps, RowParts
<1>2. /\ LinesTypeOK /\ LinesAccept("save") /\ UNCHANGED <<op, wanted, sums, original>>
      /\ nth \in 1 .. Len(wanted)
  BY AcceptedLines
<1>3. Live /\ CarryOut(at)
  BY DEF Accept, Waiting, Live
<1>4. /\ lines' \in Bag /\ Least(lines', original)
      /\ dialog' \in {"none", "line", "sheet"} /\ right' \subseteq 1 .. 6
      /\ sheet' \in Seq(SUBSET RowParts) /\ card' \in BOOLEAN
  BY <1>3, LinesKept
<1>5. seen' \in [AllKeys -> Nat] \cup {NoList}
  <2>1. seen' \in {NoList, Counts(lines')}
    <3>1. seen' = Counts(lines') \/ seen' = seen
      BY <1>2 DEF LinesAccept, Observe
    <3> QED
      BY <1>1, <3>1 DEF LinesThere, LinesLive
  <2>2. Counts(lines') \in [AllKeys -> Nat]
    BY <1>4, CountsAre
  <2> QED
    BY <2>1, <2>2
<1>6. nth' \in Nat \ {0} /\ field' \in Nat
  <2>1. nth' \in {nth, nth + 1} /\ field' \in {1, field, field + 1}
    BY <1>2 DEF LinesAccept, NextLine
  <2> QED
    BY <1>2, <2>1 DEF LinesTypeOK
<1>7. LinesTypeOK'
  BY <1>2, <1>4, <1>5, <1>6 DEF LinesTypeOK
<1>8. \A kind \in AllKeys \X BOOLEAN : lines'[kind] >= original'[kind]
  BY <1>2, <1>4 DEF Least
<1> QED
  BY <1>1, <1>7, <1>8 DEF LinesInv, LinesThere

LEMMA LinesAcceptInv == LinesInv /\ Accept => LinesInv'
  BY AcceptAway, AcceptLines

(* An operation that has ended may yet have its request carried out.       *)
LEMMA LinesEnded ==
  ASSUME LinesInv, Live, CarryOut(at), UNCHANGED <<op, at, clientLines>>,
         posted' = "none", verdict' \notin {"pending", "nil"}
  PROVE  LinesInv'
<1>1. /\ lines' \in Bag /\ Least(lines', original)
      /\ dialog' \in {"none", "line", "sheet"} /\ right' \subseteq 1 .. 6
      /\ sheet' \in Seq(SUBSET RowParts) /\ card' \in BOOLEAN
  BY LinesKept
<1>2. UNCHANGED <<wanted, sums, original, seen, nth, field>>
  BY DEF clientLines
<1>3. LinesTypeOK /\ LinePlaces
  BY DEF LinesInv
<1>4. LinesTypeOK'
  BY <1>1, <1>2, <1>3 DEF LinesTypeOK
<1>5. ~Live' /\ ~Reported'
  BY DEF Live, Reported, Pending
<1>6. LinePlaces'
  <2>1. Rows' = Rows /\ Line' = Line
    BY <1>2 DEF Rows, Line
  <2> QED
    BY <1>2, <1>3, <2>1 DEF LinePlaces
<1>7. \A kind \in AllKeys \X BOOLEAN : lines'[kind] >= original'[kind]
  BY <1>1, <1>2 DEF Least
<1> QED
  BY <1>4, <1>5, <1>6, <1>7 DEF LinesInv

LEMMA LinesRejectInv == LinesInv /\ Reject => LinesInv'
<1> SUFFICES ASSUME LinesInv, Reject PROVE LinesInv'
  OBVIOUS
<1>1. Live /\ CarryOut(at) /\ UNCHANGED <<op, at, clientLines>> /\ posted' = "none"
  BY DEF Reject, Waiting, Live, End
<1>2. verdict' \notin {"pending", "nil"}
  BY ErrorClasses DEF Reject, End
<1> QED
  BY <1>1, <1>2, LinesEnded

LEMMA LinesLateInv == LinesInv /\ LateEffect => LinesInv'
<1> SUFFICES ASSUME LinesInv, LateEffect PROVE LinesInv'
  OBVIOUS
<1>1. posted = at /\ verdict # "nil"
  BY DEF LateEffect, LinesInv, LinePlaces
<1>2. Live /\ CarryOut(at) /\ UNCHANGED <<op, at, clientLines>> /\ posted' = "none"
  BY <1>1 DEF LateEffect, Live
<1>3. verdict' \notin {"pending", "nil"}
  BY <1>1 DEF LateEffect, Pending
<1> QED
  BY <1>2, <1>3, LinesEnded

LEMMA LinesQuietInv ==
  LinesInv /\ (Post \/ GiveUp \/ Abandon \/ UNCHANGED vars) => LinesInv'
<1> SUFFICES ASSUME LinesInv, Post \/ GiveUp \/ Abandon \/ UNCHANGED vars
             PROVE  LinesInv'
  OBVIOUS
<1>1. UNCHANGED <<op, at, linesVars>>
  BY DEF Post, GiveUp, Abandon, Send, End, vars, exchangeVars
<1>2. UNCHANGED <<wanted, sums, lines, dialog, right, sheet, card, original, seen, nth, field>>
  BY <1>1 DEF linesVars, dynamicsLines, clientLines
<1>3. /\ posted' \in {"none", at'} /\ (verdict' = "nil" => posted' = "none")
      /\ (Live' => Live) /\ (Reported' => Reported)
  <2>1. posted \in {"none", at} /\ (verdict = "nil" => posted = "none")
    BY DEF LinesInv, LinePlaces
  <2>2. CASE Post
    BY <2>1, <2>2 DEF Post, Send, Pending, Live, Reported
  <2>3. CASE GiveUp
    BY <2>1, <2>3, ErrorClasses DEF GiveUp, Waiting, End, Pending, Live, Reported
  <2>4. CASE Abandon
    <3>1. verdict' \notin {"nil", "pending"} /\ posted' = posted /\ posted = "none"
      BY <2>4, ErrorClasses DEF Abandon, Unsent, End
    <3> QED
      BY <2>1, <3>1 DEF Pending, Live, Reported
  <2>5. CASE UNCHANGED vars
    BY <1>1, <2>1, <2>5 DEF vars, exchangeVars, Live, Reported, Pending
  <2> QED
    BY <2>2, <2>3, <2>4, <2>5
<1>4. LinesTypeOK /\ LinePlaces /\ Least(lines, original)
  BY DEF LinesInv, Least
<1>5. /\ Rows' = Rows /\ Line' = Line /\ Counts(lines)' = Counts(lines)
      /\ LinesNow' = LinesNow
  <2>1. Rows' = Rows /\ Line' = Line
    BY <1>2 DEF Rows, Line
  <2>2. Believed' = Believed
    BY <1>1, <1>2, <2>1 DEF Believed
  <2> QED
    BY <1>1, <1>2, <2>1, <2>2 DEF LinesNow, Counts
<1>6. LinesTypeOK'
  BY <1>2, <1>4 DEF LinesTypeOK
<1>7. LinePlaces'
  BY <1>1, <1>2, <1>3, <1>4, <1>5 DEF LinePlaces
<1>8. LinesLive => LinesLive'
  BY <1>1, <1>2, <1>5 DEF LinesLive, FieldsOK, SheetOK
<1>9. \A kind \in AllKeys \X BOOLEAN : lines'[kind] >= original'[kind]
  BY <1>2, <1>4 DEF Least
<1>10. Reported /\ op \in {"new", "itemize"} => lines = LinesNow
  BY DEF LinesInv
<1>11. Reported' /\ op' \in {"new", "itemize"} => lines' = LinesNow'
  BY <1>1, <1>2, <1>3, <1>5, <1>10
<1> QED
  BY <1>3, <1>6, <1>7, <1>8, <1>9, <1>11 DEF LinesInv

LEMMA InitLines == Init => LinesInv
<1> SUFFICES ASSUME Init PROVE LinesInv
  OBVIOUS
<1>1. /\ op \in Ops /\ posted = "none" /\ verdict = "pending"
      /\ at = IF op # "new" THEN "refresh" ELSE IF HasHeader THEN "menu" ELSE ToLines
  BY DEF Init
<1>2. /\ wanted \in Seq(LineInput)
      /\ op = "new" => wanted # <<>> \/ HasHeader
      /\ op = "itemize" => Len(wanted) = 1 /\ wanted[1].rows # <<>>
      /\ original \in ReportLines \cup {NoLines}
  <2>1. /\ wanted \in (IF op = "new" THEN {l \in LineInputs : l # <<>> \/ HasHeader}
                       ELSE IF op = "itemize"
                       THEN {l \in LineInputs : Len(l) = 1 /\ l[1].rows # <<>>}
                       ELSE {<<>>})
        /\ original \in (IF op \in {"new", "itemize"} THEN ReportLines ELSE {NoLines})
    BY DEF Init, LinesInit
  <2>2. <<>> \in Seq(LineInput) /\ LineInputs \subseteq Seq(LineInput)
    BY LinesAssumption
  <2>3. CASE op = "new"
    BY <2>1, <2>2, <2>3
  <2>4. CASE op = "itemize"
    BY <2>1, <2>2, <2>4
  <2>5. CASE op \notin {"new", "itemize"}
    BY <2>1, <2>2, <2>5
  <2> QED
    BY <2>3, <2>4, <2>5
<1>3. NoLines \in Bag
  BY DEF NoLines, Bag
<1>4. original \in Bag
  BY <1>2, <1>3, DraftsAssumption
<1>5. /\ lines = original /\ dialog = "none" /\ right = {} /\ sheet = <<>>
      /\ sums \in BOOLEAN /\ card \in BOOLEAN /\ seen \in {NoList, Counts(lines)}
      /\ nth = 1 /\ field = 0
  BY DEF Init, LinesInit
<1>6. Counts(lines) \in [AllKeys -> Nat]
  BY <1>4, <1>5, CountsAre
<1>7. LinesTypeOK
  BY <1>2, <1>4, <1>5, <1>6 DEF LinesTypeOK
<1>8. at \in {"refresh", "menu", "newLine"} /\ (at = "refresh" <=> op # "new")
      /\ (at = "newLine" => wanted # <<>>)
  BY <1>1, <1>2 DEF ToLines
<1>9. at \notin ItemSteps \cup {"field", "saveLine"} \cup SheetSteps
  BY <1>8 DEF ItemSteps, SheetSteps, RowParts
<1>10. LinePlaces
  <2>1. at \in LinesSteps => op = "new" /\ nth \in 1 .. Len(wanted)
    BY <1>2, <1>5, <1>8 DEF LinesSteps
  <2>2. op = "itemize" => at \notin LineSteps \cup HeaderSteps
    BY <1>8 DEF LineSteps, HeaderSteps
  <2>3. op = "new" => at \notin OpenSteps \cup {"pickLine"}
    BY <1>8 DEF OpenSteps
  <2> QED
    BY <1>1, <1>2, <1>5, <1>9, <2>1, <2>2, <2>3 DEF LinePlaces
<1>11. LinesLive
  <2>1. at \notin {"newRow", "closeSheet", "start"}
    BY <1>8
  <2>2. FieldsOK /\ SheetOK
    BY <1>9, <2>1 DEF FieldsOK, SheetOK
  <2> QED
    BY <1>5, <2>2 DEF LinesLive
<1>12. op \in {"new", "itemize"} => lines = LinesNow
  <2>1. CASE at = "refresh"
    <3>1. at \in OpenSteps
      BY <2>1 DEF OpenSteps
    <3> QED
      BY <1>5, <1>8, <2>1, <3>1 DEF LinesNow
  <2>2. CASE at = "menu"
    <3>1. at \in HeaderSteps /\ at \notin LinesSteps
      BY <2>2 DEF HeaderSteps, LinesSteps
    <3> QED
      BY <1>5, <1>8, <2>2, <3>1 DEF LinesNow, Believed
  <2>3. CASE at = "newLine"
    <3>1. at \in LinesSteps
      BY <2>3 DEF LinesSteps
    <3>2. SubSeq(wanted, 1, nth - 1) = <<>>
      BY <1>2, <1>5
    <3>3. WithLines(original, SubSeq(wanted, 1, nth - 1)) = original
      BY <1>2, <1>4, <3>2, WithLinesIs
    <3>4. op = "new"
      BY <1>8, <2>3
    <3>5. Believed = WithLines(original, SubSeq(wanted, 1, nth - 1))
      BY <2>3, <3>1, <3>4 DEF Believed
    <3> QED
      BY <1>5, <3>3, <3>4, <3>5 DEF LinesNow
  <2> QED
    BY <1>8, <2>1, <2>2, <2>3
<1>13. \A kind \in AllKeys \X BOOLEAN : lines[kind] >= original[kind]
  <2>1. \A kind \in AllKeys \X BOOLEAN : original[kind] \in Nat
    BY <1>4 DEF Bag
  <2> QED
    BY <1>5, <2>1
<1> QED
  BY <1>1, <1>7, <1>10, <1>11, <1>12, <1>13 DEF LinesInv

(* LinesOnTheWay holds of every instance: however many lines with however  *)
(* many fields and rows are asked for, whichever lines the report had, and *)
(* whatever Dynamics ignores, disturbs, saves twice or does not list.      *)
THEOREM LinesRight == Spec => []LinesOnTheWay
<1>1. LinesInv /\ [Next]_vars => LinesInv'
  BY LinesAcceptInv, LinesRejectInv, LinesLateInv, LinesQuietInv DEF Next, Stop
<1>2. LinesInv => LinesOnTheWay
  <2> SUFFICES ASSUME LinesInv PROVE LinesOnTheWay
    OBVIOUS
  <2>1. DOMAIN lines = AllKeys \X BOOLEAN
    BY DEF LinesInv, LinesTypeOK, Bag
  <2>2. Pending /\ at = "closeSheet" => card /\ sums
    BY DEF LinesInv, Live, LinesLive, SheetOK, ItemSteps, SheetSteps
  <2>3. op \in {"new", "itemize"} /\ Pending /\ at \notin OpenSteps => lines = Believed
    BY DEF LinesInv, Live, Reported, LinesNow
  <2> QED
    BY <2>1, <2>2, <2>3 DEF LinesInv, LinesOnTheWay
<1> QED
  BY InitLines, <1>1, <1>2, PTL DEF Spec
=============================================================================
