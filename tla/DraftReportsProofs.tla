------------------------- MODULE DraftReportsProofs -------------------------
(***************************************************************************)
(* The commands on a Draft as a whole: their state is always of its type   *)
(* (TypeOK), what the caller is told at the end is what happened in        *)
(* Dynamics (KeepsPromise), the sequence numbers reserved suffice          *)
(* (HeadroomSuffices), and a dry run tells how many requests there will be *)
(* (PlanIsExact), for every command, every report and every behaviour of   *)
(* Dynamics.                                                               *)
(*                                                                         *)
(* The parts of a command are proved about one by one in DraftPartsProofs. *)
(* Here they are put together: which steps each                            *)
(* command consists of (WayInv), that each part has done its work when the *)
(* next one begins (HeaderOn, LinesInv, ReceiptsOn), and that until its    *)
(* first request that changes something may have been carried out nothing  *)
(* has changed (Clean), which makes an ordinary error honest.  The numbers *)
(* follow from what was sent by the time a step is reached (Sent): every   *)
(* accepted answer leads to a step by which at least that much more is     *)
(* accounted for, and at every step what is left suffices for its request. *)
(***************************************************************************)
EXTENDS DraftPartsProofs

-----------------------------------------------------------------------------
(* The way of each operation.                                              *)

StepsOf(o) ==
  CASE o = "show"    -> OpenSteps \cup {"tab", "save"}
    [] o = "edit"    -> OpenSteps \cup HeaderSteps \cup {"save"}
    [] o = "itemize" -> OpenSteps \cup LinesSteps \cup {"save"}
    [] o = "submit"  -> OpenSteps \cup {"submit", "resubmitted"}
    [] o = "delete"  -> {"refresh", "mark", "delete", "yes", "gone"}
    [] o = "add"     -> OpenSteps \cup {"tab", "upload", "save"}
    [] o = "remove"  -> OpenSteps \cup {"tab", "pickReceipt", "remove", "yesRemove", "save"}
    [] o = "attach"  -> OpenSteps \cup {"tab", "pickReceipt", "popup", "pickPopupLine",
                                        "attach", "closePopup", "save"}
    [] o = "new"     -> HeaderSteps \cup LinesSteps \cup {"save"}
WayInv ==
  /\ op \in Ops /\ at \in StepsOf(op) \cup {"done"} /\ posted \in {"none", at}
  /\ verdict \in Verdicts /\ used \in Nat /\ requests \in Nat
  /\ verdict = "nil" => posted = "none"
  /\ at = "done" => verdict = "nil"

-----------------------------------------------------------------------------
(* The header.                                                             *)

\* The approvers are as asked for.
Settled ==
  header.names # <<>> =>
    /\ Len(rows) = Len(header.names)
    /\ \A i \in 1 .. Len(rows) : rows[i].worker \in header.names[i].who
HeaderLeft == at \in OpenSteps \cup (HeaderSteps \ {"okDialog", "okEdit"})
HeaderSoFar ==
  /\ at \in {"title", "final"} => listed = before
  /\ at = "final" => "title" \notin unset
  /\ at \in Dialog \cup {"approvers", "okDialog", "okEdit"} => unset = {}
  /\ at \in Dialog \cup {"okDialog"} => dialogs \in 1 .. 2
  /\ at \in {"approvers", "okDialog"} => header.names # <<>>
  /\ op \in {"edit", "new"} /\ ~HeaderLeft => unset = {} /\ Settled
HeaderOn == HeaderTypeOK /\ (Reported => HeaderSoFar)

-----------------------------------------------------------------------------
(* What each operation leaves alone.                                       *)

NoneGone == \A r \in Reports : status[r] # "gone"
NoneSubmitted == \A r \in Reports : status[r] # "Submitted"
ReceiptsSame == onReport = first.receipts /\ link = first.link
Frame ==
  /\ op \notin {"edit", "new"} \/ at \in OpenSteps => unset = header.fields /\ Saved = before
  /\ op \notin {"itemize", "new"} => lines = original
  /\ op = "itemize" /\ at \in OpenSteps \cup {"pickLine", "lineMenu"} => lines = original
  /\ op # "add" \/ at \in OpenSteps \cup {"tab"} => uploaded = 0
  /\ op \notin {"remove", "attach"} \/ at \in OpenSteps \cup {"tab"} => ReceiptsSame
  /\ op # "delete" \/ at \in {"refresh", "mark", "delete"} => NoneGone
  /\ op = "submit" /\ at \in OpenSteps => NoneSubmitted
  /\ op = "submit" /\ at = "submit" /\ posted = "none" =>
       (verdict \in {"pending", "failure"} => NoneSubmitted)
  /\ verdict = "failure" =>
       at \in PlainSteps \/ (op \in {"submit", "itemize"} /\ at = AfterOpen /\ posted = "none")

(* What remains to be done of the receipts.                                *)
ReceiptsLeft ==
  /\ op = "add" => /\ at \in OpenSteps \cup {"tab", "upload"} => uploaded < count
                   /\ at = "save" => uploaded = count
  /\ op = "remove" /\ at = "save" => onReport \cap Named = {}
  /\ op = "attach" /\ at \in {"closePopup", "save"} =>
       \E r \in onReport \cap Named : LooksRight(link[r])
ReceiptsOn == Live => ReceiptsLeft

-----------------------------------------------------------------------------
(* Steps and their operations.                                             *)

(* Where an accepted answer leads.                                         *)
LEMMA GridLeadsOn ==
  ASSUME NEW removal, NEW exit, GridAccept(removal, exit)
  PROVE  \/ at = "refresh" /\ at' \in (IF removal THEN {"mark"} ELSE {"link", "activate"})
         \/ at = "activate" /\ at' = "link"
         \/ at = "link" /\ at' = exit
         \/ at = "save" /\ at' = "done"
         \/ at = "submit" /\ at' = "resubmitted"
         \/ at = "resubmitted" /\ at' = "done"
         \/ at = "mark" /\ at' = "delete"
         \/ at = "delete" /\ at' = "yes"
         \/ at = "yes" /\ at' = "gone"
         \/ at = "gone" /\ at' = "done"
  BY DEF GridAccept, Proceed

LEMMA ReceiptsLeadOn ==
  ASSUME ReceiptsAccept(op, "save")
  PROVE  \/ at = "tab" /\ op = "show" /\ at' = "save"
         \/ at = "tab" /\ op = "add" /\ at' = "upload"
         \/ at = "tab" /\ op = "remove" /\ at' \in {"remove", "pickReceipt"}
         \/ at = "tab" /\ op = "attach" /\ at' \in {"popup", "pickReceipt"}
         \/ at = "upload" /\ at' \in {"upload", "save"}
         \/ at = "pickReceipt" /\ at' = (IF op = "attach" THEN "popup" ELSE "remove")
         \/ at = "remove" /\ at' = "yesRemove"
         \/ at = "yesRemove" /\ at' \in {"remove", "pickReceipt", "save"}
         \/ at = "popup" /\ at' \in {"attach", "pickPopupLine"}
         \/ at = "pickPopupLine" /\ at' = "attach"
         \/ at = "attach" /\ at' = "closePopup"
         \/ at = "closePopup" /\ at' = "save"
<1>1. \A list : ToRemove(list) => at' \in {"remove", "pickReceipt"}
  BY DEF ToRemove, Proceed
<1> QED
  BY <1>1 DEF ReceiptsAccept, Proceed

LEMMA StepsAre ==
  ASSUME op \in Ops, at \in StepsOf(op) \cup {"done"}
  PROVE  /\ at \in HeaderSteps => op \in {"edit", "new"}
         /\ at \in LinesSteps => op \in {"itemize", "new"}
         /\ at \in OpenSteps => op # "new"
         /\ at = "link" => op \notin {"new", "delete"}
         /\ at = "save" => op \notin {"submit", "delete"}
         /\ at \in {"submit", "resubmitted"} => op = "submit"
         /\ at \in {"mark", "delete", "yes", "gone"} => op = "delete"
         /\ at = "tab" => op \in {"show", "add", "remove", "attach"}
         /\ at = "upload" => op = "add"
         /\ at = "pickReceipt" => op \in {"remove", "attach"}
         /\ at \in {"remove", "yesRemove"} => op = "remove"
         /\ at \in {"popup", "pickPopupLine", "attach", "closePopup"} => op = "attach"
         /\ at \in Steps \cup {"done"}
<1> USE DEF StepsOf, OpenSteps, HeaderSteps, LinesSteps, Steps, GridSteps, ReceiptSteps
<1>1. CASE op = "show"
  BY <1>1
<1>2. CASE op = "edit"
  BY <1>2
<1>3. CASE op = "itemize"
  BY <1>3
<1>4. CASE op = "submit"
  BY <1>4
<1>5. CASE op = "delete"
  BY <1>5
<1>6. CASE op = "add"
  BY <1>6
<1>7. CASE op = "remove"
  BY <1>7
<1>8. CASE op = "attach"
  BY <1>8
<1>9. CASE op = "new"
  BY <1>9
<1> QED
  BY <1>1, <1>2, <1>3, <1>4, <1>5, <1>6, <1>7, <1>8, <1>9 DEF Ops

(* Where an accepted answer leads, and that it ends nothing but the last.  *)
LEMMA AcceptLeads ==
  ASSUME Accept
  PROVE  /\ posted' = "none" /\ UNCHANGED <<op, used, requests>>
         /\ verdict = "pending" /\ verdict' = IF at' = "done" THEN "nil" ELSE verdict
<1>1. \A removal, exit : GridAccept(removal, exit) => \E step : Proceed(step)
  BY DEF GridAccept
<1>2. \A exit : HeaderAccept(exit) => \E step : Proceed(step)
  BY HeaderProceeds
<1>3. \A exit : LinesAccept(exit) => \E step : Proceed(step)
  BY LinesProceed
<1>4. \A o, exit : ReceiptsAccept(o, exit) => \E step : Proceed(step)
  BY ReceiptsProceed
<1>5. \E step : Proceed(step)
  BY <1>1, <1>2, <1>3, <1>4 DEF Accept
<1> QED
  BY <1>5 DEF Proceed, Accept, Waiting, Pending

LEMMA AcceptWay == WayInv /\ Accept => WayInv'
<1> SUFFICES ASSUME WayInv, Accept PROVE WayInv'
  OBVIOUS
<1>1. /\ posted' = "none" /\ UNCHANGED <<op, used, requests>>
      /\ verdict = "pending" /\ verdict' = IF at' = "done" THEN "nil" ELSE verdict
  BY AcceptLeads
<1>2. op \in Ops /\ at \in StepsOf(op) \cup {"done"} /\ used \in Nat /\ requests \in Nat
  BY DEF WayInv
<1>3. /\ at \in HeaderSteps => op \in {"edit", "new"}
      /\ at \in LinesSteps => op \in {"itemize", "new"}
      /\ at \in OpenSteps => op # "new"
      /\ at = "link" => op \notin {"new", "delete"}
      /\ at = "save" => op \notin {"submit", "delete"}
      /\ at \in {"submit", "resubmitted"} => op = "submit"
      /\ at \in {"mark", "delete", "yes", "gone"} => op = "delete"
      /\ at = "tab" => op \in {"show", "add", "remove", "attach"}
      /\ at = "upload" => op = "add"
      /\ at = "pickReceipt" => op \in {"remove", "attach"}
      /\ at \in {"remove", "yesRemove"} => op = "remove"
      /\ at \in {"popup", "pickPopupLine", "attach", "closePopup"} => op = "attach"
  BY <1>2, StepsAre
<1>4. at' \in StepsOf(op) \cup {"done"}
  <2>1. CASE at \in GridSteps /\ GridAccept(op = "delete", AfterOpen)
    <3>1. \/ at = "refresh" /\ at' \in (IF op = "delete" THEN {"mark"} ELSE {"link", "activate"})
          \/ at = "activate" /\ at' = "link"
          \/ at = "link" /\ at' = AfterOpen
          \/ at = "save" /\ at' = "done"
          \/ at = "submit" /\ at' = "resubmitted"
          \/ at = "resubmitted" /\ at' = "done"
          \/ at = "mark" /\ at' = "delete"
          \/ at = "delete" /\ at' = "yes"
          \/ at = "yes" /\ at' = "gone"
          \/ at = "gone" /\ at' = "done"
      BY <2>1, GridLeadsOn
    <3>2. CASE at = "refresh"
      BY <1>2, <1>3, <3>1, <3>2 DEF StepsOf, OpenSteps, Ops
    <3>3. CASE at = "activate"
      <4>1. op \notin {"new", "delete"}
        BY <1>2, <1>3, <3>3 DEF StepsOf, OpenSteps
      <4> QED
        BY <1>2, <3>1, <3>3, <4>1 DEF StepsOf, OpenSteps, Ops
    <3>4. CASE at = "link"
      BY <1>2, <1>3, <3>1, <3>4 DEF StepsOf, AfterOpen, HeaderSteps, LinesSteps, Ops
    <3>5. CASE at \in {"submit", "resubmitted"}
      BY <1>3, <3>1, <3>5 DEF StepsOf
    <3>6. CASE at \in {"mark", "delete", "yes", "gone"}
      BY <1>3, <3>1, <3>6 DEF StepsOf
    <3> QED
      BY <3>1, <3>2, <3>3, <3>4, <3>5, <3>6
  <2>2. CASE at \in HeaderSteps /\ HeaderAccept(AfterHeader)
    <3>1. at' \in HeaderSteps \cup {AfterHeader} /\ op \in {"edit", "new"}
      BY <1>3, <2>2, HeaderProceeds DEF Proceed
    <3>2. AfterHeader \in {"save", "newLine"} /\ (op = "edit" => AfterHeader = "save")
      BY DEF AfterHeader, ToLines
    <3> QED
      BY <3>1, <3>2 DEF StepsOf, LinesSteps
  <2>3. CASE at \in LinesSteps /\ LinesAccept("save")
    <3>1. at' \in LinesSteps \cup {"save"} /\ op \in {"itemize", "new"}
      BY <1>3, <2>3, LinesProceed DEF Proceed
    <3> QED
      BY <3>1 DEF StepsOf
  <2>4. CASE at \in ReceiptSteps /\ ReceiptsAccept(op, "save")
    <3>1. \/ at = "tab" /\ op = "show" /\ at' = "save"
          \/ at = "tab" /\ op = "add" /\ at' = "upload"
          \/ at = "tab" /\ op = "remove" /\ at' \in {"remove", "pickReceipt"}
          \/ at = "tab" /\ op = "attach" /\ at' \in {"popup", "pickReceipt"}
          \/ at = "upload" /\ at' \in {"upload", "save"}
          \/ at = "pickReceipt" /\ at' = (IF op = "attach" THEN "popup" ELSE "remove")
          \/ at = "remove" /\ at' = "yesRemove"
          \/ at = "yesRemove" /\ at' \in {"remove", "pickReceipt", "save"}
          \/ at = "popup" /\ at' \in {"attach", "pickPopupLine"}
          \/ at = "pickPopupLine" /\ at' = "attach"
          \/ at = "attach" /\ at' = "closePopup"
          \/ at = "closePopup" /\ at' = "save"
      BY <2>4, ReceiptsLeadOn
    <3> QED
      BY <1>3, <3>1 DEF StepsOf
  <2> QED
    BY <2>1, <2>2, <2>3, <2>4 DEF Accept
<1> QED
  BY <1>1, <1>2, <1>4 DEF WayInv, Verdicts

LEMMA OtherWay == WayInv /\ (Post \/ Reject \/ GiveUp \/ LateEffect \/ Abandon \/ UNCHANGED vars) => WayInv'
<1> SUFFICES ASSUME WayInv, Post \/ Reject \/ GiveUp \/ LateEffect \/ Abandon \/ UNCHANGED vars
             PROVE  WayInv'
  OBVIOUS
<1>1. UNCHANGED <<op, at>>
  BY DEF Post, Reject, GiveUp, LateEffect, Abandon, Send, End, vars, exchangeVars
<1>2. posted' \in {"none", at}
  BY DEF Post, Reject, GiveUp, LateEffect, Abandon, Send, End, vars, exchangeVars, WayInv
<1>3. verdict' \in Verdicts /\ (verdict' = "nil" => posted' = "none") /\ (at = "done" => verdict' = "nil")
  <2>1. CASE Post
    BY <2>1 DEF Post, Send, Pending, WayInv
  <2>2. CASE Reject \/ GiveUp \/ Abandon
    <3>1. verdict' \in {"failure", "uncertain"} /\ verdict = "pending"
      BY <2>2, ErrorClasses DEF Reject, GiveUp, Abandon, Unsent, End, Waiting, Pending
    <3> QED
      BY <3>1 DEF WayInv, Verdicts
  <2>3. CASE LateEffect \/ UNCHANGED vars
    BY <2>3 DEF LateEffect, vars, exchangeVars, WayInv
  <2> QED
    BY <2>1, <2>2, <2>3
<1>4. used' \in Nat /\ requests' \in Nat
  <2>1. CASE Post
    <3>1. Messages(at) \in Nat
      BY DEF Messages, HeaderMessages, LinesMessages, ReceiptMessages, UploadHeadroom
    <3> QED
      BY <2>1, <3>1 DEF Post, Send, WayInv
  <2>2. CASE ~Post
    BY <2>2 DEF Reject, GiveUp, LateEffect, Abandon, End, vars, exchangeVars, WayInv
  <2> QED
    BY <2>1, <2>2
<1> QED
  BY <1>1, <1>2, <1>3, <1>4 DEF WayInv

LEMMA InitWay == Init => WayInv
<1> SUFFICES ASSUME Init PROVE WayInv
  OBVIOUS
<1>1. /\ op \in Ops /\ posted = "none" /\ used = 0 /\ requests = 0 /\ verdict = "pending"
      /\ at = IF op # "new" THEN "refresh" ELSE IF HasHeader THEN "menu" ELSE ToLines
  BY DEF Init
<1>2. op # "new" => at \in StepsOf(op)
  BY <1>1 DEF StepsOf, OpenSteps, Ops
<1>3. op = "new" => at \in StepsOf(op) /\ at # "done"
  BY <1>1 DEF StepsOf, HeaderSteps, LinesSteps, ToLines
<1>4. at # "done"
  BY <1>1, <1>3
<1> QED
  BY <1>1, <1>2, <1>3, <1>4 DEF WayInv, Verdicts

LEMMA NextWay == WayInv /\ [Next]_vars => WayInv'
  BY AcceptWay, OtherWay DEF Next, Stop

-----------------------------------------------------------------------------
(* Types.                                                                  *)

LEMMA GridTyped ==
  ASSUME GridTypeOK, NEW step, CarryOut(step)
  PROVE  GridTypeOK'
<1> USE GridAssumption DEF GridTypeOK
<1>1. CASE step \in GridSteps /\ GridCarry(step)
  <2> USE <1>1 DEF GridCarry
  <2>1. CASE step \in {"activate", "link", "save", "delete"}
    BY <2>1
  <2>2. CASE step = "submit"
    BY <2>2
  <2>3. CASE step = "mark"
    BY <2>3
  <2>4. CASE step = "yes"
    BY <2>4
  <2>5. CASE step \in {"refresh", "resubmitted", "gone"}
    BY <2>5 DEF gridVars
  <2> QED
    BY <2>1, <2>2, <2>3, <2>4, <2>5 DEF GridSteps
<1>2. CASE UNCHANGED gridVars
  BY <1>2 DEF gridVars
<1> QED
  BY <1>1, <1>2 DEF CarryOut, Dynamics

\* What Dynamics has of the receipts.
ReceiptsThere ==
  /\ onReport \subseteq Receipts /\ link \in Links
  /\ receipt \in Receipts \cup {NoReceipt} /\ marks \subseteq onReport
  /\ removing \in BOOLEAN /\ popup \in BOOLEAN
  /\ popupLine \in LineNumbers \cup {NoLine}
  /\ uploaded \in Nat

LEMMA ReceiptsTyped ==
  ASSUME ReceiptsTypeOK, NEW step, CarryOut(step)
  PROVE  ReceiptsThere'
<1>0. ReceiptsThere
  BY DEF ReceiptsThere, ReceiptsTypeOK
<1> USE <1>0 DEF ReceiptsThere
<1>1. CASE step \in ReceiptSteps /\ ReceiptsCarry(step)
  <2> USE <1>1 DEF ReceiptsCarry
  <2>1. CASE step = "upload"
    BY <2>1
  <2>2. CASE step = "pickReceipt"
    BY <2>2
  <2>3. CASE step = "remove"
    BY <2>3
  <2>4. CASE step = "yesRemove"
    <3>1. /\ onReport' \subseteq onReport
          /\ link' = [r \in Receipts |-> IF r \in onReport' THEN link[r] ELSE NoLine]
          /\ marks' = marks \cap onReport'
          /\ receipt' \in IF onReport' = {} THEN {NoReceipt} ELSE onReport'
          /\ removing' = FALSE /\ UNCHANGED <<popup, popupLine, uploaded>>
      BY <2>4
    <3>2. link' \in Links
      BY <3>1 DEF Links
    <3> QED
      BY <3>1, <3>2
  <2>5. CASE step = "popup"
    BY <2>5 DEF Offered
  <2>6. CASE step = "pickPopupLine"
    BY <2>6 DEF Candidates, Offered
  <2>7. CASE step = "attach"
    BY <2>7 DEF Offered, Links
  <2>8. CASE step = "closePopup"
    BY <2>8
  <2>9. CASE step = "tab"
    BY <2>9 DEF dynamicsReceipts
  <2> QED
    BY <2>1, <2>2, <2>3, <2>4, <2>5, <2>6, <2>7, <2>8, <2>9 DEF ReceiptSteps
<1>2. CASE UNCHANGED dynamicsReceipts
  BY <1>2 DEF dynamicsReceipts
<1> QED
  BY <1>1, <1>2 DEF CarryOut, Dynamics

LEMMA ReceiptsClient ==
  ASSUME ReceiptsTypeOK, Accept
  PROVE  ReceiptsTypeOK'
<1>1. ReceiptsThere'
  BY ReceiptsTyped DEF Accept
<1>2. CASE UNCHANGED clientReceipts
  BY <1>1, <1>2 DEF clientReceipts, ReceiptsTypeOK, ReceiptsThere
<1>3. CASE ReceiptsAccept(op, "save")
  <2>1. UNCHANGED <<count, line, first>> /\ removed' \in {removed, removed + 1}
    BY <1>3 DEF ReceiptsAccept, clientReceipts
  <2>2. chosen' = chosen \/ chosen' \in onReport \/ chosen' \in onReport'
    BY <1>3 DEF ReceiptsAccept, ToRemove, Left, clientReceipts
  <2> QED
    BY <1>1, <2>1, <2>2 DEF ReceiptsTypeOK, ReceiptsThere
<1> QED
  BY <1>2, <1>3 DEF Accept

-----------------------------------------------------------------------------
(* What a request leaves alone.                                            *)

LEMMA GridAlone ==
  ASSUME CarryOut(at)
  PROVE  /\ at \notin {"submit", "yes"} => UNCHANGED status
         /\ at = "submit" => status' = status \/ status' = [status EXCEPT ![form] = "Submitted"]
<1>1. CASE at \in GridSteps /\ GridCarry(at)
  <2> USE <1>1 DEF GridCarry
  <2>1. CASE at \in {"activate", "link", "save", "delete", "mark"}
    BY <2>1
  <2>2. CASE at = "submit"
    BY <2>2
  <2>3. CASE at = "yes"
    BY <2>3
  <2>4. CASE at \in {"refresh", "resubmitted", "gone"}
    BY <2>4 DEF gridVars
  <2> QED
    BY <2>1, <2>2, <2>3, <2>4 DEF GridSteps
<1>2. CASE UNCHANGED gridVars
  BY <1>2 DEF gridVars
<1> QED
  BY <1>1, <1>2 DEF CarryOut, Dynamics

LEMMA ReceiptsAlone ==
  ASSUME CarryOut(at)
  PROVE  /\ at # "upload" => UNCHANGED uploaded
         /\ at # "yesRemove" => UNCHANGED onReport
         /\ at \notin {"yesRemove", "attach"} => UNCHANGED link
         /\ uploaded' \in {uploaded, uploaded + 1}
<1>1. CASE at \in ReceiptSteps /\ ReceiptsCarry(at)
  <2> USE <1>1 DEF ReceiptsCarry
  <2>1. CASE at = "upload"
    BY <2>1
  <2>2. CASE at \in {"pickReceipt", "remove"}
    BY <2>2
  <2>3. CASE at = "yesRemove"
    BY <2>3
  <2>4. CASE at \in {"popup", "pickPopupLine", "closePopup"}
    BY <2>4
  <2>5. CASE at = "attach"
    BY <2>5
  <2>6. CASE at = "tab"
    BY <2>6 DEF dynamicsReceipts
  <2> QED
    BY <2>1, <2>2, <2>3, <2>4, <2>5, <2>6 DEF ReceiptSteps
<1>2. CASE UNCHANGED dynamicsReceipts
  BY <1>2 DEF dynamicsReceipts
<1> QED
  BY <1>1, <1>2 DEF CarryOut, Dynamics

LEMMA LinesAlone ==
  ASSUME CarryOut(at)
  PROVE  at \notin {"saveLine", "closeSheet"} => UNCHANGED lines
<1>1. CASE at \in LinesSteps /\ LinesCarry(at)
  <2>1. at \notin {"saveLine", "closeSheet"} => UNCHANGED lines
    BY <1>1, LinesCarryIs DEF LinesSteps, RowParts
  <2> QED
    BY <2>1
<1>2. CASE UNCHANGED dynamicsLines
  BY <1>2 DEF dynamicsLines
<1> QED
  BY <1>1, <1>2, LinesCarried

LEMMA HeaderAlone ==
  ASSUME CarryOut(at)
  PROVE  /\ at \notin Fields => UNCHANGED unset
         /\ unset' \subseteq unset
         /\ at \notin HeaderSteps => UNCHANGED rows
         /\ \/ UNCHANGED dialogs
            \/ at = "approvers" /\ dialogs' \in {1, 2}
            \/ at = "okDialog" /\ dialogs' = dialogs - 1
         /\ editing' \in {editing, TRUE, FALSE}
         /\ asking' \in {asking, TRUE, FALSE}
<1>1. CASE at \in HeaderSteps /\ HeaderCarry(at)
  <2> USE <1>1 DEF HeaderCarry
  <2>1. CASE at \in Fields
    BY <2>1
  <2>2. CASE at = "edit"
    BY <2>2 DEF Fields
  <2>3. CASE at = "approvers"
    BY <2>3 DEF Fields
  <2>4. CASE at = "row"
    BY <2>4 DEF Fields
  <2>5. CASE at = "deleteRow"
    BY <2>5 DEF Fields
  <2>6. CASE at = "confirm"
    BY <2>6 DEF Fields
  <2>7. CASE at = "new"
    BY <2>7 DEF Fields
  <2>8. CASE at = "resolve"
    BY <2>8 DEF Fields
  <2>9. CASE at = "okDialog"
    BY <2>9 DEF Fields
  <2>10. CASE at = "okEdit"
    BY <2>10 DEF Fields
  <2>11. CASE at = "menu"
    BY <2>11 DEF Fields, dynamicsHeader
  <2> QED
    BY <2>1, <2>2, <2>3, <2>4, <2>5, <2>6, <2>7, <2>8, <2>9, <2>10, <2>11 DEF HeaderSteps, Fields
<1>2. CASE UNCHANGED dynamicsHeader
  BY <1>2 DEF dynamicsHeader
<1> QED
  BY <1>1, <1>2 DEF CarryOut, Dynamics

-----------------------------------------------------------------------------
(* The header, as it is edited.                                            *)

\* What an answer leaves the client with.
ClientOn ==
  /\ view \in Seq(Row) /\ Len(view) <= MaxApprovers /\ keep \in Nat
  /\ listed \in Seq(Workers)
  /\ HeaderSoFar

(* What Dynamics has of the header after any request.                      *)
LEMMA HeaderThere ==
  ASSUME HeaderInv, HeaderOn, Live, CarryOut(at), UNCHANGED <<header, before>>
  PROVE  /\ unset' \subseteq Fields /\ RowsOK' /\ rows' \in Seq(Row)
         /\ dialogs' \in 0 .. 2 /\ asking' \in BOOLEAN /\ editing' \in BOOLEAN
         /\ at \in Dialog => dialogs' \in 1 .. 2
<1>1. HeaderTypeOK /\ HeaderSoFar
  BY DEF HeaderOn, Reported
<1>2. unset' \subseteq Fields /\ asking' \in BOOLEAN /\ editing' \in BOOLEAN
  BY <1>1, HeaderAlone DEF HeaderTypeOK
<1>3. RowsOK' /\ rows' \in Seq(Row)
  BY CarriedOn DEF RowsOK
<1>4. dialogs' \in 0 .. 2
  <2>1. CASE at = "okDialog"
    <3>1. dialogs \in 1 .. 2
      BY <1>1, <2>1 DEF HeaderSoFar
    <3> QED
      BY <2>1, <3>1, HeaderAlone
  <2>2. CASE at # "okDialog"
    BY <1>1, <2>2, HeaderAlone DEF HeaderTypeOK
  <2> QED
    BY <2>1, <2>2
<1>5. at \in Dialog => dialogs' \in 1 .. 2
  BY <1>1, HeaderAlone DEF HeaderSoFar, Dialog
<1> QED
  BY <1>2, <1>3, <1>4, <1>5

(* The rows are as asked for, when the client has compared them all.       *)
LEMMA ComparedAll ==
  ASSUME UNCHANGED header, view' = rows', rows' \in Seq(Row), ToNextRow, at' = "okDialog"
  PROVE  Settled'
<1>1. AllMatch
  BY DEF ToNextRow, Proceed
<1>2. PICK v \in Seq(Row) : v = rows'
  OBVIOUS
<1>3. Len(v) = Len(header.names) /\ \A i \in DOMAIN v : v[i].worker \in header.names[i].who
  BY <1>1, <1>2 DEF AllMatch, Matches
<1>4. DOMAIN v = 1 .. Len(v)
  OBVIOUS
<1> QED
  BY <1>2, <1>3, <1>4 DEF Settled

(* An accepted answer to a request on the header.                          *)
LEMMA HeaderGoesOn ==
  ASSUME WayInv, HeaderInv, HeaderOn, Accept, at \in HeaderSteps
  PROVE  /\ HeaderTypeOK /\ HeaderSoFar /\ Live /\ CarryOut(at) /\ op \in {"edit", "new"}
         /\ UNCHANGED <<op, header, before>> /\ HeaderAccept(AfterHeader)
         /\ header.names \in Seq(Approver) /\ before \in Seq(Workers)
         /\ header.names # <<>> => Len(header.names) \in 1 .. MaxApprovers
         /\ unset' \subseteq Fields /\ RowsOK' /\ rows' \in Seq(Row)
         /\ dialogs' \in 0 .. 2
         /\ at \in Dialog => dialogs' \in 1 .. 2
<1>1. Live /\ CarryOut(at) /\ UNCHANGED <<op, header, before>> /\ HeaderAccept(AfterHeader)
  BY AcceptedIs, AcceptLeads
<1>2. HeaderTypeOK /\ HeaderSoFar
  BY <1>1 DEF HeaderOn, Reported
<1>3. op \in {"edit", "new"}
  BY StepsAre DEF WayInv
<1>4. header.names \in Seq(Approver) /\ before \in Seq(Workers)
  BY DEF HeaderInv, Asked
<1>5. header.names # <<>> => Len(header.names) \in 1 .. MaxApprovers
  <2>1. header \in HeaderInput
    BY <1>2 DEF HeaderTypeOK
  <2>2. Len(header.names) <= MaxApprovers
    BY <2>1 DEF HeaderInput
  <2>3. header.names # <<>> => Len(header.names) \in Nat \ {0}
    BY <1>4
  <2> QED
    BY <2>2, <2>3, HeaderAssumption
<1> QED
  BY <1>1, <1>2, <1>3, <1>4, <1>5, HeaderThere

\* Where the client goes when the fields are as asked for.
LEMMA ApproversNext ==
  ASSUME HeaderInv, Untouched, UNCHANGED <<header, rows>>
  PROVE  /\ ToApprovers(before) \in {"okEdit", "approvers"}
         /\ ToApprovers(before) = "approvers" => header.names # <<>>
         /\ ToApprovers(before) = "okEdit" => Settled'
<1>1. /\ Asked /\ rows \in Seq(Row) /\ WorkersOf(rows) = before
  BY DEF HeaderInv, RowsOK, Untouched
<1>2. /\ Len(before) = Len(rows) /\ DOMAIN before = 1 .. Len(rows)
      /\ \A i \in 1 .. Len(rows) : before[i] = rows[i].worker
  BY <1>1, WorkersAre
<1>3. NamesListed(before) => Settled'
  BY <1>2 DEF NamesListed, Matches, Settled
<1> QED
  BY <1>3 DEF ToApprovers, Settled

LEMMA FieldsGoOn ==
  ASSUME WayInv, HeaderInv, HeaderOn, Accept, at \in {"menu", "edit", "title", "final"}
  PROVE  ClientOn'
<1>0. at \in HeaderSteps
  BY DEF HeaderSteps
<1>1. /\ HeaderTypeOK /\ HeaderSoFar /\ Live /\ CarryOut(at)
      /\ UNCHANGED <<op, header, before>> /\ HeaderAccept(AfterHeader)
      /\ before \in Seq(Workers) /\ unset' \subseteq Fields
  BY <1>0, HeaderGoesOn
<1>2. /\ view \in Seq(Row) /\ Len(view) <= MaxApprovers /\ keep \in Nat /\ listed \in Seq(Workers)
  BY <1>1 DEF HeaderTypeOK
<1>3. UNCHANGED <<view, keep>>
  BY <1>1 DEF HeaderAccept, clientHeader
<1>4. CASE at = "menu"
  <2>1. at' = "edit" /\ UNCHANGED listed
    BY <1>1, <1>4 DEF HeaderAccept, Proceed, clientHeader
  <2>2. HeaderSoFar'
    BY <2>1 DEF HeaderSoFar, HeaderLeft, HeaderSteps, Dialog
  <2> QED
    BY <1>2, <1>3, <2>1, <2>2 DEF ClientOn
<1>5. CASE at \in {"edit", "title", "final"}
  <2>1. UNCHANGED rows /\ Untouched
    <3>1. Untouched
      BY <1>1, <1>5 DEF HeaderInv, LiveOK, Early
    <3>2. UNCHANGED rows
      BY <1>1, <1>5, CarryIs DEF HeaderInv
    <3> QED
      BY <3>1, <3>2
  <2>2. /\ ToApprovers(before) \in {"okEdit", "approvers"}
        /\ ToApprovers(before) = "approvers" => header.names # <<>>
        /\ ToApprovers(before) = "okEdit" => Settled'
    BY <1>1, <2>1, ApproversNext
  <2>3. listed' = before
    BY <1>1, <1>5 DEF HeaderAccept, HeaderSoFar, clientHeader
  <2>4. /\ at' \in {"title", "final", ToApprovers(before)}
        /\ at' # "title" => "title" \notin unset'
        /\ at' \notin {"title", "final"} => "final" \notin unset'
    <3>1. CASE at = "edit"
      BY <1>1, <2>2, <3>1 DEF HeaderAccept, Proceed, AfterEdit, AfterTitle
    <3>2. CASE at = "title"
      <4>1. at' = AfterTitle(before) /\ "title" \notin unset'
        BY <1>1, <3>2 DEF HeaderAccept, Proceed, HeaderSoFar
      <4> QED
        BY <2>2, <4>1 DEF AfterTitle
    <3>3. CASE at = "final"
      <4>1. at' = ToApprovers(before) /\ "final" \notin unset'
        BY <1>1, <3>3 DEF HeaderAccept, Proceed, HeaderSoFar
      <4>2. "title" \notin unset'
        BY <1>1, <3>3, HeaderAlone DEF HeaderSoFar
      <4> QED
        BY <2>2, <4>1, <4>2
    <3> QED
      BY <1>5, <3>1, <3>2, <3>3
  <2>5. at' \notin {"title", "final"} => unset' = {}
    BY <1>1, <2>2, <2>4 DEF Fields
  <2>6. at' \in {"title", "final", "approvers", "okEdit"}
    BY <2>2, <2>4
  <2>7. at' = "approvers" => header.names # <<>>
    BY <2>2, <2>4
  <2>8. at' = "okEdit" => Settled'
    BY <2>2, <2>4
  <2>9. HeaderLeft' <=> at' # "okEdit"
    BY <2>6 DEF HeaderLeft, HeaderSteps, OpenSteps
  <2>10. HeaderSoFar'
    BY <1>1, <2>3, <2>4, <2>5, <2>6, <2>7, <2>8, <2>9 DEF HeaderSoFar, Dialog
  <2> QED
    BY <1>1, <1>2, <1>3, <2>3, <2>10 DEF ClientOn
<1> QED
  BY <1>4, <1>5

LEMMA DialogGoesOn ==
  ASSUME WayInv, HeaderInv, HeaderOn, Accept, at \in Dialog \cup {"approvers"},
         at' \in Dialog \cup {"okDialog"}, dialogs' \in 1 .. 2,
         view' \in Seq(Row), Len(view') <= MaxApprovers, keep' \in Nat, UNCHANGED listed,
         at' = "okDialog" => view' = rows' /\ ToNextRow
  PROVE  ClientOn'
<1>1. at \in HeaderSteps /\ at \notin Fields
  BY DEF HeaderSteps, Dialog, Fields
<1>2. /\ HeaderTypeOK /\ HeaderSoFar /\ CarryOut(at) /\ UNCHANGED <<op, header, before>>
      /\ header.names \in Seq(Approver) /\ rows' \in Seq(Row)
  BY <1>1, HeaderGoesOn
<1>3. unset' = {}
  BY <1>1, <1>2, HeaderAlone DEF HeaderSoFar
<1>4. header.names # <<>>
  BY DEF HeaderInv, Places
<1>5. at' = "okDialog" => Settled'
  BY <1>2, ComparedAll
<1>6. HeaderLeft' <=> at' # "okDialog"
  BY DEF HeaderLeft, HeaderSteps, OpenSteps, Dialog
<1>7. at' \notin {"title", "final", "approvers", "okEdit"}
  BY DEF Dialog
<1>8. HeaderSoFar'
  BY <1>2, <1>3, <1>4, <1>5, <1>6, <1>7 DEF HeaderSoFar
<1>9. listed' \in Seq(Workers)
  BY <1>2 DEF HeaderTypeOK
<1> QED
  BY <1>8, <1>9 DEF ClientOn

LEMMA ApproversGoOn ==
  ASSUME WayInv, HeaderInv, HeaderOn, Accept, at = "approvers"
  PROVE  ClientOn'
<1>0. at \in HeaderSteps
  BY DEF HeaderSteps
<1>1. /\ Live /\ CarryOut(at) /\ UNCHANGED <<header, before>> /\ HeaderAccept(AfterHeader)
      /\ rows' \in Seq(Row) /\ dialogs' \in 0 .. 2
  BY <1>0, HeaderGoesOn
<1>2. dialogs' > 0 /\ Opened /\ UNCHANGED listed
  BY <1>1 DEF HeaderAccept
<1>3. /\ at' \in Dialog \cup {"okDialog"}
      /\ keep' \in Nat /\ view' \in {<<>>, rows'}
      /\ at' = "okDialog" => view' = rows'
  BY <1>1, <1>2, AcceptApprovers
<1>4. view' \in Seq(Row) /\ Len(view') <= MaxApprovers
  <2>1. Len(rows') <= MaxApprovers /\ MaxApprovers \in Nat
    BY <1>2, HeaderAssumption DEF Opened, Supported
  <2>2. CASE view' = <<>>
    <3>1. Len(view') = 0
      BY <2>2
    <3> QED
      BY <2>1, <2>2, <3>1
  <2>3. CASE view' = rows'
    BY <1>1, <2>1, <2>3
  <2> QED
    BY <1>3, <2>2, <2>3
<1>5. at' = "okDialog" => ToNextRow
  BY <1>2 DEF Opened, Proceed
<1>6. dialogs' \in 1 .. 2
  BY <1>1, <1>2
<1> QED
  BY <1>2, <1>3, <1>4, <1>5, <1>6, DialogGoesOn

LEMMA RowGoesOn ==
  ASSUME WayInv, HeaderInv, HeaderOn, Accept, at = "row"
  PROVE  ClientOn'
<1>0. at \in HeaderSteps /\ at \in Dialog
  BY DEF HeaderSteps, Dialog
<1>1. /\ HeaderTypeOK /\ Live /\ CarryOut(at) /\ UNCHANGED <<header, before>>
      /\ HeaderAccept(AfterHeader) /\ rows' \in Seq(Row) /\ dialogs' \in 1 .. 2
  BY <1>0, HeaderGoesOn
<1>2. /\ current' = Selected /\ view' = (IF view = <<>> THEN rows' ELSE view)
      /\ UNCHANGED <<keep, listed>>
      /\ IF view = <<>> THEN Proceed("resolve") ELSE ToNextRow
  BY <1>1 DEF HeaderAccept
<1>3. at' \in Dialog \cup {"okDialog"}
  BY <1>1, <1>2, AcceptRow
<1>4. UNCHANGED rows
  BY <1>1, CarryIs DEF HeaderInv
<1>5. /\ view \in Seq(Row) /\ Len(view) <= MaxApprovers /\ keep \in Nat
  BY <1>1 DEF HeaderTypeOK
<1>6. \/ rows = view /\ view # <<>>
      \/ view = <<>> /\ Len(rows) = 1
  BY <1>1 DEF HeaderInv, LiveOK, DialogOK, AtPlaceholder
<1>7. view' = rows' /\ Len(rows') <= MaxApprovers
  <2>1. CASE rows = view /\ view # <<>>
    BY <1>2, <1>4, <1>5, <2>1
  <2>2. CASE view = <<>> /\ Len(rows) = 1
    <3>1. Len(rows') = 1 /\ 1 <= MaxApprovers
      BY <1>4, <2>2, HeaderAssumption
    <3> QED
      BY <1>2, <2>2, <3>1
  <2> QED
    BY <1>6, <2>1, <2>2
<1>8. at' = "okDialog" => ToNextRow
  BY <1>2 DEF Proceed
<1> QED
  BY <1>0, <1>1, <1>2, <1>3, <1>5, <1>7, <1>8, DialogGoesOn

LEMMA DeletionGoesOn ==
  ASSUME WayInv, HeaderInv, HeaderOn, Accept, at \in {"deleteRow", "confirm"}
  PROVE  ClientOn'
<1>0. at \in HeaderSteps /\ at \in Dialog
  BY DEF HeaderSteps, Dialog
<1>1. /\ HeaderTypeOK /\ Live /\ CarryOut(at) /\ UNCHANGED <<header, before>>
      /\ HeaderAccept(AfterHeader) /\ rows' \in Seq(Row) /\ dialogs' \in 1 .. 2
  BY <1>0, HeaderGoesOn
<1>2. /\ view \in Seq(Row) /\ Len(view) <= MaxApprovers /\ keep \in Nat
  BY <1>1 DEF HeaderTypeOK
<1>3. CASE at' = "confirm" /\ UNCHANGED clientHeader
  BY <1>0, <1>1, <1>2, <1>3, DialogGoesOn DEF clientHeader, Dialog
<1>4. CASE LastDeleted /\ view' = rows' /\ UNCHANGED <<keep, listed>> /\ ToNextRow
  <2>1. at' \in Dialog \cup {"okDialog"}
    BY <1>1, <1>4, AcceptDeletion
  <2>2. Len(rows') <= MaxApprovers
    <3>1. view # <<>>
      BY <1>1 DEF HeaderInv, LiveOK, DialogOK, AtEnd
    <3>2. WorkersOf(rows') = SubSeq(WorkersOf(view), 1, Len(view) - 1)
      BY <1>4 DEF LastDeleted
    <3>3. /\ WorkersOf(view) \in Seq(Workers \cup {Blank})
          /\ Len(WorkersOf(view)) = Len(view) /\ Len(WorkersOf(rows')) = Len(rows')
      BY <1>1, <1>2, WorkersAre
    <3>4. Len(SubSeq(WorkersOf(view), 1, Len(view) - 1)) = Len(view) - 1
      BY <1>2, <3>1, <3>3
    <3>5. Len(rows') = Len(view) - 1
      BY <3>2, <3>3, <3>4
    <3> QED
      BY <1>2, <3>5, HeaderAssumption
  <2> QED
    BY <1>0, <1>1, <1>2, <1>4, <2>1, <2>2, DialogGoesOn
<1>5. \/ at' = "confirm" /\ UNCHANGED clientHeader
      \/ LastDeleted /\ view' = rows' /\ UNCHANGED <<keep, listed>> /\ ToNextRow
  BY <1>1 DEF HeaderAccept, Proceed
<1> QED
  BY <1>3, <1>4, <1>5

LEMMA NewGoesOn ==
  ASSUME WayInv, HeaderInv, HeaderOn, Accept, at = "new"
  PROVE  ClientOn'
<1>0. at \in HeaderSteps /\ at \in Dialog
  BY DEF HeaderSteps, Dialog
<1>1. /\ HeaderTypeOK /\ Live /\ CarryOut(at) /\ UNCHANGED <<header, before>>
      /\ HeaderAccept(AfterHeader) /\ dialogs' \in 1 .. 2
      /\ header.names # <<>> => Len(header.names) \in 1 .. MaxApprovers
  BY <1>0, HeaderGoesOn
<1>2. DialogOK' /\ at' = "resolve"
  BY <1>1, AcceptNew
<1>3. view' \in Seq(Row) /\ at' \in Dialog
  BY <1>2 DEF DialogOK, Dialog
<1>4. Len(view') = Len(view) + 1 /\ keep' = Len(view') /\ UNCHANGED listed
  BY <1>1 DEF HeaderAccept
<1>5. Len(view) < Len(header.names) /\ header.names # <<>>
  BY <1>0, <1>1 DEF HeaderInv, LiveOK, DialogOK, Places
<1>6. view \in Seq(Row)
  BY <1>1 DEF HeaderTypeOK
<1>7. Len(view') <= MaxApprovers /\ keep' \in Nat
  BY <1>1, <1>3, <1>4, <1>5, <1>6, HeaderAssumption
<1> QED
  BY <1>0, <1>1, <1>2, <1>3, <1>4, <1>7, DialogGoesOn

LEMMA ResolveGoesOn ==
  ASSUME WayInv, HeaderInv, HeaderOn, Accept, at = "resolve"
  PROVE  ClientOn'
<1>0. at \in HeaderSteps /\ at \in Dialog
  BY DEF HeaderSteps, Dialog
<1>1. /\ HeaderTypeOK /\ Live /\ CarryOut(at) /\ UNCHANGED <<header, before>>
      /\ HeaderAccept(AfterHeader) /\ rows' \in Seq(Row) /\ dialogs' \in 1 .. 2
  BY <1>0, HeaderGoesOn
<1>2. at' \in Dialog \cup {"okDialog"} /\ view' = rows'
  BY <1>1, AcceptResolve
<1>3. view \in Seq(Row) /\ Len(view) <= MaxApprovers
  BY <1>1 DEF HeaderTypeOK
<1>4. keep' = Len(view') /\ UNCHANGED listed /\ ToNextRow
  BY <1>1 DEF HeaderAccept
<1>5. Len(view') = Len(view)
  <2>1. \E row : view' = [view EXCEPT ![Len(view)] = row]
    BY <1>1 DEF HeaderAccept
  <2>2. PICK row : view' = [view EXCEPT ![Len(view)] = row]
    BY <2>1
  <2> QED
    BY <1>3, <2>2
<1>6. keep' \in Nat
  BY <1>1, <1>2, <1>4
<1> QED
  BY <1>0, <1>1, <1>2, <1>3, <1>4, <1>5, <1>6, DialogGoesOn

LEMMA ConfirmationGoesOn ==
  ASSUME WayInv, HeaderInv, HeaderOn, Accept, at \in {"okDialog", "okEdit"}
  PROVE  ClientOn'
<1>0. at \in HeaderSteps /\ ~HeaderLeft /\ at \notin Fields
  BY DEF HeaderSteps, HeaderLeft, OpenSteps, Fields
<1>1. /\ HeaderTypeOK /\ HeaderSoFar /\ Live /\ CarryOut(at) /\ op \in {"edit", "new"}
      /\ UNCHANGED <<op, header, before>> /\ HeaderAccept(AfterHeader)
      /\ header.names \in Seq(Approver)
  BY <1>0, HeaderGoesOn
<1>2. UNCHANGED <<rows, unset>>
  <2>1. RowsOK
    BY DEF HeaderInv
  <2>2. UNCHANGED rows
    BY <1>1, <2>1, CarryIs
  <2> QED
    BY <1>0, <1>1, <2>2, HeaderAlone
<1>3. unset = {} /\ Settled /\ rows \in Seq(Row)
  BY <1>0, <1>1 DEF HeaderSoFar, HeaderTypeOK
<1>4. Settled' /\ unset' = {}
  BY <1>1, <1>2, <1>3 DEF Settled
<1>5. /\ view \in Seq(Row) /\ Len(view) <= MaxApprovers /\ keep \in Nat /\ listed \in Seq(Workers)
  BY <1>1 DEF HeaderTypeOK
<1>6. CASE at = "okDialog"
  <2>1. /\ dialogs' = dialogs - 1 /\ listed' \in {listed, Saved} /\ UNCHANGED <<view, keep>>
        /\ at' = IF dialogs' > 0 THEN "okDialog" ELSE "okEdit"
    BY <1>1, <1>6 DEF HeaderAccept, Proceed
  <2>2. header.names # <<>> /\ dialogs \in 1 .. 2
    BY <1>1, <1>6 DEF HeaderSoFar
  <2>3. Saved \in Seq(Workers)
    <3>1. /\ WorkersOf(rows) \in Seq(Workers \cup {Blank}) /\ Len(WorkersOf(rows)) = Len(rows)
          /\ \A i \in 1 .. Len(rows) : WorkersOf(rows)[i] = rows[i].worker
      BY <1>3, WorkersAre
    <3>2. \A i \in 1 .. Len(rows) : rows[i].worker \in Workers
      <4>1. \A i \in 1 .. Len(header.names) : header.names[i].who \subseteq Workers
        <5>1. \A i \in 1 .. Len(header.names) : header.names[i] \in Approver
          BY <1>1
        <5> QED
          BY <5>1 DEF Approver
      <4> QED
        BY <1>3, <2>2, <4>1 DEF Settled
    <3>3. \A i \in 1 .. Len(rows) : WorkersOf(rows)[i] \in Workers
      BY <3>1, <3>2
    <3>4. Saved = WorkersOf(rows)
      BY <1>3, <3>3, SavedAll DEF Saved
    <3> DEFINE w == WorkersOf(rows)
    <3> HIDE DEF w
    <3>5. w \in Seq(Workers \cup {Blank}) /\ \A i \in 1 .. Len(w) : w[i] \in Workers
      BY <3>1, <3>3 DEF w
    <3>6. w \in Seq(Workers)
      BY <3>5
    <3> QED
      BY <3>4, <3>6 DEF w
  <2>4. dialogs' \in 0 .. 1 /\ (at' = "okDialog" => dialogs' = 1)
    BY <2>1, <2>2
  <2>5. at' \in {"okDialog", "okEdit"}
    BY <2>1
  <2>6. HeaderSoFar'
    BY <1>1, <1>4, <2>2, <2>4, <2>5 DEF HeaderSoFar, Dialog
  <2> QED
    BY <1>5, <2>1, <2>3, <2>6 DEF ClientOn
<1>7. CASE at = "okEdit"
  <2>1. at' = AfterHeader /\ UNCHANGED clientHeader
    BY <1>1, <1>7 DEF HeaderAccept, Proceed
  <2>2. at' \in {"save", "newLine"}
    BY <2>1 DEF AfterHeader, ToLines
  <2>3. HeaderSoFar'
    BY <1>1, <1>4, <2>2 DEF HeaderSoFar, Dialog
  <2> QED
    BY <1>5, <2>1, <2>3 DEF ClientOn, clientHeader
<1> QED
  BY <1>6, <1>7

(* An accepted answer elsewhere.                                           *)
LEMMA HeaderWaits ==
  ASSUME WayInv, HeaderInv, HeaderOn, Accept, at \notin HeaderSteps
  PROVE  HeaderOn'
<1>1. /\ UNCHANGED <<op, dynamicsHeader, clientHeader>> /\ Live
  BY AcceptedIs, AcceptLeads DEF Accept, CarryOut, Dynamics
<1>2. HeaderTypeOK /\ HeaderSoFar
  BY <1>1 DEF HeaderOn, Reported
<1>3. HeaderTypeOK'
  BY <1>1, <1>2 DEF HeaderTypeOK, dynamicsHeader, clientHeader
<1>4. UNCHANGED <<header, before, unset, rows, dialogs, listed>>
  BY <1>1 DEF dynamicsHeader, clientHeader
<1>5. at' \in HeaderSteps => at' = "menu"
  <2>1. CASE at \in LinesSteps
    <3>1. LinesAccept("save")
      BY <2>1, StepsApart DEF Accept
    <3>2. at' \in LinesSteps \cup {"save"}
      BY <3>1, LinesProceed DEF Proceed
    <3> QED
      BY <3>2 DEF LinesSteps, HeaderSteps
  <2>2. CASE at \notin LinesSteps
    <3>1. \/ at' \in GridSteps \cup {"done"}
          \/ at' = AfterOpen
          \/ at' \in ReceiptSteps \cup {"save"}
      BY <2>2, AwayGoes
    <3> QED
      BY <3>1 DEF HeaderSteps, GridSteps, ReceiptSteps, AfterOpen
  <2> QED
    BY <2>1, <2>2
<1>6. at' \notin {"title", "final", "approvers", "okDialog", "okEdit"} \cup Dialog
  BY <1>5 DEF HeaderSteps, Dialog
<1>7. op \in {"edit", "new"} /\ ~HeaderLeft' => ~HeaderLeft
  <2> SUFFICES ASSUME op \in {"edit", "new"}, at \in OpenSteps PROVE HeaderLeft'
    BY DEF HeaderLeft
  <2>1. op = "edit"
    BY StepsAre DEF WayInv
  <2>2. at \notin LinesSteps \cup HeaderSteps \cup ReceiptSteps
    BY DEF OpenSteps, LinesSteps, HeaderSteps, ReceiptSteps
  <2>3. at' \in OpenSteps \/ at' = AfterOpen
    BY <2>1, <2>2, AwayGoes
  <2>4. AfterOpen = "menu"
    BY <2>1 DEF AfterOpen
  <2> QED
    BY <2>3, <2>4 DEF HeaderLeft, HeaderSteps
<1>8. HeaderSoFar'
  <2>1. Settled' <=> Settled
    BY <1>4 DEF Settled
  <2> QED
    BY <1>1, <1>2, <1>4, <1>6, <1>7, <2>1 DEF HeaderSoFar
<1> QED
  BY <1>3, <1>8 DEF HeaderOn

LEMMA AcceptHeaderOn == WayInv /\ HeaderInv /\ HeaderOn /\ Accept => HeaderOn'
<1> SUFFICES ASSUME WayInv, HeaderInv, HeaderOn, Accept, at \in HeaderSteps PROVE HeaderOn'
  BY HeaderWaits
<1>1. ClientOn'
  BY FieldsGoOn, ApproversGoOn, RowGoesOn, DeletionGoesOn, NewGoesOn, ResolveGoesOn,
     ConfirmationGoesOn DEF HeaderSteps
<1>2. HeaderTypeOK /\ Live /\ CarryOut(at) /\ UNCHANGED <<header, before>>
  BY HeaderGoesOn
<1>3. /\ unset' \subseteq Fields /\ RowsOK' /\ rows' \in Seq(Row)
      /\ dialogs' \in 0 .. 2 /\ asking' \in BOOLEAN /\ editing' \in BOOLEAN
  BY <1>2, HeaderThere
<1>4. HeaderTypeOK'
  BY <1>1, <1>2, <1>3 DEF HeaderTypeOK, ClientOn, RowsOK
<1> QED
  BY <1>1, <1>4 DEF HeaderOn, ClientOn

(* An end without the change asked for.                                    *)
LEMMA EndedHeaderOn ==
  ASSUME WayInv, HeaderInv, HeaderOn, Live, CarryOut(at), UNCHANGED clientHeader, ~Reported'
  PROVE  HeaderOn'
<1>1. HeaderTypeOK /\ UNCHANGED <<header, before, view, keep, listed>>
  BY DEF HeaderOn, clientHeader
<1>2. /\ unset' \subseteq Fields /\ RowsOK'
      /\ dialogs' \in 0 .. 2 /\ asking' \in BOOLEAN /\ editing' \in BOOLEAN
  BY <1>1, HeaderThere
<1> QED
  BY <1>1, <1>2 DEF HeaderOn, HeaderTypeOK, RowsOK

LEMMA RejectHeaderOn == WayInv /\ HeaderInv /\ HeaderOn /\ (Reject \/ LateEffect) => HeaderOn'
<1> SUFFICES ASSUME WayInv, HeaderInv, HeaderOn, Reject \/ LateEffect PROVE HeaderOn'
  OBVIOUS
<1>1. CASE Reject
  <2>1. Live /\ CarryOut(at) /\ UNCHANGED clientHeader
    BY <1>1 DEF Reject, Waiting, Live
  <2>2. posted' = "none" /\ verdict' \in {"failure", "uncertain"}
    BY <1>1, ErrorClasses DEF Reject, End
  <2> QED
    BY <2>1, <2>2, EndedHeaderOn DEF Reported, Live, Pending
<1>2. CASE LateEffect
  <2>1. posted = at /\ verdict # "pending" /\ verdict # "nil"
    BY <1>2 DEF WayInv, LateEffect, Pending
  <2>2. Live /\ CarryOut(at) /\ UNCHANGED clientHeader /\ posted' = "none" /\ verdict' = verdict
    BY <1>2, <2>1 DEF LateEffect, Live
  <2> QED
    BY <2>1, <2>2, EndedHeaderOn DEF Reported, Live, Pending
<1> QED
  BY <1>1, <1>2

LEMMA QuietHeaderOn ==
  WayInv /\ HeaderOn /\ (Post \/ GiveUp \/ Abandon \/ UNCHANGED vars) => HeaderOn'
<1> SUFFICES ASSUME WayInv, HeaderOn, Post \/ GiveUp \/ Abandon \/ UNCHANGED vars
             PROVE  HeaderOn'
  OBVIOUS
<1>1. UNCHANGED <<op, at, headerVars>>
  BY DEF Post, GiveUp, Abandon, Send, End, vars, exchangeVars
<1>2. Reported' => Reported
  BY DEF Post, GiveUp, Abandon, Send, End, vars, exchangeVars, Reported, Live, Waiting, Pending
<1>3. UNCHANGED <<header, before, unset, rows, current, lastId, dialogs, asking, editing,
                  view, keep, listed>>
  BY <1>1 DEF headerVars, dynamicsHeader, clientHeader
<1>4. HeaderTypeOK'
  BY <1>3 DEF HeaderOn, HeaderTypeOK
<1>5. HeaderSoFar => HeaderSoFar'
  <2>1. (Settled' <=> Settled) /\ (HeaderLeft' <=> HeaderLeft)
    BY <1>1, <1>3 DEF Settled, HeaderLeft
  <2> QED
    BY <1>1, <1>3, <2>1 DEF HeaderSoFar
<1> QED
  BY <1>2, <1>4, <1>5 DEF HeaderOn

LEMMA NextHeaderOn == WayInv /\ HeaderInv /\ HeaderOn /\ [Next]_vars => HeaderOn'
  BY AcceptHeaderOn, RejectHeaderOn, QuietHeaderOn DEF Next, Stop

LEMMA InitHeaderOn == Init => HeaderOn
<1> SUFFICES ASSUME Init PROVE HeaderOn
  OBVIOUS
<1>1. HeaderInv
  BY InitHeader
<1>2. /\ header \in HeaderInputs \cup {NoHeader} /\ unset = header.fields
      /\ current = 0 /\ dialogs = 0 /\ asking = FALSE /\ editing = FALSE
      /\ view = <<>> /\ keep = 0 /\ listed = <<>>
  BY DEF Init, HeaderInit
<1>3. NoHeader \in HeaderInput
  BY HeaderAssumption DEF NoHeader, HeaderInput
<1>4. header \in HeaderInput /\ unset \subseteq Fields
  <2>1. header \in HeaderInput
    BY <1>2, <1>3, HeaderAssumption
  <2> QED
    BY <1>2, <2>1 DEF HeaderInput
<1>5. HeaderTypeOK
  <2>1. <<>> \in Seq(Row) /\ <<>> \in Seq(Workers) /\ Len(<<>>) = 0
    OBVIOUS
  <2>2. /\ view \in Seq(Row) /\ Len(view) <= MaxApprovers /\ keep \in Nat
        /\ listed \in Seq(Workers)
    BY <1>2, <2>1, HeaderAssumption
  <2>3. dialogs \in 0 .. 2 /\ asking \in BOOLEAN /\ editing \in BOOLEAN
    <3>1. dialogs \in 0 .. 2
      BY <1>2
    <3>2. asking \in BOOLEAN /\ editing \in BOOLEAN
      BY <1>2, Zenon
    <3> QED
      BY <3>1, <3>2
  <2>4. before \in Seq(Workers) /\ rows \in Seq(Row) /\ current \in Nat /\ lastId \in Nat
    BY <1>1 DEF HeaderInv, Asked, RowsOK
  <2> QED
    BY <1>4, <2>2, <2>3, <2>4 DEF HeaderTypeOK
<1>6. HeaderSoFar
  <2>1. at \in {"refresh", "menu", "newLine", "save"}
    BY DEF Init, ToLines
  <2>2. at \in {"newLine", "save"} => op = "new" /\ header = NoHeader
    BY DEF Init, HasHeader, ToLines
  <2>3. at \in {"newLine", "save"} => unset = {} /\ Settled
    BY <1>2, <2>2 DEF NoHeader, Settled
  <2> QED
    BY <2>1, <2>3 DEF HeaderSoFar, HeaderLeft, OpenSteps, HeaderSteps, Dialog
<1> QED
  BY <1>5, <1>6 DEF HeaderOn

-----------------------------------------------------------------------------
(* The types, all together.                                                *)

Typed == GridTypeOK /\ ReceiptsTypeOK
Sound == WayInv /\ Typed /\ HeaderInv /\ HeaderOn /\ LinesInv /\ ReceiptsInv

LEMMA NextTyped == WayInv /\ Typed /\ [Next]_vars => Typed'
<1> SUFFICES ASSUME WayInv, Typed, [Next]_vars PROVE Typed'
  OBVIOUS
<1>1. CASE Accept
  BY <1>1, GridTyped, ReceiptsClient DEF Typed, Accept
<1>2. CASE Reject \/ LateEffect
  <2>1. CarryOut(at) \/ CarryOut(posted)
    BY <1>2 DEF Reject, LateEffect
  <2>2. GridTypeOK' /\ ReceiptsThere'
    BY <2>1, GridTyped, ReceiptsTyped DEF Typed
  <2>3. UNCHANGED clientReceipts
    BY <1>2 DEF Reject, LateEffect
  <2> QED
    BY <2>2, <2>3 DEF Typed, ReceiptsTypeOK, ReceiptsThere, clientReceipts
<1>3. CASE Post \/ GiveUp \/ Abandon \/ UNCHANGED vars
  <2>1. UNCHANGED <<gridVars, receiptVars>>
    BY <1>3 DEF Post, GiveUp, Abandon, vars
  <2> QED
    BY <2>1 DEF Typed, GridTypeOK, ReceiptsTypeOK, gridVars, receiptVars, dynamicsReceipts,
       clientReceipts
<1> QED
  BY <1>1, <1>2, <1>3 DEF Next, Stop

LEMMA InitTyped == Init => Typed
<1> SUFFICES ASSUME Init PROVE Typed
  OBVIOUS
<1>1. GridTypeOK
  <2>1. Target \in Reports
    BY GridAssumption
  <2>2. CASE op = "new"
    <3>1. form = Target /\ active \in Reports /\ marked = {} /\ status = [r \in Reports |-> "Draft"]
      BY <2>2 DEF Init, NewInit
    <3>2. deleting \in BOOLEAN
      BY <2>2, Zenon DEF Init, NewInit
    <3> QED
      BY <2>1, <3>1, <3>2 DEF GridTypeOK
  <2>3. CASE op # "new"
    <3>1. /\ status \in [Reports -> {"Draft", "Other"}]
          /\ active \in Reports /\ marked \subseteq Reports /\ form = NoReport
      BY <2>3 DEF Init, NewInit, GridInit
    <3>2. deleting \in BOOLEAN
      BY <2>3, Zenon DEF Init, NewInit, GridInit
    <3> QED
      BY <3>1, <3>2 DEF GridTypeOK
  <2> QED
    BY <2>2, <2>3
<1>2. ReceiptsTypeOK
  <2>1. count \in 1 .. MaxUploads \/ count = 1
    BY DEF Init, ReceiptsInit
  <2>2. line \in LineNumbers \/ line = 1
    BY DEF Init, ReceiptsInit
  <2>3. onReport \subseteq Receipts
    BY DraftsAssumption DEF Init, ReceiptsInit
  <2>4. /\ link \in Links /\ first = [receipts |-> onReport, link |-> link]
        /\ receipt \in IF onReport = {} THEN {NoReceipt} ELSE onReport
        /\ marks \subseteq onReport
        /\ popupLine = NoLine /\ uploaded = 0 /\ removed = 0 /\ chosen = NoReceipt
    BY DEF Init, ReceiptsInit
  <2>5. removing \in BOOLEAN /\ popup \in BOOLEAN
    BY Zenon DEF Init, ReceiptsInit
  <2>6. count \in Nat /\ line \in Nat
    BY <2>1, <2>2, ReceiptsAssumption DEF LineNumbers
  <2>7. first \in [receipts: SUBSET Receipts, link: Links]
    BY <2>3, <2>4
  <2> QED
    BY <2>3, <2>4, <2>5, <2>6, <2>7 DEF ReceiptsTypeOK
<1> QED
  BY <1>1, <1>2 DEF Typed

LEMMA NextHeaderInv == HeaderInv /\ [Next]_vars => HeaderInv'
  BY AcceptInv, RejectInv, LateInv, QuietInv DEF Next, Stop

LEMMA NextLines == LinesInv /\ [Next]_vars => LinesInv'
  BY LinesAcceptInv, LinesRejectInv, LinesLateInv, LinesQuietInv DEF Next, Stop

LEMMA SoundThroughout == Spec => []Sound
<1>1. Init => Sound
  BY InitWay, InitTyped, InitHeader, InitHeaderOn, InitLines, InitReceipts DEF Sound
<1>2. Sound /\ [Next]_vars => Sound'
  BY NextWay, NextTyped, NextHeaderInv, NextHeaderOn, NextLines, NextReceipts DEF Sound
<1> QED
  BY <1>1, <1>2, PTL DEF Spec

(* Whatever is asked for and whatever Dynamics answers, every part of the  *)
(* client and of what it edits keeps its type: no list of approvers grows  *)
(* past the limit, and every row of an itemization is one that was asked   *)
(* for.                                                                    *)
THEOREM TypesRight == Spec => []TypeOK
<1>1. ASSUME Sound PROVE TypeOK
  <2>1. WayInv /\ GridTypeOK /\ HeaderTypeOK /\ LinesTypeOK /\ ReceiptsTypeOK
    BY <1>1 DEF Sound, Typed, HeaderOn, LinesInv
  <2>2. at \in Steps \cup {"done"} /\ op \in Ops
    BY <2>1, StepsAre DEF WayInv
  <2>3. posted \in Steps \cup {"none"}
    BY <2>1, <2>2 DEF WayInv
  <2> QED
    BY <2>1, <2>2, <2>3 DEF TypeOK, WayInv
<1> QED
  BY <1>1, SoundThroughout, PTL

-----------------------------------------------------------------------------
(* Where an accepted answer comes from.                                    *)

LEMMA Backward ==
  ASSUME WayInv, Accept
  PROVE  /\ at' \in OpenSteps => at \in OpenSteps
         /\ at' \in {"tab", "submit"} => at = "link"
         /\ at' = "mark" => at = "refresh"
         /\ at' = "delete" => at = "mark"
         /\ at' = "done" => at \in {"save", "resubmitted", "gone"}
         /\ op = "add" /\ at' = "upload" => at \in {"tab", "upload"}
         /\ op = "add" /\ at' = "save" => at = "upload"
         /\ op = "remove" /\ at' = "save" => at = "yesRemove"
         /\ op = "attach" /\ at' = "save" => at = "closePopup"
         /\ op = "attach" /\ at' = "closePopup" => at = "attach"
<1>1. /\ at \in HeaderSteps => op \in {"edit", "new"}
      /\ at \in LinesSteps => op \in {"itemize", "new"}
  BY StepsAre DEF WayInv
<1>2. CASE at \in GridSteps /\ GridAccept(op = "delete", AfterOpen)
  <2>1. \/ at = "refresh" /\ at' \in (IF op = "delete" THEN {"mark"} ELSE {"link", "activate"})
        \/ at = "activate" /\ at' = "link"
        \/ at = "link" /\ at' = AfterOpen
        \/ at = "save" /\ at' = "done"
        \/ at = "submit" /\ at' = "resubmitted"
        \/ at = "resubmitted" /\ at' = "done"
        \/ at = "mark" /\ at' = "delete"
        \/ at = "delete" /\ at' = "yes"
        \/ at = "yes" /\ at' = "gone"
        \/ at = "gone" /\ at' = "done"
    BY <1>2, GridLeadsOn
  <2>2. AfterOpen \in {"menu", "lineMenu", "pickLine", "submit", "tab"}
    BY DEF AfterOpen
  <2> QED
    BY <2>1, <2>2 DEF OpenSteps
<1>3. CASE at \in HeaderSteps /\ HeaderAccept(AfterHeader)
  <2>1. at' \in HeaderSteps \cup {"newLine", "save"}
    BY <1>3, HeaderProceeds DEF Proceed, AfterHeader, ToLines
  <2> QED
    BY <1>1, <1>3, <2>1 DEF HeaderSteps, OpenSteps
<1>4. CASE at \in LinesSteps /\ LinesAccept("save")
  <2>1. at' \in LinesSteps \cup {"save"}
    BY <1>4, LinesProceed DEF Proceed
  <2> QED
    BY <1>1, <1>4, <2>1 DEF LinesSteps, OpenSteps
<1>5. CASE at \in ReceiptSteps /\ ReceiptsAccept(op, "save")
  <2>1. \/ at = "tab" /\ op = "show" /\ at' = "save"
        \/ at = "tab" /\ op = "add" /\ at' = "upload"
        \/ at = "tab" /\ op = "remove" /\ at' \in {"remove", "pickReceipt"}
        \/ at = "tab" /\ op = "attach" /\ at' \in {"popup", "pickReceipt"}
        \/ at = "upload" /\ at' \in {"upload", "save"}
        \/ at = "pickReceipt" /\ at' = (IF op = "attach" THEN "popup" ELSE "remove")
        \/ at = "remove" /\ at' = "yesRemove"
        \/ at = "yesRemove" /\ at' \in {"remove", "pickReceipt", "save"}
        \/ at = "popup" /\ at' \in {"attach", "pickPopupLine"}
        \/ at = "pickPopupLine" /\ at' = "attach"
        \/ at = "attach" /\ at' = "closePopup"
        \/ at = "closePopup" /\ at' = "save"
    BY <1>5, ReceiptsLeadOn
  <2>2. op \in {"add", "remove", "attach", "show"} /\ (at = "upload" => op = "add")
        /\ (at = "yesRemove" => op = "remove") /\ (at = "closePopup" => op = "attach")
    BY <1>5, StepsAre DEF WayInv, ReceiptSteps
  <2> QED
    BY <2>1, <2>2 DEF OpenSteps
<1> QED
  BY <1>2, <1>3, <1>4, <1>5 DEF Accept

-----------------------------------------------------------------------------
(* What each operation leaves alone, as it goes on.                        *)

LEMMA NotGone ==
  ASSUME GridTypeOK, NoneGone, status' = status \/ status' = [status EXCEPT ![form] = "Submitted"]
  PROVE  NoneGone'
  BY DEF GridTypeOK, NoneGone

(* The rows of the report that nothing has been done to.                   *)
LEMMA HeaderSame ==
  ASSUME WayInv, HeaderInv, CarryOut(at), UNCHANGED <<header, before>>, at \notin HeaderSteps
  PROVE  unset = header.fields /\ Saved = before => unset' = header'.fields /\ Saved' = before'
<1>1. UNCHANGED <<unset, rows>>
  BY HeaderAlone DEF Fields, HeaderSteps
<1> QED
  BY <1>1 DEF Saved

LEMMA AcceptFrameOn == Sound /\ Frame /\ Accept => Frame'
<1> SUFFICES ASSUME Sound, Frame, Accept PROVE Frame'
  OBVIOUS
<1>1. WayInv /\ GridTypeOK /\ HeaderInv /\ LinesInv
  BY DEF Sound, Typed
<1>2. /\ CarryOut(at) /\ posted' = "none" /\ UNCHANGED <<op, header, before, first, original>>
      /\ verdict = "pending" /\ verdict' \in {"pending", "nil"}
  <2>1. UNCHANGED original
    BY DEF Accept, clientLines, LinesAccept
  <2> QED
    BY <2>1, AcceptedIs, AcceptLeads, AcceptFrame
<1>3. /\ at \in HeaderSteps => op \in {"edit", "new"}
      /\ at \in LinesSteps => op \in {"itemize", "new"}
      /\ at = "submit" => op = "submit"
      /\ at = "yes" => op = "delete"
      /\ at = "upload" => op = "add"
      /\ at = "yesRemove" => op = "remove"
      /\ at = "attach" => op = "attach"
  BY <1>1, StepsAre DEF WayInv
<1>4. /\ at' \in OpenSteps => at \in OpenSteps
      /\ at' \in {"tab", "submit"} => at = "link"
      /\ at' = "mark" => at = "refresh"
      /\ at' = "delete" => at = "mark"
  BY <1>1, Backward
<1>5. op \notin {"edit", "new"} \/ at' \in OpenSteps => unset' = header'.fields /\ Saved' = before'
  <2> SUFFICES ASSUME op \notin {"edit", "new"} \/ at' \in OpenSteps
               PROVE  unset' = header'.fields /\ Saved' = before'
    OBVIOUS
  <2>1. at \notin HeaderSteps
    BY <1>3, <1>4 DEF OpenSteps, HeaderSteps
  <2>2. unset = header.fields /\ Saved = before
    BY <1>4 DEF Frame
  <2> QED
    BY <1>1, <1>2, <2>1, <2>2, HeaderSame
<1>6. op \notin {"itemize", "new"} => lines' = original'
  <2>1. at \in {"saveLine", "closeSheet"} => at \in LinesSteps
    BY DEF LinesSteps
  <2> QED
    BY <1>2, <1>3, <2>1, LinesAlone DEF Frame
<1>7. op = "itemize" /\ at' \in OpenSteps \cup {"pickLine", "lineMenu"} => lines' = original'
  <2>1. LinesInv'
    BY <1>1, LinesAcceptInv
  <2>2. Reported'
    BY <1>2 DEF Reported, Live, Pending
  <2>3. op' = "itemize" => lines' = LinesNow'
    BY <2>1, <2>2 DEF LinesInv
  <2>4. op' = "itemize" /\ at' \in OpenSteps \cup {"pickLine", "lineMenu"} => LinesNow' = original'
    BY DEF LinesNow, Believed, LinesSteps
  <2> QED
    BY <1>2, <2>3, <2>4
<1>8. op # "add" \/ at' \in OpenSteps \cup {"tab"} => uploaded' = 0
  <2> SUFFICES ASSUME op # "add" \/ at' \in OpenSteps \cup {"tab"} PROVE uploaded' = 0
    OBVIOUS
  <2>1. at # "upload" /\ uploaded = 0
    BY <1>3, <1>4 DEF Frame, OpenSteps
  <2> QED
    BY <1>2, <2>1, ReceiptsAlone
<1>9. op \notin {"remove", "attach"} \/ at' \in OpenSteps \cup {"tab"} => ReceiptsSame'
  <2> SUFFICES ASSUME op \notin {"remove", "attach"} \/ at' \in OpenSteps \cup {"tab"}
               PROVE  ReceiptsSame'
    OBVIOUS
  <2>1. at \notin {"yesRemove", "attach"} /\ ReceiptsSame
    BY <1>3, <1>4 DEF Frame, OpenSteps
  <2> QED
    BY <1>2, <2>1, ReceiptsAlone DEF ReceiptsSame
<1>10. op # "delete" \/ at' \in {"refresh", "mark", "delete"} => NoneGone'
  <2> SUFFICES ASSUME op # "delete" \/ at' \in {"refresh", "mark", "delete"} PROVE NoneGone'
    OBVIOUS
  <2>1. at # "yes" /\ NoneGone
    <3>1. at' = "refresh" => at \in OpenSteps
      BY <1>4 DEF OpenSteps
    <3>2. at' = "refresh" => op # "delete" \/ at = "refresh"
      <4>1. at \in OpenSteps /\ op = "delete" => at = "refresh"
        BY <1>1 DEF WayInv, StepsOf, OpenSteps
      <4> QED
        BY <3>1, <4>1
    <3> QED
      BY <1>3, <1>4, <3>2 DEF Frame
  <2>2. status' = status \/ status' = [status EXCEPT ![form] = "Submitted"]
    BY <1>2, <2>1, GridAlone
  <2> QED
    BY <1>1, <2>1, <2>2, NotGone
<1>11. op = "submit" /\ at' \in OpenSteps => NoneSubmitted'
  <2> SUFFICES ASSUME op = "submit", at' \in OpenSteps PROVE NoneSubmitted'
    OBVIOUS
  <2>1. NoneSubmitted /\ at \notin {"submit", "yes"}
    BY <1>4 DEF Frame, OpenSteps
  <2> QED
    BY <1>2, <2>1, GridAlone DEF NoneSubmitted
<1>12. op = "submit" /\ at' = "submit" => NoneSubmitted'
  <2> SUFFICES ASSUME op = "submit", at' = "submit" PROVE NoneSubmitted'
    OBVIOUS
  <2>1. NoneSubmitted /\ at \notin {"submit", "yes"}
    BY <1>4 DEF Frame, OpenSteps
  <2> QED
    BY <1>2, <2>1, GridAlone DEF NoneSubmitted
<1> QED
  BY <1>2, <1>5, <1>6, <1>7, <1>8, <1>9, <1>10, <1>11, <1>12 DEF Frame

(* The same step goes on, or ends.                                         *)
LEMMA SameStepFrame ==
  ASSUME Sound, Frame, CarryOut(at), posted' = "none",
         UNCHANGED <<op, at, clientHeader, clientLines, clientReceipts>>,
         verdict' = "failure" => at \in PlainSteps,
         at = "submit" => verdict' \notin {"pending", "failure"}
  PROVE  Frame'
<1>1. WayInv /\ GridTypeOK /\ HeaderInv /\ LinesInv
  BY DEF Sound, Typed
<1>2. UNCHANGED <<header, before, original, first>>
  BY DEF clientHeader, clientLines, clientReceipts
<1>3. /\ at \in HeaderSteps => op \in {"edit", "new"}
      /\ at \in LinesSteps => op \in {"itemize", "new"}
      /\ at = "submit" => op = "submit"
      /\ at = "yes" => op = "delete"
      /\ at = "upload" => op = "add"
      /\ at = "yesRemove" => op = "remove"
      /\ at = "attach" => op = "attach"
  BY <1>1, StepsAre DEF WayInv
<1>4. op \notin {"edit", "new"} \/ at \in OpenSteps => unset' = header'.fields /\ Saved' = before'
  <2> SUFFICES ASSUME op \notin {"edit", "new"} \/ at \in OpenSteps
               PROVE  unset' = header'.fields /\ Saved' = before'
    OBVIOUS
  <2>1. at \notin HeaderSteps
    BY <1>3 DEF OpenSteps, HeaderSteps
  <2>2. unset = header.fields /\ Saved = before
    BY DEF Frame
  <2> QED
    BY <1>1, <1>2, <2>1, <2>2, HeaderSame
<1>5. op \notin {"itemize", "new"} => lines' = original'
  <2>1. at \in {"saveLine", "closeSheet"} => at \in LinesSteps
    BY DEF LinesSteps
  <2> QED
    BY <1>2, <1>3, <2>1, LinesAlone DEF Frame
<1>6. op = "itemize" /\ at \in OpenSteps \cup {"pickLine", "lineMenu"} => lines' = original'
  BY <1>2, LinesAlone DEF Frame, OpenSteps
<1>7. op # "add" \/ at \in OpenSteps \cup {"tab"} => uploaded' = 0
  BY <1>3, ReceiptsAlone DEF Frame, OpenSteps
<1>8. op \notin {"remove", "attach"} \/ at \in OpenSteps \cup {"tab"} => ReceiptsSame'
  BY <1>2, <1>3, ReceiptsAlone DEF Frame, OpenSteps, ReceiptsSame
<1>9. op # "delete" \/ at \in {"refresh", "mark", "delete"} => NoneGone'
  <2> SUFFICES ASSUME op # "delete" \/ at \in {"refresh", "mark", "delete"} PROVE NoneGone'
    OBVIOUS
  <2>1. at # "yes" /\ NoneGone
    BY <1>3 DEF Frame
  <2> QED
    BY <1>1, <2>1, GridAlone, NotGone
<1>10. op = "submit" /\ at \in OpenSteps => NoneSubmitted'
  BY GridAlone DEF Frame, OpenSteps, NoneSubmitted
<1>11. PlainSteps' = PlainSteps /\ at' = at /\ op' = op
  BY DEF PlainSteps
<1> QED
  BY <1>4, <1>5, <1>6, <1>7, <1>8, <1>9, <1>10, <1>11 DEF Frame

LEMMA FrameOn == Sound /\ Frame /\ [Next]_vars => Frame'
<1> SUFFICES ASSUME Sound, Frame, [Next]_vars PROVE Frame'
  OBVIOUS
<1>0. WayInv
  BY DEF Sound
<1>1. CASE Accept
  BY <1>1, AcceptFrameOn
<1>2. CASE Reject
  <2>1. /\ CarryOut(at) /\ posted' = "none" /\ verdict' = ErrorClass(at)
        /\ UNCHANGED <<op, at, clientHeader, clientLines, clientReceipts>>
    BY <1>2 DEF Reject, End
  <2>2. verdict' = "failure" => at \in PlainSteps
    BY <2>1 DEF ErrorClass
  <2>3. at = "submit" => at \notin PlainSteps
    BY DEF PlainSteps, OpenSteps
  <2>4. at = "submit" => verdict' \notin {"pending", "failure"}
    BY <2>1, <2>3 DEF ErrorClass
  <2> QED
    BY <2>1, <2>2, <2>4, SameStepFrame
<1>3. CASE LateEffect
  <2>1. /\ posted = at /\ posted # "none" /\ CarryOut(at) /\ posted' = "none" /\ verdict' = verdict
        /\ verdict # "pending"
        /\ UNCHANGED <<op, at, clientHeader, clientLines, clientReceipts>>
    BY <1>0, <1>3 DEF LateEffect, WayInv, Pending
  <2>2. verdict' = "failure" => at \in PlainSteps
    BY <2>1 DEF Frame
  <2>3. at = "submit" => at \notin PlainSteps
    BY DEF PlainSteps, OpenSteps
  <2> QED
    BY <2>1, <2>2, <2>3, SameStepFrame
<1>4. CASE Post \/ GiveUp \/ Abandon \/ UNCHANGED vars
  <2>1. UNCHANGED <<op, at, gridVars, headerVars, linesVars, receiptVars>>
    BY <1>4 DEF Post, GiveUp, Abandon, Send, End, vars, exchangeVars
  <2>2. UNCHANGED <<status, unset, rows, header, before, lines, original, card, uploaded,
                    onReport, link, first>>
    BY <2>1 DEF gridVars, headerVars, linesVars, receiptVars, dynamicsHeader, clientHeader,
       dynamicsLines, clientLines, dynamicsReceipts, clientReceipts
  <2>3. /\ PlainSteps' = PlainSteps /\ AfterOpen' = AfterOpen /\ Saved' = Saved
        /\ (NoneGone' <=> NoneGone) /\ (NoneSubmitted' <=> NoneSubmitted)
        /\ (ReceiptsSame' <=> ReceiptsSame)
    BY <2>1, <2>2 DEF PlainSteps, AfterOpen, Saved, NoneGone, NoneSubmitted, ReceiptsSame
  <2>5. op = "submit" /\ at = "submit" /\ posted' = "none" /\ verdict' \in {"pending", "failure"}
          => NoneSubmitted
    <3>1. CASE Post
      <4>1. posted' = at
        BY <3>1 DEF Post, Send
      <4> QED
        BY <4>1
    <3>2. CASE GiveUp
      BY <3>2 DEF GiveUp, Waiting, End
    <3>3. CASE Abandon
      BY <3>3 DEF Abandon, Pending, End, Frame
    <3>4. CASE UNCHANGED vars
      BY <3>4 DEF vars, exchangeVars, Frame
    <3> QED
      BY <1>4, <3>1, <3>2, <3>3, <3>4
  <2>6. verdict' = "failure" =>
          at \in PlainSteps \/ (op \in {"submit", "itemize"} /\ at = AfterOpen /\ posted' = "none")
    <3>1. CASE Post
      BY <3>1 DEF Post, Send, Pending
    <3>2. CASE GiveUp
      BY <3>2 DEF GiveUp, End, ErrorClass
    <3>3. CASE Abandon
      BY <3>3 DEF Abandon, End, Unsent, ErrorClass
    <3>4. CASE UNCHANGED vars
      BY <3>4 DEF vars, exchangeVars, Frame
    <3> QED
      BY <1>4, <3>1, <3>2, <3>3, <3>4
  <2> QED
    BY <2>1, <2>2, <2>3, <2>5, <2>6 DEF Frame
<1> QED
  BY <1>1, <1>2, <1>3, <1>4 DEF Next, Stop

LEMMA InitSame ==
  ASSUME Init
  PROVE  /\ unset = header.fields /\ Saved = before /\ lines = original /\ uploaded = 0
         /\ ReceiptsSame /\ NoneGone /\ NoneSubmitted
<1>1. /\ op \in Ops /\ verdict = "pending" /\ unset = header.fields /\ lines = original /\ uploaded = 0
      /\ first = [receipts |-> onReport, link |-> link]
      /\ at = IF op # "new" THEN "refresh" ELSE IF HasHeader THEN "menu" ELSE ToLines
  BY DEF Init, HeaderInit, LinesInit, ReceiptsInit
<1>2. HeaderInv /\ Typed
  BY InitHeader, InitTyped
<1>3. Saved = before
  <2>1. before \in Seq(Workers) /\ rows \in Seq(Row)
    BY <1>2 DEF HeaderInv, Asked, RowsOK
  <2>2. rows = [i \in DOMAIN before |-> [id |-> i, worker |-> before[i]]]
    BY DEF Init, HeaderInit
  <2>3. WorkersOf(rows) = before
    BY <2>1, <2>2 DEF WorkersOf
  <2>4. \A i \in 1 .. Len(rows) : WorkersOf(rows)[i] \in Workers
    BY <2>1, <2>3, WorkersAre
  <2> QED
    BY <2>1, <2>3, <2>4, SavedAll DEF Saved
<1>4. ReceiptsSame
  BY <1>1 DEF ReceiptsSame
<1>5. NoneGone /\ NoneSubmitted
  <2>1. CASE op = "new"
    BY <2>1 DEF Init, NewInit, NoneGone, NoneSubmitted
  <2>2. CASE op # "new"
    BY <2>2 DEF Init, NewInit, GridInit, NoneGone, NoneSubmitted
  <2> QED
    BY <2>1, <2>2
<1> QED
  BY <1>1, <1>3, <1>4, <1>5

LEMMA InitFrame == Init => Frame
<1> SUFFICES ASSUME Init PROVE Frame
  OBVIOUS
<1>1. verdict = "pending"
  BY DEF Init
<1> QED
  BY <1>1, InitSame DEF Frame

-----------------------------------------------------------------------------
(* What remains to be done of the receipts, as it is done.                 *)

\* The active receipt is one of the report's.
ActiveKnown == receipt \in onReport \cup {NoReceipt}

LEMMA ActiveStays ==
  ASSUME ActiveKnown, NEW step, CarryOut(step)
  PROVE  ActiveKnown'
<1> USE DEF ActiveKnown
<1>1. CASE step \in ReceiptSteps /\ ReceiptsCarry(step)
  <2> USE <1>1 DEF ReceiptsCarry
  <2>1. CASE step \in {"upload", "remove", "popup", "pickPopupLine", "closePopup"}
    BY <2>1
  <2>2. CASE step = "pickReceipt"
    BY <2>2
  <2>3. CASE step = "yesRemove"
    BY <2>3
  <2>4. CASE step = "attach"
    BY <2>4
  <2>5. CASE step = "tab"
    BY <2>5 DEF dynamicsReceipts
  <2> QED
    BY <2>1, <2>2, <2>3, <2>4, <2>5 DEF ReceiptSteps
<1>2. CASE UNCHANGED dynamicsReceipts
  BY <1>2 DEF dynamicsReceipts
<1> QED
  BY <1>1, <1>2 DEF CarryOut, Dynamics

(* The last of the receipts named has gone.                                *)
LEMMA RemovalEnds ==
  ASSUME Typed, Typed', at = "yesRemove", at' = "save", ReceiptsAccept(op, "save")
  PROVE  onReport' \cap Named = {}
<1>1. OneRemoved /\ removed' = removed + 1 /\ UNCHANGED count
  BY DEF ReceiptsAccept
<1>2. ~(removed' < count)
  <2>1. removed' < count => ToRemove(onReport')
    BY DEF ReceiptsAccept
  <2>2. ToRemove(onReport') => at' # "save"
    BY DEF ToRemove, Proceed
  <2> QED
    BY <2>1, <2>2
<1>3. IsFiniteSet(onReport' \cap Named)
  <2>1. onReport' \cap Named \subseteq Receipts
    BY DEF Typed, ReceiptsTypeOK
  <2> QED
    BY <2>1, ReceiptsAssumption, FS_Subset
<1>4. Cardinality(onReport' \cap Named) \in Nat
  BY <1>3, FS_CardinalityType
<1>5. Cardinality(onReport' \cap Named) = count - removed - 1 /\ count \in Nat /\ removed \in Nat
  BY <1>1 DEF OneRemoved, Typed, ReceiptsTypeOK
<1>6. Cardinality(onReport' \cap Named) = 0
  BY <1>1, <1>2, <1>4, <1>5
<1> QED
  BY <1>3, <1>6, FS_EmptySet

(* The receipt is attached to a line alike the one asked for.              *)
LEMMA AttachmentEnds ==
  ASSUME Sound, ActiveKnown, Live, CarryOut(at), at = "attach", ReceiptsAccept(op, "save"),
         UNCHANGED line
  PROVE  \E r \in onReport' \cap Named : LooksRight(link'[r])
<1>1. receipt \in Named /\ LooksRight(popupLine)
  BY DEF Sound, ReceiptsInv, AttachOK, AttachSteps
<1>2. Cardinality(Offered') = Cardinality(Offered) - 1
  BY DEF ReceiptsAccept
<1>3. Offered' # Offered
  <2>1. IsFiniteSet(1 .. Len(Looks))
    BY ReceiptsAssumption, FS_Interval
  <2>2. Offered \subseteq 1 .. Len(Looks)
    BY ReceiptsAssumption DEF Offered, LineNumbers
  <2>3. Cardinality(Offered) \in Nat
    BY <2>1, <2>2, FS_Subset, FS_CardinalityType
  <2> QED
    BY <1>2, <2>3
<1>4. ~(UNCHANGED dynamicsReceipts)
  <2> SUFFICES ASSUME UNCHANGED dynamicsReceipts PROVE Offered' = Offered
    BY <1>3
  <2> QED
    BY DEF dynamicsReceipts, Offered
<1>5. ReceiptsCarry("attach")
  BY <1>4 DEF CarryOut, Dynamics
<1>6. /\ receipt # NoReceipt /\ link' = [link EXCEPT ![receipt] = popupLine]
      /\ UNCHANGED onReport
  BY <1>5 DEF ReceiptsCarry
<1>7. link \in Links /\ Receipts = DOMAIN link
  BY DEF Sound, Typed, ReceiptsTypeOK, Links
<1>8. receipt \in onReport /\ receipt \in Receipts
  BY <1>6 DEF ActiveKnown, Sound, Typed, ReceiptsTypeOK
<1>9. link'[receipt] = popupLine
  BY <1>6, <1>7, <1>8
<1> QED
  BY <1>1, <1>6, <1>8, <1>9

LEMMA AcceptReceiptsOn ==
  ASSUME Sound, Sound', ActiveKnown, ReceiptsLeft, Accept
  PROVE  ReceiptsLeft'
<1>1. WayInv /\ Live /\ CarryOut(at) /\ UNCHANGED <<op, count, line, first>>
  BY AcceptFrame, AcceptedIs DEF Sound
<1>2. /\ at = "upload" => op = "add"
      /\ at = "yesRemove" => op = "remove"
      /\ at = "attach" => op = "attach"
  BY <1>1, StepsAre DEF WayInv
<1>3. /\ at' \in OpenSteps => at \in OpenSteps
      /\ at' = "tab" => at = "link"
      /\ op = "add" /\ at' = "upload" => at \in {"tab", "upload"}
      /\ op = "add" /\ at' = "save" => at = "upload"
      /\ op = "remove" /\ at' = "save" => at = "yesRemove"
      /\ op = "attach" /\ at' = "save" => at = "closePopup"
      /\ op = "attach" /\ at' = "closePopup" => at = "attach"
  BY <1>1, Backward
<1>4. at \in ReceiptSteps => ReceiptsAccept(op, "save")
  BY StepsApart DEF Accept, LinesSteps, ReceiptSteps
<1>5. op = "add" => /\ at' \in OpenSteps \cup {"tab", "upload"} => uploaded' < count'
                    /\ at' = "save" => uploaded' = count'
  <2> SUFFICES ASSUME op = "add"
               PROVE  /\ at' \in OpenSteps \cup {"tab", "upload"} => uploaded' < count'
                      /\ at' = "save" => uploaded' = count'
    OBVIOUS
  <2>1. CASE at = "upload"
    <3>1. uploaded' = uploaded + 1 /\ at' = IF uploaded' < count THEN "upload" ELSE "save"
      BY <1>4, <2>1 DEF ReceiptsAccept, Proceed, ReceiptSteps
    <3>2. uploaded < count /\ uploaded \in Nat /\ count \in Nat
      BY <2>1 DEF ReceiptsLeft, Sound, Typed, ReceiptsTypeOK
    <3> QED
      BY <1>1, <3>1, <3>2 DEF OpenSteps
  <2>2. CASE at # "upload"
    <3>1. UNCHANGED uploaded
      BY <1>1, <2>2, ReceiptsAlone
    <3>2. at' # "save" /\ (at' \in OpenSteps \cup {"tab", "upload"} => at \in OpenSteps \cup {"tab"})
      BY <1>3, <2>2 DEF OpenSteps
    <3> QED
      BY <1>1, <3>1, <3>2 DEF ReceiptsLeft
  <2> QED
    BY <2>1, <2>2
<1>6. op = "remove" /\ at' = "save" => onReport' \cap Named = {}
  BY <1>3, <1>4, RemovalEnds DEF Sound, ReceiptSteps
<1>7. op = "attach" /\ at' \in {"closePopup", "save"} =>
        \E r \in onReport' \cap Named : LooksRight(link'[r])
  <2>1. CASE at = "attach"
    BY <1>1, <1>4, <2>1, AttachmentEnds DEF ReceiptSteps
  <2>2. CASE at = "closePopup"
    <3>1. UNCHANGED <<onReport, link>>
      BY <1>1, <2>2, ReceiptsAlone
    <3> QED
      BY <1>1, <2>2, <3>1 DEF ReceiptsLeft
  <2> QED
    BY <1>3, <2>1, <2>2
<1>8. \A n : LooksRight(n)' = LooksRight(n)
  BY <1>1 DEF LooksRight, Alike
<1> QED
  BY <1>1, <1>5, <1>6, <1>7, <1>8 DEF ReceiptsLeft, LooksRight, Alike

Going == ActiveKnown /\ ReceiptsOn

LEMMA GoingOn == Sound /\ Sound' /\ Going /\ [Next]_vars => Going'
<1> SUFFICES ASSUME Sound, Sound', Going, [Next]_vars PROVE Going'
  OBVIOUS
<1>1. CASE Accept
  <2>1. Live /\ CarryOut(at)
    BY <1>1, AcceptedIs
  <2> QED
    BY <1>1, <2>1, AcceptReceiptsOn, ActiveStays DEF Going, ReceiptsOn
<1>2. CASE Reject \/ LateEffect
  <2>1. CarryOut(at) \/ CarryOut(posted)
    BY <1>2 DEF Reject, LateEffect
  <2>2. ~Live'
    BY <1>2, ErrorClasses DEF Reject, LateEffect, End, Live, Pending
  <2> QED
    BY <2>1, <2>2, ActiveStays DEF Going, ReceiptsOn
<1>3. CASE Post \/ GiveUp \/ Abandon \/ UNCHANGED vars
  <2>1. UNCHANGED <<op, at, receiptVars>>
    BY <1>3 DEF Post, GiveUp, Abandon, Send, End, vars, exchangeVars
  <2>2. Live' => Live
    BY <1>3 DEF Post, GiveUp, Abandon, Send, End, vars, exchangeVars, Live, Pending, Waiting
  <2>3. UNCHANGED <<receipt, onReport, uploaded, count, link, line>>
    BY <2>1 DEF receiptVars, dynamicsReceipts, clientReceipts
  <2>4. \A n : LooksRight(n)' = LooksRight(n)
    BY <2>3 DEF LooksRight, Alike
  <2>5. ReceiptsLeft => ReceiptsLeft'
    BY <2>1, <2>3, <2>4 DEF ReceiptsLeft, LooksRight, Alike
  <2> QED
    BY <2>2, <2>3, <2>5 DEF Going, ReceiptsOn, ActiveKnown
<1> QED
  BY <1>1, <1>2, <1>3 DEF Next, Stop

LEMMA InitGoing == Init => Going
<1> SUFFICES ASSUME Init PROVE Going
  OBVIOUS
<1>1. receipt \in IF onReport = {} THEN {NoReceipt} ELSE onReport
  BY DEF Init, ReceiptsInit
<1>2. uploaded = 0 /\ (op = "add" => count \in 1 .. MaxUploads)
  BY DEF Init, ReceiptsInit
<1>3. at = "refresh" \/ op = "new"
  BY DEF Init
<1> QED
  BY <1>1, <1>2, <1>3, ReceiptsAssumption DEF Going, ActiveKnown, ReceiptsOn, ReceiptsLeft

-----------------------------------------------------------------------------
(* The promise.                                                            *)

IInv == Sound /\ Frame /\ Going

LEMMA KeptThroughout == Spec => []IInv
<1>1. Init => IInv
  BY InitWay, InitTyped, InitHeader, InitHeaderOn, InitLines, InitReceipts, InitFrame, InitGoing
  DEF Sound, IInv
<1>2. IInv /\ [Next]_vars => IInv'
  <2>1. Sound /\ [Next]_vars => Sound'
    BY NextWay, NextTyped, NextHeaderInv, NextHeaderOn, NextLines, NextReceipts DEF Sound
  <2> QED
    BY <2>1, FrameOn, GoingOn DEF IInv
<1> QED
  BY <1>1, <1>2, PTL DEF Spec

\* Nothing has been or will be changed when a step ends so.
Clean ==
  \/ at \in PlainSteps
  \/ /\ op \in {"submit", "itemize"} /\ at = AfterOpen /\ posted = "none"
     /\ verdict \in {"pending", "failure"}

LEMMA CleanIs ==
  ASSUME Sound, Frame, Clean
  PROVE  ~Changed
<1>1. op \in Ops
  BY DEF Sound, WayInv
<1>2. op # "new" /\ (op = "edit" => at \in OpenSteps)
      /\ (op = "itemize" => at \in OpenSteps \cup {"pickLine", "lineMenu"})
      /\ (op = "submit" => at \in OpenSteps \cup {"submit"})
      /\ (op = "delete" => at \in {"refresh", "mark", "delete"})
      /\ (op = "add" => at \in OpenSteps)
      /\ (op \in {"remove", "attach"} => at \in OpenSteps \cup {"tab"})
  BY <1>1 DEF Clean, PlainSteps, AfterOpen, Ops
<1>3. unset = header.fields /\ Saved = before /\ lines = original /\ uploaded = 0 /\ ReceiptsSame
      /\ NoneGone
  BY <1>1, <1>2 DEF Frame
<1>4. op = "submit" => NoneSubmitted
  <2>1. op = "submit" /\ at = "submit" => at \notin PlainSteps
    BY DEF PlainSteps, OpenSteps
  <2>2. op = "submit" /\ at = "submit" => posted = "none" /\ verdict \in {"pending", "failure"}
    BY <2>1 DEF Clean
  <2> QED
    BY <1>2, <2>2 DEF Frame
<1> QED
  BY <1>3, <1>4 DEF Changed, NoneGone, NoneSubmitted, ReceiptsSame

\* What the caller is told of a failure.
HonestFailure == verdict = "failure" => ~Changed

LEMMA FailureIsHonest == IInv => HonestFailure
  BY CleanIs DEF IInv, HonestFailure, Frame, Clean

LEMMA VerdictBars ==
  /\ verdict = "pending" => verdictBar = "pending"
  /\ verdict = "nil" => verdictBar = IF op = "attach" /\ Twin THEN "uncertain" ELSE "success"
  /\ verdict = "uncertain" => verdictBar = "uncertain"
  /\ verdict = "failure" => verdictBar = "failure"
BY DEF verdictBar

LEMMA EffectBars ==
  /\ effectBar \in Promise!Effects
  /\ ~Changed /\ verdict # "nil" => effectBar = "none"
  /\ Done /\ verdict = "nil" => effectBar = "complete"
BY DEF effectBar, Promise!Effects

(* A header that is settled is done.                                       *)
LEMMA HeaderIsDone ==
  ASSUME HeaderInv, unset = {}, Settled
  PROVE  HeaderDone
<1>1. rows \in Seq(Row) /\ header.names \in Seq(Approver)
  BY DEF HeaderInv, RowsOK, Asked
<1>2. CASE header.names # <<>>
  <2>1. /\ Len(rows) = Len(header.names)
        /\ \A i \in 1 .. Len(rows) : rows[i].worker \in header.names[i].who
    BY <1>2 DEF Settled
  <2>2. /\ WorkersOf(rows) \in Seq(Workers \cup {Blank})
        /\ Len(WorkersOf(rows)) = Len(rows) /\ DOMAIN WorkersOf(rows) = 1 .. Len(rows)
        /\ \A i \in 1 .. Len(rows) : WorkersOf(rows)[i] = rows[i].worker
    BY <1>1, WorkersAre
  <2>3. \A i \in 1 .. Len(header.names) : header.names[i].who \subseteq Workers
    <3>1. \A i \in 1 .. Len(header.names) : header.names[i] \in Approver
      BY <1>1
    <3> QED
      BY <3>1 DEF Approver
  <2>4. \A i \in 1 .. Len(rows) : WorkersOf(rows)[i] \in Workers
    BY <2>1, <2>2, <2>3
  <2>5. Saved = WorkersOf(rows)
    BY <1>1, <2>4, SavedAll DEF Saved
  <2>6. \A i \in 1 .. Len(rows) : Matches(WorkersOf(rows)[i], header.names[i])
    BY <2>1, <2>2 DEF Matches
  <2> QED
    BY <2>1, <2>2, <2>5, <2>6 DEF HeaderDone
<1> QED
  BY <1>2 DEF HeaderDone

(* An accepted answer ends the operation only when all of it is done; a    *)
(* receipt may have been attached to a twin of its line.                   *)
LEMMA EndsDone ==
  ASSUME Sound, Frame, Going, Accept, at' = "done"
  PROVE  (op = "attach" /\ Twin)' \/ Done'
<1>1. /\ WayInv /\ HeaderInv /\ HeaderOn /\ LinesInv /\ ReceiptsInv /\ Typed
      /\ ReceiptsOn /\ Live /\ Reported
  BY AcceptedIs DEF Sound, Going, Reported
<1>2. at \in {"save", "resubmitted", "gone"}
  BY <1>1, Backward
<1>3. CarryOut(at) /\ UNCHANGED <<op, header, before, count, line, first>>
  BY AcceptedIs, AcceptLeads, AcceptFrame
<1>4. /\ at = "save" => op \notin {"submit", "delete"}
      /\ at = "resubmitted" => op = "submit"
      /\ at = "gone" => op = "delete"
      /\ op \in Ops
  BY <1>1, StepsAre DEF WayInv
<1>5. at \in GridSteps /\ at \notin HeaderSteps \cup LinesSteps \cup ReceiptSteps
  BY <1>2 DEF GridSteps, HeaderSteps, LinesSteps, ReceiptSteps
<1>6. UNCHANGED <<status, unset, rows, lines, uploaded, onReport, link>>
  <2>1. UNCHANGED <<status, unset, rows>>
    BY <1>2, <1>3, <1>5, GridAlone, HeaderAlone DEF Fields
  <2>2. UNCHANGED lines
    BY <1>2, <1>3, LinesAlone
  <2>3. UNCHANGED <<uploaded, onReport, link>>
    BY <1>2, <1>3, ReceiptsAlone
  <2> QED
    BY <2>1, <2>2, <2>3
<1>7. /\ GridAccept(op = "delete", AfterOpen)
      /\ UNCHANGED <<wanted, original, nth>>
  BY <1>5 DEF Accept, clientLines
<1>8. op \in {"edit", "new"} => HeaderDone'
  <2> SUFFICES ASSUME op \in {"edit", "new"} PROVE HeaderDone'
    OBVIOUS
  <2>1. ~HeaderLeft
    BY <1>2, <1>5 DEF HeaderLeft, OpenSteps
  <2>2. unset = {} /\ Settled
    BY <1>1, <2>1 DEF HeaderOn, HeaderSoFar
  <2>3. HeaderDone
    BY <1>1, <2>2, HeaderIsDone
  <2> QED
    BY <1>3, <1>6, <2>3 DEF HeaderDone, Saved
<1>9. op \in {"itemize", "new"} =>
        lines' = IF op = "itemize" THEN WithRows(original', Rows') ELSE WithLines(original', wanted')
  <2> SUFFICES ASSUME op \in {"itemize", "new"}
               PROVE  lines' = IF op = "itemize" THEN WithRows(original', Rows')
                               ELSE WithLines(original', wanted')
    OBVIOUS
  <2>1. lines = LinesNow
    BY <1>1 DEF LinesInv
  <2>2. at \notin OpenSteps
    BY <1>2 DEF OpenSteps
  <2>3. LinesNow = IF op = "itemize" THEN WithRows(original, Rows) ELSE WithLines(original, wanted)
    BY <1>5, <2>2 DEF LinesNow, Believed
  <2>4. Rows' = Rows
    BY <1>7 DEF Rows, Line
  <2> QED
    BY <1>6, <1>7, <2>1, <2>3, <2>4
<1>10. op = "submit" => status'[Target] = "Submitted"
  BY <1>2, <1>4, <1>6, <1>7 DEF GridAccept
<1>11. op = "delete" => status'[Target] = "gone"
  <2> SUFFICES ASSUME op = "delete" PROVE status'[Target] = "gone"
    OBVIOUS
  <2>1. Target \notin Remaining
    BY <1>2, <1>4, <1>7 DEF GridAccept
  <2> QED
    BY <1>6, <2>1, GridAssumption DEF Remaining
<1>12. op = "add" => uploaded' = count'
  BY <1>1, <1>2, <1>3, <1>4, <1>6 DEF ReceiptsOn, ReceiptsLeft
<1>13. op = "remove" => onReport' = first'.receipts \ Named
  <2> SUFFICES ASSUME op = "remove" PROVE onReport = first.receipts \ Named
    BY <1>3, <1>6
  <2>1. onReport \cap Named = {}
    BY <1>1, <1>2, <1>4 DEF ReceiptsOn, ReceiptsLeft
  <2>2. onReport \subseteq first.receipts /\ first.receipts \ onReport \subseteq Named
    BY <1>1 DEF ReceiptsInv, ReceiptsOK, RemovalOK
  <2> QED
    BY <2>1, <2>2
<1>14. op = "attach" => Twin' \/ \E r \in onReport' \cap Named : link'[r] = line'
  <2> SUFFICES ASSUME op = "attach", ~Twin
               PROVE  \E r \in onReport \cap Named : link[r] = line
    BY <1>3, <1>6 DEF Twin, Alike
  <2>1. \E r \in onReport \cap Named : LooksRight(link[r])
    BY <1>1, <1>2, <1>4 DEF ReceiptsOn, ReceiptsLeft
  <2> QED
    BY <2>1 DEF LooksRight, Twin
<1>15. op' \in Ops /\ op' = op
  BY <1>3, <1>4
<1> QED
  BY <1>8, <1>9, <1>10, <1>11, <1>12, <1>13, <1>14, <1>15 DEF Done, Ops

LEMMA PromiseStep ==
  ASSUME IInv, IInv', HonestFailure, HonestFailure', [Next]_vars
  PROVE  [Promise!Change \/ Promise!End]_(Promise!vars)
<1> USE DEF Promise!vars
<1>1. Sound /\ Sound' /\ Frame /\ Frame' /\ Going /\ WayInv
  BY DEF IInv, Sound
<1>2. effectBar \in Promise!Effects /\ effectBar' \in Promise!Effects
  BY EffectBars DEF effectBar, Promise!Effects
<1>3. /\ verdict' = "pending" => verdictBar' = "pending"
      /\ verdict' = "nil" => verdictBar' = IF (op = "attach" /\ Twin)' THEN "uncertain" ELSE "success"
      /\ verdict' = "uncertain" => verdictBar' = "uncertain"
      /\ verdict' = "failure" => verdictBar' = "failure"
  BY DEF verdictBar
<1>4. Done' /\ verdict' = "nil" => effectBar' = "complete"
  BY DEF effectBar
<1>5. verdict' = "failure" => effectBar' = "none"
  BY DEF HonestFailure, effectBar
<1>6. CASE Accept
  <2>1. verdict = "pending" /\ verdict' = IF at' = "done" THEN "nil" ELSE "pending"
    BY <1>6, AcceptLeads
  <2>2. CASE at' = "done"
    <3>1. (op = "attach" /\ Twin)' \/ Done'
      BY <1>1, <1>6, <2>2, EndsDone
    <3>2. verdictBar = "pending" /\ verdict' = "nil"
      BY <2>1, <2>2, VerdictBars
    <3>3. CASE (op = "attach" /\ Twin)'
      BY <1>2, <1>3, <3>2, <3>3 DEF Promise!End
    <3>4. CASE ~(op = "attach" /\ Twin)'
      BY <1>3, <1>4, <3>1, <3>2, <3>4 DEF Promise!End
    <3> QED
      BY <3>3, <3>4
  <2>3. CASE at' # "done"
    BY <1>2, <1>3, <2>1, <2>3, VerdictBars DEF Promise!Change
  <2> QED
    BY <2>2, <2>3
<1>7. CASE Reject \/ GiveUp \/ Abandon
  <2>1. verdict = "pending" /\ verdict' \in Unsent(at) /\ verdict' \in {"failure", "uncertain"}
    <3>1. CASE Reject \/ GiveUp
      BY <3>1, ErrorClasses DEF Reject, GiveUp, Waiting, Pending, End, Unsent
    <3>2. CASE Abandon
      BY <3>2, ErrorClasses DEF Abandon, Pending, End, Unsent
    <3> QED
      BY <1>7, <3>1, <3>2
  <2>2. CASE verdict' = "uncertain"
    BY <1>2, <1>3, <2>1, <2>2, VerdictBars DEF Promise!End
  <2>3. CASE verdict' = "failure"
    <3>1. Clean
      <4>1. CASE Reject \/ GiveUp
        BY <2>3, <4>1 DEF Reject, GiveUp, End, ErrorClass, Clean
      <4>2. CASE Abandon
        BY <2>1, <2>3, <4>2 DEF Abandon, Unsent, ErrorClass, Clean
      <4> QED
        BY <1>7, <4>1, <4>2
    <3>2. effectBar = "none"
      BY <1>1, <2>1, <3>1, CleanIs, EffectBars
    <3> QED
      BY <1>3, <1>5, <2>1, <2>3, <3>2, VerdictBars DEF Promise!End
  <2> QED
    BY <2>1, <2>2, <2>3
<1>8. CASE LateEffect
  <2>1. verdict \in {"failure", "uncertain"} /\ verdict' = verdict
    BY <1>1, <1>8 DEF LateEffect, Pending, WayInv, Verdicts
  <2>2. CASE verdict = "uncertain"
    BY <1>2, <1>3, <2>1, <2>2, VerdictBars DEF Promise!Change
  <2>3. CASE verdict = "failure"
    <3>1. effectBar = "none"
      BY <2>3, EffectBars DEF HonestFailure
    <3> QED
      BY <1>3, <1>5, <2>1, <2>3, <3>1, VerdictBars
  <2> QED
    BY <2>1, <2>2, <2>3
<1>9. CASE Post \/ UNCHANGED vars
  <2>1. UNCHANGED <<op, verdict, gridVars, headerVars, linesVars, receiptVars>>
    BY <1>9 DEF Post, Send, Pending, vars, exchangeVars
  <2>2. UNCHANGED <<status, unset, rows, header, before, lines, original, wanted, nth, uploaded,
                    count, line, onReport, link, first>>
    BY <2>1 DEF gridVars, headerVars, linesVars, receiptVars, dynamicsHeader, clientHeader,
       dynamicsLines, clientLines, dynamicsReceipts, clientReceipts
  <2>3. (Changed' <=> Changed) /\ (Done' <=> Done)
    <3>1. Saved' = Saved /\ Rows' = Rows
      BY <2>2 DEF Saved, Rows, Line
    <3>2. HeaderDone' <=> HeaderDone
      BY <2>2, <3>1 DEF HeaderDone
    <3>3. Changed' <=> Changed
      BY <2>1, <2>2, <3>1 DEF Changed
    <3>4. Done' <=> Done
      BY <2>1, <2>2, <3>1, <3>2 DEF Done
    <3> QED
      BY <3>3, <3>4
  <2>4. Twin' <=> Twin
    BY <2>2 DEF Twin, Alike
  <2> QED
    BY <2>1, <2>3, <2>4 DEF effectBar, verdictBar
<1> QED
  BY <1>6, <1>7, <1>8, <1>9 DEF Next, Stop

(* What the caller of any command is told is what happened, or will have   *)
(* happened, to the report: a success only when all of it is exactly as    *)
(* asked for (but for a receipt attached to a line that has a twin), a     *)
(* failure that leaves the session ready only when nothing was or will be  *)
(* changed, even by a request that is carried out late.                    *)
THEOREM CommandsKeepTheirPromise == Spec => KeepsPromise
<1>1. Init => Promise!Init
  <2> SUFFICES ASSUME Init PROVE Promise!Init
    OBVIOUS
  <2>1. verdict = "pending"
    BY DEF Init
  <2>2. ~Changed
    BY InitSame DEF Changed, NoneGone, NoneSubmitted, ReceiptsSame
  <2> QED
    BY <2>1, <2>2, VerdictBars, EffectBars DEF Promise!Init
<1>2. IInv /\ IInv' /\ HonestFailure /\ HonestFailure' /\ [Next]_vars
        => [Promise!Change \/ Promise!End]_(Promise!vars)
  BY PromiseStep
<1> QED
  BY <1>1, <1>2, FailureIsHonest, KeptThroughout, PTL DEF Spec, KeepsPromise, Promise!Spec

-----------------------------------------------------------------------------
(* Numbers.                                                                *)

\* What a row, and a line, takes: in requests (w = 1), or in messages
\* (w = 2), of which a subcategory takes two.
RowCost(row, w) == RowRequests(row) + w
LineCost(new, w) == LineRequestCount(new) + (IF w = 2 THEN Len(new.rows) ELSE 0)
RowCosts(items, w) == [i \in DOMAIN items |-> RowCost(items[i], w)]
LineCosts(list, w) == [i \in DOMAIN list |-> LineCost(list[i], w)]
First(costs, n) == Total(SubSeq(costs, 1, n))

\* Sent on lines before the step at hand, a row's last request being the one
\* for the next row, or that closes the sheet.
LineSent(w) == First(LineCosts(wanted, w), nth - 1)
Opening(w) == IF op = "itemize" THEN 4 ELSE LineSent(w) + Line.fields + 2
RowSent(w, n) == Opening(w) + First(RowCosts(Rows, w), n) + 2
LinesSent(w) ==
  CASE at = "newLine"     -> LineSent(w)
    [] at = "field"       -> LineSent(w) + field
    [] at = "saveLine"    -> LineSent(w) + Line.fields + 1
    [] at = "pickLine"    -> 3
    [] at = "lineMenu"    -> Opening(w)
    [] at = "sheet"       -> Opening(w) + 1
    [] at = "subcategory" -> RowSent(w, Len(sheet) - 1)
    [] at = "start"       -> RowSent(w, Len(sheet) - 1) + w
    [] at = "rate"        -> RowSent(w, Len(sheet) - 1) + w
                             + (IF Rows[Len(sheet)].dated THEN 1 ELSE 0)
    [] at = "quantity"    -> RowSent(w, Len(sheet) - 1) + w + 1
                             + (IF Rows[Len(sheet)].dated THEN 1 ELSE 0)
    [] at \in {"newRow", "closeSheet"} -> RowSent(w, Len(sheet)) - 1

\* Messages sent on the header, with c rows known of which k are right: at
\* most, for a row is not always selected first, nor does a deletion always
\* ask.
RowsUsed(c, k) ==
  IF c > k THEN 3 * (MaxApprovers - c) ELSE 3 * MaxApprovers + 4 * c
HeaderUsed(step, c, k, open) ==
  CASE step = "menu"      -> 0
    [] step = "edit"      -> 1
    [] step = "title"     -> 2
    [] step = "final"     -> 3
    [] step = "approvers" -> 5
    [] step = "row"       -> 6 + RowsUsed(c, k)
    [] step = "deleteRow" -> 7 + RowsUsed(c, k)
    [] step = "confirm"   -> 8 + RowsUsed(c, k)
    [] step = "new"       -> 7 + RowsUsed(c, k)
    [] step = "resolve"   -> 4 + 3 * MaxApprovers + 4 * c
    [] step = "okDialog"  -> 9 + 7 * MaxApprovers - open
    [] step = "okEdit"    -> 9 + 7 * MaxApprovers
\* Requests that the plan counts, which the repair of rows is not, of f fields
\* and n names.
RowsPlanned(c, k) == IF c > k THEN 0 ELSE 2 * c
HeaderPlanned(step, c, k, open, f, n) ==
  CASE step = "menu"      -> 0
    [] step = "edit"      -> 1
    [] step = "title"     -> 2
    [] step = "final"     -> 1 + f
    [] step = "approvers" -> 2 + f
    [] step \in {"row", "deleteRow", "confirm", "new"} -> 3 + f + RowsPlanned(c, k)
    [] step = "resolve"   -> 2 + f + 2 * c
    [] step = "okDialog"  -> 5 + f + 2 * n - open
    [] step = "okEdit"    -> 2 + f + (IF n = 0 THEN 0 ELSE 3 + 2 * n)
HeaderShare(w) ==
  IF op # "new" \/ ~HasHeader THEN 0
  ELSE IF w = 1 THEN HeaderRequestCount(header) ELSE HeaderHeadroom

\* What the operation has sent before its last request.
ToSave(w) ==
  CASE op = "edit"    -> 3 + HeaderHeadroom
    [] op = "itemize" -> 6 + First(RowCosts(Rows, w), Len(Rows))
    [] op = "add"     -> 4 + UploadHeadroom * count
    [] op = "remove"  -> 4 + 3 * count
    [] op = "attach"  -> 9
    [] op = "new"     -> HeaderShare(w) + First(LineCosts(wanted, w), Len(wanted))
    [] OTHER          -> 4
HeaderSent(w) ==
  IF w = 1
  THEN HeaderPlanned(at, Len(view), keep, dialogs, Cardinality(header.fields),
                     Len(header.names))
  ELSE (IF op = "edit" THEN 3 ELSE 0) + HeaderUsed(at, Len(view), keep, dialogs)
OtherSent(w) ==
  CASE at = "refresh"     -> 0
    [] at \in {"activate", "mark"} -> 1
    [] at \in {"link", "delete"}   -> 2
    [] at \in {"yes", "submit", "tab"} -> 3
    [] at \in {"gone", "resubmitted"}  -> 4
    [] at = "upload"      -> 4 + UploadHeadroom * uploaded
    [] at = "pickReceipt" -> 4 + 3 * removed
    [] at = "remove"      -> 5 + 3 * removed
    [] at = "yesRemove"   -> 6 + 3 * removed
    [] at = "popup"       -> 5
    [] at = "pickPopupLine" -> 6
    [] at = "attach"      -> 7
    [] at = "closePopup"  -> 8
    [] at = "save"        -> ToSave(w)
Sent(w) ==
  IF at \in HeaderSteps THEN HeaderSent(w)
  ELSE IF at \in LinesSteps THEN HeaderShare(w) + LinesSent(w)
  ELSE OtherSent(w)
\* The request of the step at hand.
Planned(step) == IF step \in HeaderSteps /\ Repair(step) THEN 0 ELSE 1
Weight(step, w) == IF w = 1 THEN Planned(step) ELSE Messages(step)
Asking(w) == IF posted = "none" THEN 0 ELSE Weight(at, w)

Counted == op = "delete" \/ (op = "new" /\ ~HasHeader)
NumbersInv ==
  /\ used <= Headroom
  /\ Pending => used <= Sent(2) + Asking(2)
  /\ op \in {"new", "delete"} /\ Pending => requests <= Sent(1) + Asking(1)
  /\ Counted /\ Pending => requests = Sent(1) + Asking(1)
  /\ PlanIsExact
\* What is left of the header to change was asked for.
FieldsLeft ==
  /\ unset \subseteq header.fields
  /\ at \in Fields => at \in header.fields
  /\ op = "new" => "title" \notin header.fields
  /\ op = "new" /\ ~HasHeader => at \notin HeaderSteps
\* Rounds of removals.
RoundsOK ==
  /\ op = "remove" /\ at \in OpenSteps \cup {"tab"} => removed = 0
  /\ op = "remove" /\ at \in {"pickReceipt", "remove", "yesRemove"} => removed < count
  /\ op = "attach" => removed = 0

(* What of the fields of a header a plan counts.                           *)
LEMMA FieldCounts ==
  ASSUME NEW set, set \subseteq Fields
  PROVE  /\ Cardinality(set) \in 0 .. 2 /\ IsFiniteSet(set)
         /\ "title" \notin set => Cardinality(set) <= 1
         /\ set # {} => Cardinality(set) >= 1
         /\ "title" \in set /\ "final" \in set => Cardinality(set) = 2
         /\ set = {} => Cardinality(set) = 0
<1>1. set \in {{}, {"title"}, {"final"}, {"title", "final"}}
  BY DEF Fields
<1>2. IsFiniteSet({}) /\ Cardinality({}) = 0
  BY FS_EmptySet
<1>3. \A x : IsFiniteSet({x}) /\ Cardinality({x}) = 1
  BY FS_Singleton
<1>4. IsFiniteSet({"title", "final"}) /\ Cardinality({"title", "final"}) = 2
  <2>1. {"title", "final"} = {"title"} \cup {"final"} /\ "final" \notin {"title"}
    OBVIOUS
  <2>2. IsFiniteSet({"title"}) /\ Cardinality({"title"}) = 1
    BY <1>3
  <2>3. IsFiniteSet({"title"} \cup {"final"})
        /\ Cardinality({"title"} \cup {"final"}) = Cardinality({"title"}) + 1
    BY <2>1, <2>2, FS_AddElement
  <2>4. Cardinality({"title", "final"}) = Cardinality({"title"}) + 1
    BY <2>1, <2>3
  <2> QED
    BY <2>1, <2>2, <2>3, <2>4
<1>5. CASE set = {}
  BY <1>2, <1>5
<1>6. CASE set = {"title"}
  <2>1. IsFiniteSet(set) /\ Cardinality(set) = 1
    BY <1>3, <1>6
  <2> QED
    BY <1>6, <2>1
<1>7. CASE set = {"final"}
  <2>1. IsFiniteSet(set) /\ Cardinality(set) = 1
    BY <1>3, <1>7
  <2>2. "title" \notin set /\ set # {}
    BY <1>7
  <2> QED
    BY <2>1, <2>2
<1>8. CASE set = {"title", "final"}
  <2>1. IsFiniteSet(set) /\ Cardinality(set) = 2
    BY <1>4, <1>8
  <2>2. "title" \in set /\ set # {}
    BY <1>8
  <2> QED
    BY <2>1, <2>2
<1> QED
  BY <1>1, <1>5, <1>6, <1>7, <1>8

(* The share of the header is a number.                                    *)
LEMMA ShareIs ==
  ASSUME HeaderTypeOK, NEW w \in {1, 2}
  PROVE  /\ HeaderShare(w) \in Nat /\ HeaderRequestCount(header) \in Nat
         /\ HeaderHeadroom \in Nat /\ Len(header.names) \in 0 .. MaxApprovers
<1>1. header.fields \subseteq Fields /\ header.names \in Seq(Approver)
      /\ Len(header.names) <= MaxApprovers
  BY DEF HeaderTypeOK, HeaderInput
<1>2. Cardinality(header.fields) \in 0 .. 2
  BY <1>1, FieldCounts
<1>3. Len(header.names) \in Nat
  BY <1>1
<1>4. MaxApprovers \in Nat
  BY HeaderAssumption
<1> QED
  BY <1>1, <1>2, <1>3, <1>4 DEF HeaderShare, HeaderRequestCount, HeaderHeadroom

(* A rise of every element by the same.                                    *)
LEMMA TotalRise ==
  ASSUME NEW f \in Seq(Nat), NEW g \in Seq(Nat), Len(f) = Len(g), NEW w \in {1, 2},
         \A i \in 1 .. Len(f) : g[i] = f[i] + w
  PROVE  Total(g) = Total(f) + (IF w = 1 THEN Len(f) ELSE 2 * Len(f))
<1> DEFINE n == Len(f)
           P(k) == Total(SubSeq(f, 1, k))
           Q(k) == Total(SubSeq(g, 1, k))
           T == {k \in Nat : k <= n => Q(k) = P(k) + (IF w = 1 THEN k ELSE 2 * k)}
<1>0. n \in Nat
  OBVIOUS
<1>1. /\ P(0) = 0 /\ P(n) = Total(f) /\ \A k \in 0 .. n : P(k) \in Nat
      /\ \A k \in 1 .. n : P(k) = P(k - 1) + f[k]
  BY Beginnings
<1>2. /\ Q(0) = 0 /\ Q(n) = Total(g)
      /\ \A k \in 1 .. n : Q(k) = Q(k - 1) + g[k]
  BY Beginnings
<1>3. \A k \in 1 .. n : f[k] \in Nat /\ g[k] = f[k] + w
  OBVIOUS
<1> HIDE DEF n, P, Q
<1>4. 0 \in T
  BY <1>1, <1>2
<1>5. ASSUME NEW k \in Nat, k \in T PROVE k + 1 \in T
  <2> SUFFICES ASSUME k + 1 <= n PROVE Q(k + 1) = P(k + 1) + (IF w = 1 THEN k + 1 ELSE 2 * (k + 1))
    OBVIOUS
  <2>1. k + 1 \in 1 .. n /\ k \in 0 .. n /\ (k + 1) - 1 = k
    BY <1>0
  <2>2. Q(k) = P(k) + (IF w = 1 THEN k ELSE 2 * k) /\ P(k) \in Nat
    BY <1>5, <2>1, <1>1
  <2>3. P(k + 1) = P(k) + f[k + 1] /\ f[k + 1] \in Nat
    BY <2>1, <1>1, <1>3
  <2>7. PICK p \in Nat, c \in Nat : p = P(k) /\ c = f[k + 1] /\ P(k + 1) = p + c
    BY <2>2, <2>3
  <2>4. Q(k + 1) = Q(k) + (f[k + 1] + w)
    BY <2>1, <1>2, <1>3
  <2>5. CASE w = 1
    <3>1. Q(k) = p + k /\ Q(k + 1) = Q(k) + (c + 1)
      BY <2>2, <2>4, <2>5, <2>7
    <3>2. Q(k + 1) = P(k + 1) + (k + 1)
      <4>1. Q(k + 1) = (p + k) + (c + 1)
        BY <3>1
      <4>2. P(k + 1) = p + c
        BY <2>7
      <4> QED
        BY <4>1, <4>2
    <3> QED
      BY <2>5, <3>2
  <2>6. CASE w = 2
    <3>1. Q(k) = p + 2 * k /\ Q(k + 1) = Q(k) + (c + 2)
      BY <2>2, <2>4, <2>6, <2>7
    <3>2. Q(k + 1) = P(k + 1) + 2 * (k + 1)
      <4>1. Q(k + 1) = (p + 2 * k) + (c + 2)
        BY <3>1
      <4>2. P(k + 1) = p + c
        BY <2>7
      <4> QED
        BY <4>1, <4>2
    <3> QED
      BY <2>6, <3>2
  <2> QED
    BY <2>5, <2>6
<1>6. n \in T
  <2>1. Nat \subseteq T
    BY <1>4, <1>5, SetInduction
  <2> QED
    BY <1>0, <2>1
<1> QED
  BY <1>0, <1>1, <1>2, <1>6 DEF n

(* The costs of rows.                                                      *)
LEMMA RowCostsAre ==
  ASSUME NEW items \in Seq(ItemRow), NEW w \in {1, 2}
  PROVE  /\ RowCosts(items, w) \in Seq(Nat) /\ Len(RowCosts(items, w)) = Len(items)
         /\ \A i \in 1 .. Len(items) :
              RowCosts(items, w)[i] = 3 + w + (IF items[i].dated THEN 1 ELSE 0)
<1> DEFINE c(i) == RowCost(items[i], w)
<1>1. \A i \in 1 .. Len(items) : c(i) = 3 + w + (IF items[i].dated THEN 1 ELSE 0)
  BY DEF RowCost, RowRequests
<1>2. \A i \in 1 .. Len(items) : c(i) \in Nat
  BY <1>1
<1>3. RowCosts(items, w) = [i \in 1 .. Len(items) |-> c(i)]
  BY DEF RowCosts
<1> HIDE DEF c
<1>4. RowCosts(items, w) \in [1 .. Len(items) -> Nat] /\ Len(items) \in Nat
  BY <1>2, <1>3
<1>5. RowCosts(items, w) \in Seq(Nat) /\ Len(RowCosts(items, w)) = Len(items)
  BY <1>4, SeqIntro
<1> QED
  BY <1>1, <1>3, <1>5

LEMMA RequestsAre ==
  ASSUME NEW items \in Seq(ItemRow)
  PROVE  /\ ItemizeRequests(items) \in Nat
         /\ \A w \in {1, 2} : items # <<>> =>
              2 + Total(RowCosts(items, w))
                = ItemizeRequests(items) + (IF w = 2 THEN Len(items) ELSE 0)
<1> DEFINE n == Len(items)
           c(i) == RowRequests(items[i])
           f == [i \in 1 .. n |-> c(i)]
<1>1. \A i \in 1 .. n : c(i) \in Nat /\ c(i) = 3 + (IF items[i].dated THEN 1 ELSE 0)
  BY DEF RowRequests
<1>2. n \in Nat /\ AllRowRequests(items) = Total(f)
  BY DEF AllRowRequests
<1> HIDE DEF c
<1>3. f \in [1 .. n -> Nat] /\ \A i \in 1 .. n : f[i] = c(i)
  BY <1>1
<1> HIDE DEF f, n
<1>4. f \in Seq(Nat) /\ Len(f) = n
  BY <1>2, <1>3, SeqIntro
<1>5. Total(f) \in Nat
  BY <1>4, TotalNat
<1>6. items # <<>> => n >= 1
  BY <1>2 DEF n
<1>7. ItemizeRequests(items) = IF items = <<>> THEN 0 ELSE 3 + (n - 1) + Total(f)
  BY <1>2 DEF ItemizeRequests, n
<1>8. ASSUME NEW w \in {1, 2}
      PROVE  Total(RowCosts(items, w)) = Total(f) + (IF w = 1 THEN n ELSE 2 * n)
  <2>1. /\ RowCosts(items, w) \in Seq(Nat) /\ Len(RowCosts(items, w)) = n
        /\ \A i \in 1 .. n :
             RowCosts(items, w)[i] = 3 + w + (IF items[i].dated THEN 1 ELSE 0)
    BY RowCostsAre DEF n
  <2>2. ASSUME NEW i \in 1 .. Len(f) PROVE RowCosts(items, w)[i] = f[i] + w
    <3>1. f[i] = 3 + (IF items[i].dated THEN 1 ELSE 0)
      BY <1>1, <1>3, <1>4
    <3>2. RowCosts(items, w)[i] = 3 + w + (IF items[i].dated THEN 1 ELSE 0)
      BY <1>4, <2>1
    <3>3. (IF items[i].dated THEN 1 ELSE 0) \in {0, 1} /\ w \in Nat
      OBVIOUS
    <3> QED
      BY <3>1, <3>2, <3>3
  <2> QED
    BY <1>4, <2>1, <2>2, TotalRise
<1> QED
  BY <1>2, <1>5, <1>6, <1>7, <1>8 DEF n

(* The costs of lines.                                                     *)
LEMMA LineCostIs ==
  ASSUME NEW new \in LineInput, NEW w \in {1, 2}
  PROVE  /\ LineCost(new, w) \in Nat /\ new.fields \in 3 .. 6
         /\ LineCost(new, w) = 2 + new.fields
              + (IF new.rows = <<>> THEN 0 ELSE 2 + Total(RowCosts(new.rows, w)))
<1>1. new.rows \in Seq(ItemRow) /\ new.fields \in 3 .. 6
  BY LineInputFields
<1>2. PICK items \in Seq(ItemRow) : items = new.rows
  BY <1>1
<1>3. /\ ItemizeRequests(items) \in Nat
      /\ items # <<>> => 2 + Total(RowCosts(items, w))
                           = ItemizeRequests(items) + (IF w = 2 THEN Len(items) ELSE 0)
  BY RequestsAre
<1>4. items = <<>> => ItemizeRequests(items) = 0 /\ Len(items) = 0
  BY DEF ItemizeRequests
<1>5. LineCost(new, w)
        = 2 + new.fields + ItemizeRequests(items) + (IF w = 2 THEN Len(items) ELSE 0)
  BY <1>2 DEF LineCost, LineRequestCount
<1>6. PICK r \in Nat, l \in Nat, f \in 3 .. 6 :
        r = ItemizeRequests(items) /\ l = Len(items) /\ f = new.fields
  BY <1>1, <1>3
<1>7. LineCost(new, w) = 2 + f + r + (IF w = 2 THEN l ELSE 0)
  BY <1>5, <1>6
<1>8. PICK b \in Nat : b = IF w = 2 THEN l ELSE 0
  OBVIOUS
<1>9. LineCost(new, w) \in Nat /\ LineCost(new, w) = 2 + f + (r + b)
  BY <1>7, <1>8
<1>10. CASE items = <<>>
  <2>1. r = 0 /\ b = 0
    BY <1>4, <1>6, <1>8, <1>10
  <2>2. LineCost(new, w) = 2 + f + 0
    BY <1>9, <2>1
  <2>3. (IF new.rows = <<>> THEN 0 ELSE 2 + Total(RowCosts(new.rows, w))) = 0
    BY <1>2, <1>10
  <2> QED
    BY <1>1, <1>6, <1>9, <2>2, <2>3
<1>11. CASE items # <<>>
  <2>1. 2 + Total(RowCosts(items, w)) = r + b
    BY <1>3, <1>6, <1>8, <1>11
  <2>2. LineCost(new, w) = 2 + f + (r + b)
    BY <1>9
  <2>3. (IF new.rows = <<>> THEN 0 ELSE 2 + Total(RowCosts(new.rows, w))) = r + b
    BY <1>2, <1>11, <2>1
  <2> QED
    BY <1>1, <1>6, <1>9, <2>2, <2>3
<1> QED
  BY <1>10, <1>11

LEMMA LineCostsAre ==
  ASSUME NEW list \in Seq(LineInput), NEW w \in {1, 2}
  PROVE  /\ LineCosts(list, w) \in Seq(Nat) /\ Len(LineCosts(list, w)) = Len(list)
         /\ \A i \in 1 .. Len(list) : LineCosts(list, w)[i] = LineCost(list[i], w)
<1> DEFINE c(i) == LineCost(list[i], w)
<1>1. \A i \in 1 .. Len(list) : c(i) \in Nat
  <2>1. \A i \in 1 .. Len(list) : list[i] \in LineInput
    OBVIOUS
  <2> QED
    BY <2>1, LineCostIs
<1>2. LineCosts(list, w) = [i \in 1 .. Len(list) |-> c(i)]
  BY DEF LineCosts
<1>3. \A i \in 1 .. Len(list) : c(i) = LineCost(list[i], w)
  OBVIOUS
<1> HIDE DEF c
<1>4. LineCosts(list, w) \in [1 .. Len(list) -> Nat] /\ Len(list) \in Nat
  BY <1>1, <1>2
<1>5. LineCosts(list, w) \in Seq(Nat) /\ Len(LineCosts(list, w)) = Len(list)
  BY <1>4, SeqIntro
<1> QED
  BY <1>2, <1>3, <1>5

(* The plan of the lines, and the numbers reserved for them.               *)
LEMMA LinesTotals ==
  ASSUME NEW list \in Seq(LineInput)
  PROVE  /\ LinesRequestCount(list) = Total(LineCosts(list, 1))
         /\ LinesHeadroom(list) = Total(LineCosts(list, 2))
<1>1. \A i \in 1 .. Len(list) : LineRequestCount(list[i]) \in Nat
  <2>1. \A new \in LineInput : new.rows \in Seq(ItemRow) /\ new.fields \in 3 .. 6
    BY LineInputFields
  <2>2. ASSUME NEW new \in LineInput PROVE LineRequestCount(new) \in Nat
    <3>1. new.rows \in Seq(ItemRow) /\ new.fields \in 3 .. 6
      BY <2>1
    <3>2. ItemizeRequests(new.rows) \in Nat
      BY <3>1, RequestsAre
    <3> QED
      BY <3>1, <3>2 DEF LineRequestCount
  <2>3. \A i \in 1 .. Len(list) : list[i] \in LineInput
    OBVIOUS
  <2> QED
    BY <2>2, <2>3
<1>2. LineCosts(list, 1) = [i \in DOMAIN list |-> LineRequestCount(list[i])]
  BY <1>1 DEF LineCosts, LineCost
<1>3. LineCosts(list, 2) = [i \in DOMAIN list |-> LineRequestCount(list[i]) + Len(list[i].rows)]
  BY DEF LineCosts, LineCost
<1> QED
  BY <1>2, <1>3 DEF LinesRequestCount, LinesHeadroom

(* Sums of the first.                                                      *)
LEMMA FirstRows ==
  ASSUME NEW items \in Seq(ItemRow), NEW w \in {1, 2}
  PROVE  /\ First(RowCosts(items, w), 0) = 0
         /\ First(RowCosts(items, w), Len(items)) = Total(RowCosts(items, w))
         /\ \A n \in 0 .. Len(items) : First(RowCosts(items, w), n) \in Nat
         /\ \A n \in 1 .. Len(items) :
              /\ First(RowCosts(items, w), n)
                   = First(RowCosts(items, w), n - 1) + 3 + w + (IF items[n].dated THEN 1 ELSE 0)
              /\ First(RowCosts(items, w), n) <= Total(RowCosts(items, w))
<1>1. /\ RowCosts(items, w) \in Seq(Nat) /\ Len(RowCosts(items, w)) = Len(items)
      /\ \A i \in 1 .. Len(items) :
           RowCosts(items, w)[i] = 3 + w + (IF items[i].dated THEN 1 ELSE 0)
  BY RowCostsAre
<1>2. PICK f \in Seq(Nat) : f = RowCosts(items, w)
  BY <1>1
<1>3. /\ First(f, 0) = 0 /\ First(f, Len(f)) = Total(f)
      /\ \A n \in 0 .. Len(f) : First(f, n) \in Nat
      /\ \A n \in 1 .. Len(f) : First(f, n) = First(f, n - 1) + f[n]
  BY Beginnings DEF First
<1>4. \A n \in 0 .. Len(f) : First(f, n) <= Total(f)
  BY BeginningLess DEF First
<1>5. \A n \in 1 .. Len(items) : /\ n \in 0 .. Len(items) /\ n - 1 \in 0 .. Len(items)
  OBVIOUS
<1>6. ASSUME NEW n \in 1 .. Len(items)
      PROVE  First(f, n) = First(f, n - 1) + 3 + w + (IF items[n].dated THEN 1 ELSE 0)
  <2>1. First(f, n) = First(f, n - 1) + f[n] /\ First(f, n - 1) \in Nat
    BY <1>1, <1>2, <1>3, <1>5
  <2>2. f[n] = 3 + w + (IF items[n].dated THEN 1 ELSE 0)
    BY <1>1, <1>2
  <2> QED
    BY <2>1, <2>2
<1> QED
  BY <1>1, <1>2, <1>3, <1>4, <1>5, <1>6

LEMMA FirstLines ==
  ASSUME NEW list \in Seq(LineInput), NEW w \in {1, 2}
  PROVE  /\ First(LineCosts(list, w), 0) = 0
         /\ First(LineCosts(list, w), Len(list)) = Total(LineCosts(list, w))
         /\ \A n \in 0 .. Len(list) : First(LineCosts(list, w), n) \in Nat
         /\ \A n \in 1 .. Len(list) :
              /\ First(LineCosts(list, w), n)
                   = First(LineCosts(list, w), n - 1) + LineCost(list[n], w)
              /\ First(LineCosts(list, w), n) <= Total(LineCosts(list, w))
<1>1. /\ LineCosts(list, w) \in Seq(Nat) /\ Len(LineCosts(list, w)) = Len(list)
      /\ \A i \in 1 .. Len(list) : LineCosts(list, w)[i] = LineCost(list[i], w)
  BY LineCostsAre
<1>2. PICK f \in Seq(Nat) : f = LineCosts(list, w)
  BY <1>1
<1>3. /\ First(f, 0) = 0 /\ First(f, Len(f)) = Total(f)
      /\ \A n \in 0 .. Len(f) : First(f, n) \in Nat
      /\ \A n \in 1 .. Len(f) : First(f, n) = First(f, n - 1) + f[n]
  BY Beginnings DEF First
<1>4. \A n \in 0 .. Len(f) : First(f, n) <= Total(f)
  BY BeginningLess DEF First
<1>5. \A n \in 1 .. Len(list) : n \in 0 .. Len(list)
  OBVIOUS
<1> QED
  BY <1>1, <1>2, <1>3, <1>4, <1>5

(* Every request on lines is counted, as one message or a subcategory's    *)
(* two.                                                                    *)
LEMMA LinesWeight ==
  ASSUME NEW step \in LinesSteps, NEW w \in {1, 2}
  PROVE  Weight(step, w) = IF step = "subcategory" THEN w ELSE 1
<1>1. step \notin HeaderSteps
  BY StepsApart
<1> QED
  BY <1>1 DEF Weight, Planned, Messages, LinesMessages

(* What the line and the rows at work take.                                *)
LEMMA WorkCosts ==
  ASSUME LinesTypeOK, nth \in 1 .. Len(wanted), NEW w \in {1, 2}
  PROVE  /\ Line.fields \in 3 .. 6 /\ Rows \in Seq(ItemRow)
         /\ LineSent(w) \in Nat
         /\ First(LineCosts(wanted, w), nth)
              = LineSent(w) + 2 + Line.fields
                + (IF Rows = <<>> THEN 0 ELSE 2 + Total(RowCosts(Rows, w)))
         /\ First(LineCosts(wanted, w), nth) <= Total(LineCosts(wanted, w))
         /\ First(LineCosts(wanted, w), Len(wanted)) = Total(LineCosts(wanted, w))
         /\ Total(LineCosts(wanted, w)) \in Nat
<1>1. wanted \in Seq(LineInput) /\ Line \in LineInput /\ Line = wanted[nth]
      /\ Rows \in Seq(ItemRow) /\ Rows = Line.rows
  BY AtWork DEF LinesTypeOK, Rows
<1>2. nth - 1 \in 0 .. Len(wanted) /\ Len(wanted) \in 0 .. Len(wanted)
  BY <1>1
<1>3. /\ First(LineCosts(wanted, w), Len(wanted)) = Total(LineCosts(wanted, w))
      /\ \A n \in 0 .. Len(wanted) : First(LineCosts(wanted, w), n) \in Nat
      /\ First(LineCosts(wanted, w), nth)
           = First(LineCosts(wanted, w), nth - 1) + LineCost(wanted[nth], w)
      /\ First(LineCosts(wanted, w), nth) <= Total(LineCosts(wanted, w))
  BY <1>1, FirstLines
<1>4. /\ LineCost(Line, w) \in Nat /\ Line.fields \in 3 .. 6
      /\ LineCost(Line, w) = 2 + Line.fields
           + (IF Line.rows = <<>> THEN 0 ELSE 2 + Total(RowCosts(Line.rows, w)))
  BY <1>1, LineCostIs
<1>5. LineSent(w) \in Nat /\ LineSent(w) = First(LineCosts(wanted, w), nth - 1)
  BY <1>2, <1>3 DEF LineSent
<1>6. Total(RowCosts(Rows, w)) \in Nat
  <2>1. Len(Rows) \in 0 .. Len(Rows)
    BY <1>1
  <2> QED
    BY <1>1, <2>1, FirstRows
<1>7. First(LineCosts(wanted, w), nth)
        = LineSent(w) + (2 + Line.fields
            + (IF Rows = <<>> THEN 0 ELSE 2 + Total(RowCosts(Rows, w))))
  BY <1>1, <1>3, <1>4, <1>5
<1>8. First(LineCosts(wanted, w), nth)
        = LineSent(w) + 2 + Line.fields
          + (IF Rows = <<>> THEN 0 ELSE 2 + Total(RowCosts(Rows, w)))
  <2>1. PICK c \in Nat : c = IF Rows = <<>> THEN 0 ELSE 2 + Total(RowCosts(Rows, w))
    BY <1>6
  <2>2. Line.fields \in Nat
    BY <1>4
  <2>3. First(LineCosts(wanted, w), nth) = LineSent(w) + (2 + Line.fields + c)
    BY <1>7, <2>1
  <2>4. First(LineCosts(wanted, w), nth) = LineSent(w) + 2 + Line.fields + c
    BY <1>5, <2>1, <2>2, <2>3
  <2> QED
    BY <2>1, <2>4
<1>9. Total(LineCosts(wanted, w)) \in Nat
  BY <1>2, <1>3
<1> QED
  BY <1>1, <1>3, <1>4, <1>5, <1>8, <1>9

(* The sums are of what does not change.                                   *)
LEMMA SumsStay ==
  ASSUME UNCHANGED <<wanted, op, nth>>, NEW w
  PROVE  /\ LineSent(w)' = LineSent(w) /\ Opening(w)' = Opening(w)
         /\ Line' = Line /\ Rows' = Rows
         /\ \A n : RowSent(w, n)' = RowSent(w, n)
<1>1. Line' = Line /\ Rows' = Rows
  BY DEF Line, Rows
<1>2. LineSent(w)' = LineSent(w)
  BY DEF LineSent
<1>3. Opening(w)' = Opening(w)
  BY <1>1, <1>2 DEF Opening
<1> QED
  BY <1>1, <1>2, <1>3 DEF RowSent

(* Rows on the sheet before and after a request.                           *)
LEMMA SheetGrows ==
  ASSUME LinesInv, LinesInv', Accept, at \in ItemSteps, at' \in SheetSteps
  PROVE  /\ Len(sheet') \in 1 .. Len(Rows)
         /\ at = "sheet" => Len(sheet') = 1
         /\ at = "newRow" => Len(sheet') = Len(sheet) + 1
         /\ at \in RowParts => Len(sheet') = Len(sheet)
<1>0. at \in LinesSteps
  BY DEF ItemSteps, SheetSteps, LinesSteps, RowParts
<1>1. /\ LinesTypeOK /\ LinesLive /\ LinesAccept("save")
      /\ UNCHANGED dynamicsLines \/ LinesCarry(at)
      /\ UNCHANGED <<op, wanted>>
  BY <1>0, AcceptedLines
<1>2. Pending
  BY DEF Accept, Waiting
<1>3. at' # "done" /\ UNCHANGED nth
  BY <1>1 DEF LinesAccept, NextLine, Proceed, ItemSteps, SheetSteps, RowParts
<1>4. LinesLive'
  <2>1. Pending'
    BY <1>1, <1>2, <1>3, LinesProceed DEF Proceed, Pending
  <2> QED
    BY <2>1 DEF LinesInv, Live
<1>5. Len(sheet') \in 1 .. Len(Rows)
  <2>1. Rows' = Rows
    BY <1>1, <1>3 DEF Rows, Line
  <2> QED
    BY <1>4, <2>1 DEF LinesLive, SheetOK
<1>6. sheet \in Seq(SUBSET RowParts)
  BY <1>1 DEF LinesTypeOK
<1>7. ASSUME at = "sheet" PROVE Len(sheet') = 1
  <2>1. dialog = "none"
    BY <1>1, <1>7 DEF LinesLive, SheetSteps, RowParts
  <2>2. dialog' = "sheet"
    BY <1>1, <1>7 DEF LinesAccept, RowParts
  <2>3. LinesCarry(at)
    BY <1>1, <2>1, <2>2 DEF dynamicsLines
  <2>4. sheet' = <<IF Rows[1].dated THEN {} ELSE {"start"}>>
    BY <1>0, <1>7, <2>3, LinesCarryIs
  <2> QED
    BY <2>4
<1>8. ASSUME at = "newRow" PROVE Len(sheet') = Len(sheet) + 1
  BY <1>1, <1>8 DEF LinesAccept, RowParts
<1>9. ASSUME at \in RowParts PROVE Len(sheet') = Len(sheet)
  <2>1. CASE UNCHANGED dynamicsLines
    BY <2>1 DEF dynamicsLines
  <2>2. CASE LinesCarry(at)
    <3>1. \E parts : sheet' = [sheet EXCEPT ![Len(sheet)] = parts]
      BY <1>0, <1>9, <2>2, LinesCarryIs DEF LastRow
    <3> QED
      BY <1>6, <3>1
  <2> QED
    BY <1>1, <2>1, <2>2
<1> QED
  BY <1>5, <1>7, <1>8, <1>9

(* A request on lines adds what it takes to what was sent.                 *)
LEMMA LinesSum ==
  ASSUME HeaderTypeOK, LinesInv, LinesInv', Accept, at \in LinesSteps, NEW w \in {1, 2}
  PROVE  at' # "done" /\ Sent(w)' = Sent(w) + Weight(at, w)
<1>1. /\ LinesTypeOK /\ LinePlaces /\ LinesLive /\ LinesAccept("save")
      /\ UNCHANGED <<op, wanted, sums, original>> /\ nth \in 1 .. Len(wanted)
      /\ op \in {"new", "itemize"}
  BY AcceptedLines
<1>2. UNCHANGED header /\ Pending
  BY StepsApart DEF Accept, clientHeader, Waiting
<1>3. HeaderShare(w)' = HeaderShare(w) /\ HeaderShare(w) \in Nat
  BY <1>1, <1>2, ShareIs DEF HeaderShare, HasHeader, HeaderRequestCount
<1>4. Sent(w) = HeaderShare(w) + LinesSent(w)
  <2>1. at \notin HeaderSteps
    BY StepsApart
  <2> QED
    BY <2>1 DEF Sent
<1>5. Weight(at, w) = IF at = "subcategory" THEN w ELSE 1
  BY LinesWeight
<1>6. /\ Line.fields \in 3 .. 6 /\ Rows \in Seq(ItemRow) /\ LineSent(w) \in Nat
      /\ First(LineCosts(wanted, w), nth)
           = LineSent(w) + 2 + Line.fields
             + (IF Rows = <<>> THEN 0 ELSE 2 + Total(RowCosts(Rows, w)))
  BY <1>1, WorkCosts
<1>7. /\ First(RowCosts(Rows, w), 0) = 0
      /\ First(RowCosts(Rows, w), Len(Rows)) = Total(RowCosts(Rows, w))
      /\ \A n \in 0 .. Len(Rows) : First(RowCosts(Rows, w), n) \in Nat
      /\ \A n \in 1 .. Len(Rows) :
           First(RowCosts(Rows, w), n)
             = First(RowCosts(Rows, w), n - 1) + 3 + w + (IF Rows[n].dated THEN 1 ELSE 0)
  BY <1>6, FirstRows
<1>6a. Line.fields \in 3 .. 6 /\ LineSent(w) \in Nat
  BY <1>6
<1>8. Opening(w) \in Nat
  BY <1>6a DEF Opening
<1>9. \A n \in 0 .. Len(Rows) : RowSent(w, n) \in Nat /\ RowSent(w, n) >= 2
  BY <1>7, <1>8 DEF RowSent
<1>10. /\ RowSent(w, 0) = Opening(w) + 2
       /\ RowSent(w, Len(Rows)) = Opening(w) + Total(RowCosts(Rows, w)) + 2
  BY <1>7, <1>8 DEF RowSent
<1>11. \A n \in 1 .. Len(Rows) :
         RowSent(w, n) = RowSent(w, n - 1) + 3 + w + (IF Rows[n].dated THEN 1 ELSE 0)
  <2> SUFFICES ASSUME NEW n \in 1 .. Len(Rows)
               PROVE  RowSent(w, n) = RowSent(w, n - 1) + 3 + w + (IF Rows[n].dated THEN 1 ELSE 0)
    OBVIOUS
  <2>1. n - 1 \in 0 .. Len(Rows)
    OBVIOUS
  <2>2. First(RowCosts(Rows, w), n - 1) \in Nat
    BY <1>7, <2>1
  <2>3. First(RowCosts(Rows, w), n)
          = First(RowCosts(Rows, w), n - 1) + 3 + w + (IF Rows[n].dated THEN 1 ELSE 0)
    BY <1>7
  <2>4. RowSent(w, n) = Opening(w) + First(RowCosts(Rows, w), n) + 2
    BY DEF RowSent
  <2>5. RowSent(w, n - 1) = Opening(w) + First(RowCosts(Rows, w), n - 1) + 2
    BY DEF RowSent
  <2>6. PICK more \in 0 .. 4 : more = w + (IF Rows[n].dated THEN 1 ELSE 0)
    OBVIOUS
  <2>7. PICK opening \in Nat : opening = Opening(w)
    BY <1>8
  <2>8. PICK past \in Nat : past = First(RowCosts(Rows, w), n - 1)
    BY <2>2
  <2>9. First(RowCosts(Rows, w), n) = past + 3 + more
    BY <2>3, <2>6, <2>8
  <2>10. RowSent(w, n) = opening + (past + 3 + more) + 2
    BY <2>4, <2>7, <2>9
  <2>11. RowSent(w, n - 1) = opening + past + 2
    BY <2>5, <2>7, <2>8
  <2>12. RowSent(w, n) = RowSent(w, n - 1) + 3 + more
    BY <2>10, <2>11
  <2> QED
    BY <2>6, <2>11, <2>12
\* Within the line.
<1>12. ASSUME UNCHANGED nth, at' \in LinesSteps,
              LinesSent(w)' = LinesSent(w) + (IF at = "subcategory" THEN w ELSE 1),
              LinesSent(w) \in Nat
       PROVE  at' # "done" /\ Sent(w)' = Sent(w) + Weight(at, w)
  <2>1. Sent(w)' = HeaderShare(w)' + LinesSent(w)'
    <3>1. at' \notin HeaderSteps
      BY <1>12, StepsApart
    <3> QED
      BY <1>12, <3>1 DEF Sent
  <2>2. at' # "done"
    BY <1>12 DEF LinesSteps
  <2> QED
    BY <1>3, <1>4, <1>5, <1>12, <2>1, <2>2
<1>13. UNCHANGED nth => /\ LineSent(w)' = LineSent(w) /\ Opening(w)' = Opening(w)
                        /\ Line' = Line /\ Rows' = Rows
                        /\ \A n : RowSent(w, n)' = RowSent(w, n)
  BY <1>1, SumsStay
\* To the next line, or to the end.
<1>14. ASSUME NextLine("save"), op = "new", LinesSent(w) \in Nat, at # "subcategory",
              First(LineCosts(wanted, w), nth) = LinesSent(w) + 1
       PROVE  at' # "done" /\ Sent(w)' = Sent(w) + Weight(at, w)
  <2>1. CASE nth < Len(wanted)
    <3>1. at' = "newLine" /\ nth' = nth + 1 /\ at' \in LinesSteps
      BY <1>14, <2>1 DEF NextLine, Proceed, LinesSteps
    <3>2. LineSent(w)' = First(LineCosts(wanted, w), nth)
      <4>1. nth' - 1 = nth
        BY <1>1, <3>1
      <4> QED
        BY <1>1, <4>1 DEF LineSent
    <3>3. LinesSent(w)' = LineSent(w)'
      BY <3>1 DEF LinesSent
    <3>4. Sent(w)' = HeaderShare(w)' + LinesSent(w)'
      BY <3>1, StepsApart DEF Sent
    <3> QED
      BY <1>3, <1>4, <1>5, <1>14, <3>1, <3>2, <3>3, <3>4
  <2>2. CASE ~(nth < Len(wanted))
    <3>1. at' = "save" /\ nth = Len(wanted)
      BY <1>1, <1>14, <2>2 DEF NextLine, Proceed
    <3>2. Sent(w)' = ToSave(w)'
      BY <3>1 DEF Sent, OtherSent, HeaderSteps, LinesSteps
    <3>3. op' = "new" /\ wanted' = wanted
      BY <1>1, <1>14
    <3>4. ToSave(w)' = HeaderShare(w)' + First(LineCosts(wanted, w), nth)
      BY <3>1, <3>3 DEF ToSave
    <3> QED
      BY <1>3, <1>4, <1>5, <1>14, <3>1, <3>2, <3>4
  <2> QED
    BY <2>1, <2>2
<1>15. CASE at = "newLine"
  <2>1. at' = "field" /\ field' = 1 /\ UNCHANGED nth /\ at' \in LinesSteps
    BY <1>1, <1>15 DEF LinesAccept, Proceed, RowParts, LinesSteps
  <2>2. LinesSent(w) = LineSent(w) /\ LinesSent(w)' = LineSent(w)' + field'
    BY <1>15, <2>1 DEF LinesSent
  <2> QED
    BY <1>6, <1>12, <1>13, <1>15, <2>1, <2>2
<1>16. CASE at = "field"
  <2>1. field \in Nat /\ LinesSent(w) = LineSent(w) + field
    BY <1>1, <1>16 DEF LinesSent, LinesTypeOK
  <2>2. UNCHANGED nth /\ \/ at' = "field" /\ field' = field + 1
                         \/ at' = "saveLine" /\ ~(field < Line.fields)
    BY <1>1, <1>16 DEF LinesAccept, Proceed, RowParts
  <2>3. at' \in LinesSteps /\ field \in 1 .. Line.fields
    BY <1>1, <1>16, <2>2 DEF LinesSteps, LinePlaces
  <2>4. LinesSent(w)' = IF at' = "field" THEN LineSent(w)' + field'
                        ELSE LineSent(w)' + Line.fields' + 1
    BY <2>2 DEF LinesSent
  <2>5. LineSent(w)' = LineSent(w) /\ Line' = Line
    BY <1>13, <2>2
  <2>6. LinesSent(w)' = LinesSent(w) + 1 /\ LinesSent(w) \in Nat
    BY <1>6a, <2>1, <2>2, <2>3, <2>4, <2>5
  <2> QED
    BY <1>12, <1>16, <2>2, <2>3, <2>6
<1>17. CASE at = "saveLine"
  <2>1. LinesSent(w) = LineSent(w) + Line.fields + 1
    BY <1>17 DEF LinesSent
  <2>2. op = "new"
    BY <1>1, <1>17 DEF LinePlaces, LineSteps
  <2>3. CASE HasRows
    <3>1. at' = "lineMenu" /\ UNCHANGED nth /\ at' \in LinesSteps
      BY <1>1, <1>17, <2>3 DEF LinesAccept, Proceed, RowParts, LinesSteps
    <3>2. LinesSent(w)' = Opening(w)' /\ Opening(w) = LineSent(w) + Line.fields + 2
      BY <2>2, <3>1 DEF LinesSent, Opening
    <3>3. Opening(w)' = Opening(w)
      BY <1>13, <3>1
    <3>4. LinesSent(w)' = LinesSent(w) + 1 /\ LinesSent(w) \in Nat
      BY <1>6a, <2>1, <3>2, <3>3
    <3> QED
      BY <1>12, <1>17, <3>1, <3>4
  <2>4. CASE ~HasRows
    <3>1. NextLine("save")
      BY <1>1, <1>17, <2>4 DEF LinesAccept, RowParts
    <3>2. First(LineCosts(wanted, w), nth) = LinesSent(w) + 1
      BY <1>6, <2>1, <2>4 DEF HasRows
    <3> QED
      BY <1>6, <1>14, <1>17, <2>1, <2>2, <3>1, <3>2
  <2> QED
    BY <2>3, <2>4
<1>18. CASE at = "pickLine"
  <2>1. at' = "lineMenu" /\ UNCHANGED nth /\ at' \in LinesSteps
    BY <1>1, <1>18 DEF LinesAccept, Proceed, RowParts, LinesSteps
  <2>2. op = "itemize"
    BY <1>1, <1>18 DEF LinePlaces
  <2>3. LinesSent(w) = 3 /\ LinesSent(w)' = Opening(w)' /\ Opening(w) = 4
    BY <1>18, <2>1, <2>2 DEF LinesSent, Opening
  <2> QED
    BY <1>12, <1>13, <1>18, <2>1, <2>3
<1>19. CASE at = "lineMenu"
  <2>1. at' = "sheet" /\ UNCHANGED nth /\ at' \in LinesSteps
    BY <1>1, <1>19 DEF LinesAccept, Proceed, RowParts, LinesSteps
  <2>2. LinesSent(w) = Opening(w) /\ LinesSent(w)' = Opening(w)' + 1
    BY <1>19, <2>1 DEF LinesSent
  <2> QED
    BY <1>8, <1>12, <1>13, <1>19, <2>1, <2>2
<1>20. CASE at \in {"sheet", "newRow"}
  <2>1. at' = "subcategory" /\ UNCHANGED nth /\ at' \in LinesSteps /\ at' \in SheetSteps
    BY <1>1, <1>20 DEF LinesAccept, Proceed, RowParts, LinesSteps, SheetSteps
  <2>2. at \in ItemSteps
    BY <1>20 DEF ItemSteps, SheetSteps
  <2>3. /\ Len(sheet') \in 1 .. Len(Rows)
        /\ at = "sheet" => Len(sheet') = 1
        /\ at = "newRow" => Len(sheet') = Len(sheet) + 1
    BY <2>1, <2>2, SheetGrows
  <2>4. PICK m \in 1 .. Len(Rows) : m = Len(sheet')
    BY <2>3
  <2>5. LinesSent(w)' = RowSent(w, m - 1)
    <3>1. LinesSent(w)' = RowSent(w, m - 1)'
      BY <2>1, <2>4 DEF LinesSent
    <3> QED
      BY <1>13, <2>1, <3>1
  <2>6. CASE at = "sheet"
    <3>1. LinesSent(w) = Opening(w) + 1
      BY <2>6 DEF LinesSent
    <3>2. m = 1 /\ m - 1 = 0
      BY <2>3, <2>4, <2>6
    <3>3. LinesSent(w)' = RowSent(w, 0)
      BY <2>5, <3>2
    <3> QED
      BY <1>8, <1>10, <1>12, <2>1, <2>6, <3>1, <3>3
  <2>7. CASE at = "newRow"
    <3>1. LinesSent(w) = RowSent(w, Len(sheet)) - 1
      BY <2>7 DEF LinesSent
    <3>2. Len(sheet) = m - 1 /\ m - 1 \in 0 .. Len(Rows)
      <4>1. sheet \in Seq(SUBSET RowParts)
        BY <1>1 DEF LinesTypeOK
      <4> QED
        BY <2>3, <2>4, <2>7, <4>1
    <3>3. RowSent(w, m - 1) \in Nat /\ LinesSent(w) = RowSent(w, m - 1) - 1
          /\ RowSent(w, m - 1) >= 2
      BY <1>9, <3>1, <3>2
    <3> QED
      BY <1>12, <2>1, <2>5, <2>7, <3>3
  <2> QED
    BY <1>20, <2>6, <2>7
<1>21. CASE at \in RowParts
  <2>1. /\ at = "subcategory" => at' = AfterSubcategory
        /\ at = "start" => at' = "rate"
        /\ at = "rate" => at' = "quantity"
        /\ at = "quantity" => at' = AfterRow
        /\ UNCHANGED nth
    BY <1>1, <1>21 DEF LinesAccept, Proceed, RowParts
  <2>2. /\ at' \in LinesSteps /\ at' \in SheetSteps
        /\ at = "subcategory" => at' = IF Rows[Len(sheet)].dated THEN "start" ELSE "rate"
        /\ at = "quantity" => at' \in {"newRow", "closeSheet"}
    BY <1>21, <2>1 DEF AfterSubcategory, AfterRow, LinesSteps, SheetSteps, RowParts
  <2>3. at \in ItemSteps /\ at \in SheetSteps
    BY <1>21 DEF ItemSteps, SheetSteps
  <2>4. PICK n \in 1 .. Len(Rows) : n = Len(sheet)
    BY <1>1, <2>3 DEF LinesLive, SheetOK
  <2>5. Len(sheet') = n
    BY <1>21, <2>2, <2>3, <2>4, SheetGrows
  <2>6. n - 1 \in 0 .. Len(Rows) /\ n \in 0 .. Len(Rows)
    OBVIOUS
  <2>7. /\ at = "start" => Rows[n].dated
        /\ RowSent(w, n - 1) \in Nat
        /\ RowSent(w, n) = RowSent(w, n - 1) + 3 + w + (IF Rows[n].dated THEN 1 ELSE 0)
    BY <1>1, <1>9, <1>11, <2>4, <2>6 DEF LinesLive, SheetOK
  <2>8. LinesSent(w) = RowSent(w, n - 1)
          + (CASE at = "subcategory" -> 0
               [] at = "start" -> w
               [] at = "rate" -> w + (IF Rows[n].dated THEN 1 ELSE 0)
               [] at = "quantity" -> w + 1 + (IF Rows[n].dated THEN 1 ELSE 0))
    BY <1>21, <2>4, <2>7 DEF LinesSent, RowParts
  <2>9. LinesSent(w)' =
          IF at' \in {"newRow", "closeSheet"} THEN RowSent(w, n)' - 1
          ELSE RowSent(w, n - 1)'
               + (CASE at' = "start" -> w
                    [] at' = "rate" -> w + (IF Rows'[n].dated THEN 1 ELSE 0)
                    [] at' = "quantity" -> w + 1 + (IF Rows'[n].dated THEN 1 ELSE 0))
    <3>1. at' \in {"start", "rate", "quantity", "newRow", "closeSheet"}
      BY <1>21, <2>1, <2>2 DEF RowParts
    <3>2. RowSent(w, n - 1)' \in Nat
      BY <1>13, <2>1, <2>7
    <3> QED
      BY <2>5, <3>1, <3>2 DEF LinesSent
  <2>10. RowSent(w, n)' = RowSent(w, n) /\ RowSent(w, n - 1)' = RowSent(w, n - 1)
         /\ Rows' = Rows
    BY <1>13, <2>1
  <2>11. LinesSent(w)' = LinesSent(w) + (IF at = "subcategory" THEN w ELSE 1)
    <3>1. PICK d \in {0, 1} : d = IF Rows[n].dated THEN 1 ELSE 0
      OBVIOUS
    <3>2. CASE at = "subcategory"
      BY <2>1, <2>2, <2>4, <2>7, <2>8, <2>9, <2>10, <3>2
    <3>3. CASE at = "start"
      BY <2>1, <2>2, <2>7, <2>8, <2>9, <2>10, <3>3
    <3>4. CASE at = "rate"
      <4>1. LinesSent(w) = RowSent(w, n - 1) + (w + d)
        BY <2>8, <3>1, <3>4
      <4>2. LinesSent(w)' = RowSent(w, n - 1) + (w + 1 + d)
        BY <2>1, <2>9, <2>10, <3>1, <3>4
      <4> QED
        BY <2>7, <3>4, <4>1, <4>2
    <3>5. CASE at = "quantity"
      <4>1. LinesSent(w) = RowSent(w, n - 1) + (w + 1 + d)
        BY <2>8, <3>1, <3>5
      <4>2. LinesSent(w)' = RowSent(w, n) - 1 /\ RowSent(w, n) = RowSent(w, n - 1) + 3 + w + d
        BY <2>2, <2>7, <2>9, <2>10, <3>1, <3>5
      <4> QED
        BY <2>7, <3>5, <4>1, <4>2
    <3> QED
      BY <1>21, <3>2, <3>3, <3>4, <3>5 DEF RowParts
  <2>12. LinesSent(w) \in Nat
    <3>1. PICK r \in Nat : r = RowSent(w, n - 1)
      BY <2>7
    <3>2. PICK d \in {0, 1} : d = IF Rows[n].dated THEN 1 ELSE 0
      OBVIOUS
    <3>3. LinesSent(w) \in {r, r + w, r + (w + d), r + (w + 1 + d)}
      BY <1>21, <2>8, <3>1, <3>2 DEF RowParts
    <3> QED
      BY <3>1, <3>2, <3>3
  <2> QED
    BY <1>12, <2>1, <2>2, <2>11, <2>12
<1>22. CASE at = "closeSheet"
  <2>1. NextLine("save")
    BY <1>1, <1>22 DEF LinesAccept, RowParts
  <2>2. Len(sheet) = Len(Rows) /\ Rows # <<>> /\ Len(Rows) \in 0 .. Len(Rows)
    BY <1>1, <1>6, <1>22 DEF LinesLive, SheetOK, LinePlaces, ItemSteps, SheetSteps
  <2>3. LinesSent(w) = RowSent(w, Len(Rows)) - 1
    BY <1>22, <2>2 DEF LinesSent
  <2>4. LinesSent(w) \in Nat
    BY <1>9, <2>2, <2>3
  <2>5. CASE op = "new"
    <3>1. Opening(w) = LineSent(w) + Line.fields + 2
      BY <2>5 DEF Opening
    <3>2. First(LineCosts(wanted, w), nth) = RowSent(w, Len(Rows))
      <4>1. First(LineCosts(wanted, w), nth)
              = LineSent(w) + 2 + Line.fields + (2 + Total(RowCosts(Rows, w)))
        BY <1>6, <2>2
      <4>2. Total(RowCosts(Rows, w)) \in Nat
        BY <1>7, <2>2
      <4>3. PICK t \in Nat : t = Total(RowCosts(Rows, w))
        BY <4>2
      <4>4. PICK l \in Nat : l = LineSent(w)
        BY <1>6
      <4>5. RowSent(w, Len(Rows)) = (l + Line.fields + 2) + t + 2
        BY <1>10, <3>1, <4>3, <4>4
      <4>6. First(LineCosts(wanted, w), nth) = l + 2 + Line.fields + (2 + t)
        BY <4>1, <4>3, <4>4
      <4>7. PICK f \in Nat : f = Line.fields
        BY <1>6a
      <4>8. (l + f + 2) + t + 2 = l + 2 + f + (2 + t)
        BY <4>3, <4>4
      <4> QED
        BY <4>5, <4>6, <4>7, <4>8
    <3>3. First(LineCosts(wanted, w), nth) = LinesSent(w) + 1
      BY <1>9, <2>2, <2>3, <3>2
    <3> QED
      BY <1>14, <1>22, <2>1, <2>4, <2>5, <3>3
  <2>6. CASE op = "itemize"
    <3>1. nth = Len(wanted)
      BY <1>1, <2>6 DEF LinePlaces
    <3>2. at' = "save" /\ UNCHANGED nth
      BY <1>1, <2>1, <3>1 DEF NextLine, Proceed
    <3>3. Sent(w)' = ToSave(w)'
      BY <3>2 DEF Sent, OtherSent, HeaderSteps, LinesSteps
    <3>4. op' = "itemize" /\ Rows' = Rows
      BY <1>1, <1>13, <2>6, <3>2
    <3>5. ToSave(w)' = 6 + First(RowCosts(Rows, w), Len(Rows))
      BY <3>4 DEF ToSave
    <3>6. HeaderShare(w) = 0 /\ Opening(w) = 4
      BY <2>6 DEF HeaderShare, Opening
    <3>7. RowSent(w, Len(Rows)) = 6 + First(RowCosts(Rows, w), Len(Rows))
      BY <1>7, <1>10, <2>2, <3>6
    <3>8. Weight(at, w) = 1
      BY <1>5, <1>22
    <3> QED
      BY <1>4, <1>9, <2>2, <2>3, <3>2, <3>3, <3>5, <3>6, <3>7, <3>8
  <2> QED
    BY <1>1, <2>5, <2>6
<1> QED
  BY <1>15, <1>16, <1>17, <1>18, <1>19, <1>20, <1>21, <1>22 DEF LinesSteps, RowParts

-----------------------------------------------------------------------------
(* The header's numbers.                                                   *)

\* How an accepted answer about the approvers changes the step (s to t), the
\* number of rows known (c to d) and of those that are right (k to l).
RowMove(s, t, c, k, d, l, n) ==
  /\ t \in Dialog \cup {"okDialog"}
  /\ t \in {"deleteRow", "confirm"} => d > l
  /\ t = "new" => d = l
  /\ t = "resolve" => d >= 1
  /\ t = "okDialog" => d = n
  /\ \/ s = "approvers" /\ t # "confirm"
     \/ s = "row" /\ c > 0 /\ d = c /\ l = k /\ t \notin {"row", "resolve", "confirm"}
     \/ s = "row" /\ c = 0 /\ t = "resolve"
     \/ s = "deleteRow" /\ t = "confirm" /\ d = c /\ l = k
     \/ s \in {"deleteRow", "confirm"} /\ t # "confirm" /\ c > k /\ d = c - 1 /\ l = k
     \/ s = "new" /\ t = "resolve" /\ k = c /\ d = c + 1
     \/ s = "resolve" /\ c >= 1 /\ d = c /\ l = d /\ t \notin {"resolve", "confirm"}

LEMMA UsedGrows ==
  ASSUME NEW s, NEW t, NEW c \in 0 .. MaxApprovers, NEW k \in Nat,
         NEW d \in 0 .. MaxApprovers, NEW l \in Nat, NEW n \in 1 .. MaxApprovers,
         NEW open, NEW later \in 1 .. 2, RowMove(s, t, c, k, d, l, n),
         NEW m \in 1 .. 2, m = 2 => s = "resolve"
  PROVE  HeaderUsed(t, d, l, later) >= HeaderUsed(s, c, k, open) + m
<1>0. MaxApprovers \in Nat
  BY HeaderAssumption
<1> USE <1>0 DEF RowMove, HeaderUsed, RowsUsed, Dialog
<1>1. CASE s = "approvers"
  BY <1>1
<1>2. CASE s = "row"
  BY <1>2
<1>3. CASE s = "deleteRow"
  BY <1>3
<1>4. CASE s = "confirm"
  BY <1>4
<1>5. CASE s = "new"
  BY <1>5
<1>6. CASE s = "resolve"
  BY <1>6
<1> QED
  BY <1>1, <1>2, <1>3, <1>4, <1>5, <1>6

LEMMA PlannedGrows ==
  ASSUME NEW s, NEW t, NEW c \in 0 .. MaxApprovers, NEW k \in Nat,
         NEW d \in 0 .. MaxApprovers, NEW l \in Nat, NEW n \in 1 .. MaxApprovers,
         NEW open, NEW later \in 1 .. 2, RowMove(s, t, c, k, d, l, n), NEW f \in Nat
  PROVE  HeaderPlanned(t, d, l, later, f, n)
           >= HeaderPlanned(s, c, k, open, f, n) + (IF Repair(s) THEN 0 ELSE 1)
<1>0. MaxApprovers \in Nat
  BY HeaderAssumption
<1> USE <1>0 DEF RowMove, HeaderPlanned, RowsPlanned, Dialog, Repair
<1>1. CASE s = "approvers"
  BY <1>1
<1>2. CASE s = "row"
  BY <1>2
<1>3. CASE s = "deleteRow"
  BY <1>3
<1>4. CASE s = "confirm"
  BY <1>4
<1>5. CASE s = "new"
  BY <1>5
<1>6. CASE s = "resolve"
  BY <1>6
<1> QED
  BY <1>1, <1>2, <1>3, <1>4, <1>5, <1>6

(* What the client knows when it goes on in the dialog.                    *)
LEMMA RowsKnown ==
  ASSUME HeaderInv', Live', HeaderTypeOK', at' \in Dialog
  PROVE  /\ at' \in {"deleteRow", "confirm"} => Len(view') > keep'
         /\ at' = "new" => Len(view') = keep'
         /\ at' = "resolve" => Len(view') >= 1
<1>1. DialogOK' /\ view' \in Seq(Row) /\ keep' \in Nat
  <2>1. DialogOK'
    BY DEF HeaderInv, LiveOK
  <2>2. view' \in Seq(Row) /\ keep' \in Nat
    BY DEF HeaderTypeOK
  <2> QED
    BY <2>1, <2>2
<1>2. CASE at' \in {"deleteRow", "confirm"}
  <2>1. keep' = Matching' /\ Len(view') \in (Matching' + 1) .. Len(before')
    BY <1>1, <1>2 DEF DialogOK, DeletingOK, Deleting
  <2> QED
    BY <1>1, <1>2, <2>1
<1>3. CASE at' = "new"
  BY <1>1, <1>3 DEF DialogOK, AddingOK, Adding
<1>4. CASE at' = "resolve"
  <2>1. view' # <<>>
    BY <1>1, <1>4 DEF DialogOK, Resolving
  <2> QED
    BY <1>1, <1>4, <2>1
<1> QED
  BY <1>2, <1>3, <1>4

LEMMA RowsMove ==
  ASSUME Sound, Sound', Accept, at \in Dialog \cup {"approvers"}
  PROVE  /\ Len(view) \in 0 .. MaxApprovers /\ keep \in Nat
         /\ Len(view') \in 0 .. MaxApprovers /\ keep' \in Nat
         /\ Len(header.names) \in 1 .. MaxApprovers /\ dialogs' \in 1 .. 2
         /\ UNCHANGED <<op, header>>
         /\ RowMove(at, at', Len(view), keep, Len(view'), keep', Len(header.names))
<1>0. at \in HeaderSteps /\ WayInv /\ HeaderInv /\ HeaderOn /\ HeaderInv' /\ HeaderOn'
  BY DEF Sound, HeaderSteps, Dialog
<1>1. /\ HeaderTypeOK /\ Live /\ CarryOut(at) /\ UNCHANGED <<op, header, before>>
      /\ HeaderAccept(AfterHeader) /\ dialogs' \in 0 .. 2 /\ rows' \in Seq(Row)
      /\ header.names # <<>> => Len(header.names) \in 1 .. MaxApprovers
  BY <1>0, HeaderGoesOn
<1>2. HeaderTypeOK'
  BY <1>0 DEF HeaderOn
<1>3. /\ view \in Seq(Row) /\ Len(view) \in 0 .. MaxApprovers /\ keep \in Nat
      /\ view' \in Seq(Row) /\ Len(view') \in 0 .. MaxApprovers /\ keep' \in Nat
  BY <1>1, <1>2, HeaderAssumption DEF HeaderTypeOK
<1>4. header.names # <<>>
  BY <1>0 DEF HeaderInv, Places
<1>5. dialogs' \in 1 .. 2
  <2>1. CASE at = "approvers"
    BY <1>1, <2>1 DEF HeaderAccept
  <2>2. CASE at \in Dialog
    BY <1>0, <1>1, <2>2, HeaderThere
  <2> QED
    BY <2>1, <2>2
<1>6. /\ at' \in Dialog \cup {"okDialog"} /\ (at' = "confirm" => at = "deleteRow")
  <2>1. CASE at = "approvers"
    <3>1. Opened
      BY <1>1, <2>1 DEF HeaderAccept
    <3> QED
      BY <1>0, <1>1, <2>1, <3>1, AcceptApprovers
  <2>2. CASE at = "row"
    <3>1. /\ current' = Selected /\ view' = (IF view = <<>> THEN rows' ELSE view)
          /\ UNCHANGED keep /\ IF view = <<>> THEN Proceed("resolve") ELSE ToNextRow
      BY <1>1, <2>2 DEF HeaderAccept
    <3> QED
      BY <1>0, <1>1, <2>2, <3>1, AcceptRow
  <2>3. CASE at \in {"deleteRow", "confirm"} /\ LastDeleted /\ view' = rows' /\ UNCHANGED keep /\ ToNextRow
    BY <1>0, <1>1, <2>3, AcceptDeletion
  <2>4. CASE at = "deleteRow" /\ at' = "confirm"
    BY <2>4 DEF Dialog
  <2>5. CASE at = "new"
    BY <1>0, <1>1, <2>5, AcceptNew DEF Dialog
  <2>6. CASE at = "resolve"
    BY <1>0, <1>1, <2>6, AcceptResolve
  <2>7. at \in {"deleteRow", "confirm"} =>
          \/ LastDeleted /\ view' = rows' /\ UNCHANGED keep /\ ToNextRow
          \/ at = "deleteRow" /\ at' = "confirm"
    BY <1>1 DEF HeaderAccept, Proceed
  <2> QED
    BY <2>1, <2>2, <2>3, <2>4, <2>5, <2>6, <2>7 DEF Dialog
<1>7. at' \in Dialog =>
        /\ at' \in {"deleteRow", "confirm"} => Len(view') > keep'
        /\ at' = "new" => Len(view') = keep'
        /\ at' = "resolve" => Len(view') >= 1
  <2>2. at' \in Dialog => Live'
    BY <1>1, AcceptLeads DEF Live, Pending, Dialog
  <2> QED
    BY <1>0, <1>2, <2>2, RowsKnown
\* What NextRow says of the rows.
<1>8. ToNextRow => /\ at' = "okDialog" => Len(view') = Len(header.names)
                   /\ at' = "resolve" => view' = <<>>
                   /\ view' # <<>> /\ current' = view'[Len(view')].id => at' # "row"
                   /\ at' # "confirm"
  BY DEF ToNextRow, Proceed, NextRow, AtLast
<1>9. at' = "okDialog" => Len(view') = Len(header.names)
  <2>1. at' = "okDialog" => ToNextRow
    BY <1>1 DEF HeaderAccept, Opened, Proceed, Dialog
  <2> QED
    BY <1>8, <2>1
<1>10. \/ at = "approvers" /\ at' # "confirm"
       \/ /\ at = "row" /\ Len(view) > 0 /\ Len(view') = Len(view) /\ keep' = keep
          /\ at' \notin {"row", "resolve", "confirm"}
       \/ at = "row" /\ Len(view) = 0 /\ at' = "resolve"
       \/ at = "deleteRow" /\ at' = "confirm" /\ Len(view') = Len(view) /\ keep' = keep
       \/ /\ at \in {"deleteRow", "confirm"} /\ at' # "confirm" /\ Len(view) > keep
          /\ Len(view') = Len(view) - 1 /\ keep' = keep
       \/ at = "new" /\ at' = "resolve" /\ keep = Len(view) /\ Len(view') = Len(view) + 1
       \/ /\ at = "resolve" /\ Len(view) >= 1 /\ Len(view') = Len(view)
          /\ keep' = Len(view') /\ at' \notin {"resolve", "confirm"}
  <2>1. CASE at = "approvers"
    BY <1>6, <2>1
  <2>2. CASE at = "row"
    <3>1. /\ current' = Selected /\ view' = (IF view = <<>> THEN rows' ELSE view)
          /\ UNCHANGED keep /\ IF view = <<>> THEN Proceed("resolve") ELSE ToNextRow
      BY <1>1, <2>2 DEF HeaderAccept
    <3>2. CASE view = <<>>
      BY <2>2, <3>1, <3>2 DEF Proceed
    <3>3. CASE view # <<>>
      <4>1. view' = view /\ current' = view'[Len(view')].id /\ ToNextRow
        BY <3>1, <3>3 DEF Selected
      <4>2. at' \notin {"row", "resolve", "confirm"}
        BY <1>8, <3>3, <4>1
      <4>3. Len(view) > 0
        BY <1>3, <3>3
      <4> QED
        BY <2>2, <3>1, <4>1, <4>2, <4>3
    <3> QED
      BY <3>2, <3>3
  <2>3. CASE at \in {"deleteRow", "confirm"}
    <3>1. Len(view) > keep /\ view # <<>>
      <4>1. DeletingOK /\ AtEnd
        BY <1>0, <1>1, <2>3 DEF HeaderInv, LiveOK, DialogOK
      <4>2. keep = Matching /\ Len(view) \in (Matching + 1) .. Len(before)
        BY <4>1 DEF DeletingOK, Deleting
      <4> QED
        BY <1>3, <4>1, <4>2 DEF AtEnd
    <3>2. CASE LastDeleted /\ view' = rows' /\ UNCHANGED keep /\ ToNextRow
      <4>1. WorkersOf(rows') = SubSeq(WorkersOf(view), 1, Len(view) - 1)
        BY <3>2 DEF LastDeleted
      <4>2. /\ WorkersOf(view) \in Seq(Workers \cup {Blank})
            /\ Len(WorkersOf(view)) = Len(view) /\ Len(WorkersOf(rows')) = Len(rows')
        BY <1>1, <1>3, WorkersAre
      <4>3. Len(SubSeq(WorkersOf(view), 1, Len(view) - 1)) = Len(view) - 1
        BY <1>3, <3>1, <4>2
      <4>4. Len(view') = Len(view) - 1
        BY <3>2, <4>1, <4>2, <4>3
      <4> QED
        BY <1>8, <2>3, <3>1, <3>2, <4>4
    <3>3. CASE at = "deleteRow" /\ at' = "confirm" /\ UNCHANGED clientHeader
      BY <3>3 DEF clientHeader
    <3> QED
      BY <1>1, <2>3, <3>2, <3>3 DEF HeaderAccept, Proceed
  <2>4. CASE at = "new"
    <3>1. Len(view') = Len(view) + 1 /\ at' = "resolve"
      BY <1>1, <2>4 DEF HeaderAccept, Proceed
    <3>2. keep = Len(view)
      BY <1>0, <1>1, <2>4 DEF HeaderInv, LiveOK, DialogOK, AddingOK, Adding
    <3> QED
      BY <2>4, <3>1, <3>2
  <2>5. CASE at = "resolve"
    <3>1. keep' = Len(view') /\ ToNextRow /\ \E row : view' = [view EXCEPT ![Len(view)] = row]
      BY <1>1, <2>5 DEF HeaderAccept
    <3>2. PICK row : view' = [view EXCEPT ![Len(view)] = row]
      BY <3>1
    <3>3. view # <<>>
      BY <1>0, <1>1, <2>5 DEF HeaderInv, LiveOK, DialogOK, Resolving
    <3>4. Len(view') = Len(view) /\ Len(view) >= 1
      BY <1>3, <3>2, <3>3
    <3>5. view' # <<>>
      BY <3>4
    <3> QED
      BY <1>8, <2>5, <3>1, <3>4, <3>5
  <2> QED
    BY <2>1, <2>2, <2>3, <2>4, <2>5 DEF Dialog
<1>11. RowMove(at, at', Len(view), keep, Len(view'), keep', Len(header.names))
  BY <1>6, <1>7, <1>9, <1>10 DEF RowMove, Dialog
<1> QED
  BY <1>1, <1>3, <1>4, <1>5, <1>11

LEMMA HeaderCountsAre ==
  ASSUME NEW step \in HeaderSteps, NEW c \in 0 .. MaxApprovers, NEW k \in Nat,
         NEW open \in 0 .. 2, NEW f \in Nat, NEW n \in Nat
  PROVE  HeaderUsed(step, c, k, open) \in Nat /\ HeaderPlanned(step, c, k, open, f, n) \in Nat
<1>1. MaxApprovers \in Nat \ {0}
  BY HeaderAssumption
<1>2. RowsUsed(c, k) \in Nat /\ RowsPlanned(c, k) \in Nat
  BY <1>1 DEF RowsUsed, RowsPlanned
<1>3. HeaderUsed(step, c, k, open) \in Nat
  BY <1>1, <1>2 DEF HeaderUsed, HeaderSteps
<1>4. HeaderPlanned(step, c, k, open, f, n) \in Nat
  BY <1>2 DEF HeaderPlanned, HeaderSteps
<1> QED
  BY <1>3, <1>4

\* What a request takes.
LEMMA Weights ==
  ASSUME NEW step, NEW w \in {1, 2}
  PROVE  /\ Weight(step, w) \in Nat /\ Messages(step) \in Nat /\ Messages(step) >= 1
         /\ step \in HeaderSteps =>
              /\ Weight(step, 1) = IF Repair(step) THEN 0 ELSE 1
              /\ Messages(step) \in 1 .. 2
              /\ Messages(step) = 2 => step \in {"final", "resolve"}
<1>1. Messages(step) \in Nat /\ Messages(step) >= 1
  BY DEF Messages, HeaderMessages, LinesMessages, ReceiptMessages, UploadHeadroom
<1>2. Planned(step) \in {0, 1}
  BY DEF Planned
<1>3. step \in HeaderSteps =>
        /\ Weight(step, 1) = IF Repair(step) THEN 0 ELSE 1
        /\ Messages(step) \in 1 .. 2
        /\ Messages(step) = 2 => step \in {"final", "resolve"}
  BY DEF Weight, Planned, Messages, HeaderMessages
<1> QED
  BY <1>1, <1>2, <1>3 DEF Weight

LEMMA FieldsMove ==
  ASSUME Sound, Accept, at \in {"menu", "edit", "title", "final"}
  PROVE  /\ UNCHANGED <<op, header>>
         /\ at = "menu" => at' = "edit"
         /\ at # "menu" => at' \in {"title", "final", "approvers", "okEdit"}
         /\ at = "title" => at' # "title"
         /\ at = "final" => at' \notin Fields
         /\ at' \in Fields => at' \in unset'
<1>0. at \in HeaderSteps /\ WayInv /\ HeaderInv /\ HeaderOn
  BY DEF Sound, HeaderSteps
<1>1. HeaderAccept(AfterHeader) /\ UNCHANGED <<op, header>>
  BY <1>0, HeaderGoesOn
<1>2. \A list : ToApprovers(list) \in {"approvers", "okEdit"}
  BY DEF ToApprovers
<1>3. \A list : \/ AfterTitle(list) \in {"approvers", "okEdit"}
                \/ AfterTitle(list) = "final" /\ "final" \in unset'
  BY <1>2 DEF AfterTitle
<1>4. \A list : \/ AfterEdit(list) = AfterTitle(list)
                \/ AfterEdit(list) = "title" /\ "title" \in unset'
  BY DEF AfterEdit
<1>5. CASE at = "menu"
  BY <1>1, <1>5 DEF HeaderAccept, Proceed, Fields
<1>6. CASE at = "edit"
  <2>1. at' = AfterEdit(before)
    BY <1>1, <1>6 DEF HeaderAccept, Proceed
  <2> QED
    BY <1>1, <1>3, <1>4, <1>6, <2>1 DEF Fields
<1>7. CASE at = "title"
  <2>1. at' = AfterTitle(listed)
    BY <1>1, <1>7 DEF HeaderAccept, Proceed
  <2> QED
    BY <1>1, <1>3, <1>7, <2>1 DEF Fields
<1>8. CASE at = "final"
  <2>1. at' = ToApprovers(listed)
    BY <1>1, <1>8 DEF HeaderAccept, Proceed
  <2> QED
    BY <1>1, <1>2, <1>8, <2>1 DEF Fields
<1> QED
  BY <1>5, <1>6, <1>7, <1>8

(* Within the header, what is counted covers each request.                 *)
LEMMA HeaderCounts ==
  ASSUME Sound, Sound', FieldsLeft, FieldsLeft', Accept, at \in HeaderSteps, at' \in HeaderSteps,
         NEW w \in {1, 2}
  PROVE  HeaderSent(w)' >= HeaderSent(w) + Weight(at, w)
<1> DEFINE c == Len(view)
           d == Len(view')
           f == Cardinality(header.fields)
           n == Len(header.names)
<1>0. WayInv /\ HeaderInv /\ HeaderOn /\ HeaderOn'
  BY DEF Sound
<1>1. /\ HeaderTypeOK /\ HeaderSoFar /\ HeaderAccept(AfterHeader) /\ UNCHANGED <<op, header>>
  BY <1>0, HeaderGoesOn
<1>2. HeaderTypeOK'
  BY <1>0 DEF HeaderOn
<1>3. /\ c \in 0 .. MaxApprovers /\ keep \in Nat /\ dialogs \in 0 .. 2
      /\ d \in 0 .. MaxApprovers /\ keep' \in Nat /\ dialogs' \in 0 .. 2
      /\ MaxApprovers \in Nat \ {0}
  BY <1>1, <1>2, HeaderAssumption DEF HeaderTypeOK
<1>4. /\ header.fields \subseteq Fields /\ n \in Nat
      /\ f \in 0 .. 2
      /\ header.fields # {} => f >= 1
      /\ "title" \in header.fields /\ "final" \in header.fields => f = 2
  <2>1. header.fields \subseteq Fields
    BY <1>1 DEF HeaderTypeOK, HeaderInput
  <2> QED
    BY <1>1, <2>1, ShareIs, FieldCounts
<1>5. /\ Messages(at) \in 1 .. 2 /\ (Messages(at) = 2 => at \in {"final", "resolve"})
      /\ Weight(at, 1) = (IF Repair(at) THEN 0 ELSE 1) /\ Weight(at, 2) = Messages(at)
  BY Weights DEF Weight
<1>6. op \in {"edit", "new"}
  BY <1>0, <1>1, HeaderGoesOn
<1>7. /\ HeaderSent(1) = HeaderPlanned(at, c, keep, dialogs, f, n)
      /\ HeaderSent(1)' = HeaderPlanned(at', d, keep', dialogs', f, n)
      /\ HeaderSent(2) = (IF op = "edit" THEN 3 ELSE 0) + HeaderUsed(at, c, keep, dialogs)
      /\ HeaderSent(2)' = (IF op = "edit" THEN 3 ELSE 0) + HeaderUsed(at', d, keep', dialogs')
  BY <1>1 DEF HeaderSent
<1>8. /\ HeaderUsed(at, c, keep, dialogs) \in Nat /\ HeaderUsed(at', d, keep', dialogs') \in Nat
      /\ HeaderPlanned(at, c, keep, dialogs, f, n) \in Nat
      /\ HeaderPlanned(at', d, keep', dialogs', f, n) \in Nat
  <2>1. f \in Nat /\ n \in Nat
    BY <1>4
  <2> HIDE DEF c, d, f, n
  <2>2. HeaderUsed(at, c, keep, dialogs) \in Nat /\ HeaderPlanned(at, c, keep, dialogs, f, n) \in Nat
    BY <1>3, <2>1, HeaderCountsAre
  <2>3. /\ HeaderUsed(at', d, keep', dialogs') \in Nat
        /\ HeaderPlanned(at', d, keep', dialogs', f, n) \in Nat
    BY <1>3, <2>1, HeaderCountsAre
  <2> QED
    BY <2>2, <2>3
<1> HIDE DEF c, d, f, n
<1>9. ASSUME HeaderUsed(at', d, keep', dialogs') >= HeaderUsed(at, c, keep, dialogs) + Messages(at),
             HeaderPlanned(at', d, keep', dialogs', f, n)
               >= HeaderPlanned(at, c, keep, dialogs, f, n) + (IF Repair(at) THEN 0 ELSE 1)
      PROVE  HeaderSent(w)' >= HeaderSent(w) + Weight(at, w)
  <2>1. CASE w = 1
    BY <1>5, <1>7, <1>9, <2>1
  <2>2. CASE w = 2
    <3>1. PICK x \in {0, 3} : x = IF op = "edit" THEN 3 ELSE 0
      OBVIOUS
    <3>2. HeaderSent(2)' = x + HeaderUsed(at', d, keep', dialogs')
          /\ HeaderSent(2) = x + HeaderUsed(at, c, keep, dialogs)
      BY <1>7, <3>1
    <3> QED
      BY <1>5, <1>8, <1>9, <2>2, <3>2
  <2> QED
    BY <2>1, <2>2
<1>10. CASE at \in Dialog \cup {"approvers"}
  <2>1. /\ n \in 1 .. MaxApprovers /\ dialogs' \in 1 .. 2
        /\ RowMove(at, at', c, keep, d, keep', n)
    BY <1>10, RowsMove DEF c, d, n
  <2>2. HeaderUsed(at', d, keep', dialogs') >= HeaderUsed(at, c, keep, dialogs) + Messages(at)
    <3>1. Messages(at) = 2 => at = "resolve"
      BY <1>5, <1>10 DEF Dialog
    <3> QED
      BY <1>3, <1>5, <2>1, <3>1, UsedGrows
  <2>3. HeaderPlanned(at', d, keep', dialogs', f, n)
          >= HeaderPlanned(at, c, keep, dialogs, f, n) + (IF Repair(at) THEN 0 ELSE 1)
    <3>1. f \in Nat
      BY <1>4
    <3> QED
      BY <1>3, <2>1, <3>1, PlannedGrows
  <2> QED
    BY <1>9, <2>2, <2>3
<1>11. CASE at \in {"menu", "edit", "title", "final"}
  <2>1. /\ at = "menu" => at' = "edit"
        /\ at # "menu" => at' \in {"title", "final", "approvers", "okEdit"}
        /\ at = "title" => at' # "title"
        /\ at = "final" => at' \notin {"title", "final"}
    BY <1>11, FieldsMove DEF Fields
  <2>2. /\ at = "title" => "title" \in header.fields
        /\ at = "final" => "final" \in header.fields
        /\ at' = "title" => "title" \in header.fields
        /\ at' = "final" => "final" \in header.fields
    BY <1>1 DEF FieldsLeft, Fields
  <2>3. ~Repair(at)
    BY <1>11 DEF Repair
  <2>4. HeaderUsed(at', d, keep', dialogs') >= HeaderUsed(at, c, keep, dialogs) + Messages(at)
    BY <1>3, <1>5, <1>11, <2>1 DEF HeaderUsed
  <2>5. HeaderPlanned(at', d, keep', dialogs', f, n)
          >= HeaderPlanned(at, c, keep, dialogs, f, n) + 1
    <3>1. PICK x \in Nat : x = IF n = 0 THEN 0 ELSE 3 + 2 * n
      BY <1>4
    <3>2. /\ at = "title" => f >= 1
          /\ at = "title" /\ at' = "final" => f = 2
          /\ at' = "final" => f >= 1
      BY <1>4, <2>2
    <3> QED
      BY <1>4, <1>11, <2>1, <3>1, <3>2 DEF HeaderPlanned
  <2> QED
    BY <1>9, <2>3, <2>4, <2>5
<1>12. CASE at = "okDialog"
  <2>1. dialogs \in 1 .. 2 /\ dialogs' = dialogs - 1 /\ n # 0
    <3>1. header.names \in Seq(Approver) /\ header.names # <<>>
      BY <1>0, <1>1, <1>12 DEF HeaderSoFar, HeaderInv, Asked
    <3> QED
      BY <1>1, <1>12, <3>1 DEF HeaderSoFar, HeaderAccept, n
  <2>2. at' = IF dialogs' > 0 THEN "okDialog" ELSE "okEdit"
    BY <1>1, <1>12 DEF HeaderAccept, Proceed
  <2>3. ~Repair(at) /\ Messages(at) = 1
    BY <1>5, <1>12 DEF Repair
  <2>4. HeaderUsed(at', d, keep', dialogs') >= HeaderUsed(at, c, keep, dialogs) + 1
    BY <1>3, <1>12, <2>1, <2>2 DEF HeaderUsed
  <2>5. HeaderPlanned(at', d, keep', dialogs', f, n)
          >= HeaderPlanned(at, c, keep, dialogs, f, n) + 1
    BY <1>4, <1>12, <2>1, <2>2 DEF HeaderPlanned
  <2> QED
    BY <1>9, <2>3, <2>4, <2>5
<1>13. CASE at = "okEdit"
  <2>1. at' = AfterHeader
    BY <1>1, <1>13 DEF HeaderAccept, Proceed
  <2> QED
    BY <2>1 DEF AfterHeader, ToLines, HeaderSteps
<1> QED
  BY <1>10, <1>11, <1>12, <1>13 DEF HeaderSteps, Dialog

LEMMA HeaderSum ==
  ASSUME Sound, Sound', FieldsLeft, FieldsLeft', Accept, at \in HeaderSteps, NEW w \in {1, 2}
  PROVE  /\ at' # "done" /\ Sent(w) \in Nat /\ Sent(w)' \in Nat
         /\ Sent(w)' >= Sent(w) + Weight(at, w)
<1>0. WayInv /\ HeaderInv /\ HeaderOn /\ HeaderOn' /\ LinesInv /\ LinesInv'
  BY DEF Sound
<1>1. /\ HeaderTypeOK /\ HeaderAccept(AfterHeader) /\ UNCHANGED <<op, header>>
      /\ op \in {"edit", "new"}
  BY <1>0, HeaderGoesOn
<1>2. HeaderTypeOK'
  BY <1>0 DEF HeaderOn
<1>3. at' \in HeaderSteps \cup {AfterHeader} /\ AfterHeader \in {"save", "newLine"}
  BY <1>1, HeaderProceeds DEF Proceed, AfterHeader, ToLines
<1>4. HeaderSent(w) \in Nat /\ Sent(w) = HeaderSent(w)
  <2>1. /\ Len(view) \in 0 .. MaxApprovers /\ keep \in Nat /\ dialogs \in 0 .. 2
        /\ Cardinality(header.fields) \in Nat /\ Len(header.names) \in Nat
    <3>1. header.fields \subseteq Fields
      BY <1>1 DEF HeaderTypeOK, HeaderInput
    <3>2. Cardinality(header.fields) \in Nat /\ Len(header.names) \in Nat
      BY <1>1, <3>1, ShareIs, FieldCounts
    <3>3. view \in Seq(Row) /\ Len(view) <= MaxApprovers /\ keep \in Nat /\ dialogs \in 0 .. 2
      BY <1>1 DEF HeaderTypeOK
    <3> QED
      BY <3>2, <3>3, HeaderAssumption
  <2>2. /\ HeaderUsed(at, Len(view), keep, dialogs) \in Nat
        /\ HeaderPlanned(at, Len(view), keep, dialogs, Cardinality(header.fields),
                         Len(header.names)) \in Nat
    BY <2>1, HeaderCountsAre
  <2> QED
    BY <2>2 DEF HeaderSent, Sent
<1>5. CASE at' \in HeaderSteps
  <2>1. HeaderSent(w)' >= HeaderSent(w) + Weight(at, w)
    BY <1>5, HeaderCounts
  <2>2. HeaderSent(w)' \in Nat
    <3>1. /\ Len(view)' \in 0 .. MaxApprovers /\ keep' \in Nat /\ dialogs' \in 0 .. 2
          /\ Cardinality(header.fields) \in Nat /\ Len(header.names) \in Nat
      <4>1. header.fields \subseteq Fields
        BY <1>1 DEF HeaderTypeOK, HeaderInput
      <4>2. Cardinality(header.fields) \in Nat /\ Len(header.names) \in Nat
        BY <1>1, <4>1, ShareIs, FieldCounts
      <4>3. view' \in Seq(Row) /\ Len(view') <= MaxApprovers /\ keep' \in Nat /\ dialogs' \in 0 .. 2
        BY <1>2 DEF HeaderTypeOK
      <4> QED
        BY <4>2, <4>3, HeaderAssumption
    <3>2. /\ HeaderUsed(at', Len(view)', keep', dialogs') \in Nat
          /\ HeaderPlanned(at', Len(view)', keep', dialogs', Cardinality(header.fields),
                           Len(header.names)) \in Nat
      BY <1>5, <3>1, HeaderCountsAre
    <3> QED
      BY <1>1, <3>2 DEF HeaderSent
  <2>3. Sent(w)' = HeaderSent(w)' /\ at' # "done"
    BY <1>5 DEF Sent, HeaderSteps
  <2> QED
    BY <1>4, <2>1, <2>2, <2>3
<1>6. CASE at' \notin HeaderSteps
  <2>1. at = "okEdit" /\ at' = AfterHeader
    <3>1. NextRow \in HeaderSteps
      BY DEF NextRow, AtLast, HeaderSteps
    <3>2. \A list : /\ ToApprovers(list) \in HeaderSteps /\ AfterTitle(list) \in HeaderSteps
                    /\ AfterEdit(list) \in HeaderSteps
      BY DEF ToApprovers, AfterTitle, AfterEdit, HeaderSteps
    <3>3. at' \notin {"edit", "approvers", "confirm", "resolve", "okDialog", "okEdit"}
      BY <1>6 DEF HeaderSteps
    <3> QED
      BY <1>1, <1>6, <3>1, <3>2, <3>3 DEF HeaderAccept, Proceed, ToNextRow, Opened
  <2>2. Weight(at, w) = 1
    BY <2>1 DEF Weight, Planned, Repair, Messages, HeaderMessages, HeaderSteps
  <2>3. /\ HeaderShare(w) \in Nat /\ HeaderRequestCount(header) \in Nat
        /\ HeaderHeadroom \in Nat /\ Len(header.names) \in 0 .. MaxApprovers
        /\ MaxApprovers \in Nat
    BY <1>1, ShareIs, HeaderAssumption
  <2>4. HeaderSent(w) + 1 <= IF w = 1 THEN HeaderRequestCount(header)
                             ELSE (IF op = "edit" THEN 3 ELSE 0) + HeaderHeadroom
    <3>1. CASE w = 1
      <4>1. HeaderSent(w) = 2 + Cardinality(header.fields)
              + (IF Len(header.names) = 0 THEN 0 ELSE 3 + 2 * Len(header.names))
        BY <2>1, <3>1 DEF HeaderSent, HeaderPlanned
      <4>2. header.names = <<>> <=> Len(header.names) = 0
        <5>1. header.names \in Seq(Approver)
          BY <1>0 DEF HeaderInv, Asked
        <5> QED
          BY <5>1
      <4>3. PICK x \in Nat : x = IF Len(header.names) = 0 THEN 0 ELSE 3 + 2 * Len(header.names)
        BY <2>3
      <4>4. Cardinality(header.fields) \in Nat
        <5>1. header.fields \subseteq Fields
          BY <1>1 DEF HeaderTypeOK, HeaderInput
        <5> QED
          BY <5>1, FieldCounts
      <4>5. HeaderRequestCount(header) = 3 + Cardinality(header.fields) + x
        BY <4>2, <4>3 DEF HeaderRequestCount
      <4>6. HeaderSent(w) = 2 + Cardinality(header.fields) + x
        BY <4>1, <4>3
      <4> QED
        BY <3>1, <4>4, <4>5, <4>6
    <3>2. CASE w = 2
      <4>1. HeaderSent(w) = (IF op = "edit" THEN 3 ELSE 0) + (9 + 7 * MaxApprovers)
        BY <2>1, <3>2 DEF HeaderSent, HeaderUsed
      <4>2. (9 + 7 * MaxApprovers) + 1 <= HeaderHeadroom
        BY <2>3 DEF HeaderHeadroom
      <4>3. PICK x \in {0, 3} : x = IF op = "edit" THEN 3 ELSE 0
        OBVIOUS
      <4>4. HeaderSent(w) = x + (9 + 7 * MaxApprovers)
        BY <4>1, <4>3
      <4>5. x + (9 + 7 * MaxApprovers) + 1 <= x + HeaderHeadroom
        BY <2>3, <4>2
      <4> QED
        BY <3>2, <4>3, <4>4, <4>5
    <3> QED
      BY <3>1, <3>2
  <2>5. HeaderShare(w)' = HeaderShare(w)
    BY <1>1 DEF HeaderShare, HasHeader, HeaderRequestCount
  <2>6. at' # "done" /\ at' \notin HeaderSteps
    BY <1>3, <1>6
  <2>7. CASE op = "edit"
    <3>1. at' = "save"
      BY <2>1, <2>7 DEF AfterHeader
    <3>2. Sent(w)' = ToSave(w)'
      BY <3>1 DEF Sent, OtherSent, HeaderSteps, LinesSteps
    <3>3. ToSave(w)' = 3 + HeaderHeadroom
      BY <1>1, <2>7 DEF ToSave
    <3>4. HeaderSent(w) + 1 <= 3 + HeaderHeadroom
      <4>1. CASE w = 1
        <5>1. HeaderRequestCount(header) <= 3 + HeaderHeadroom
          <6>1. header.fields \subseteq Fields
            BY <1>1 DEF HeaderTypeOK, HeaderInput
          <6>2. Cardinality(header.fields) \in 0 .. 2
            BY <6>1, FieldCounts
          <6>3. PICK x \in Nat : x = (IF header.names = <<>> THEN 0 ELSE 3 + 2 * Len(header.names))
                                 /\ x <= 3 + 2 * MaxApprovers
            BY <2>3
          <6> QED
            BY <2>3, <6>2, <6>3 DEF HeaderRequestCount, HeaderHeadroom
        <5> QED
          BY <1>4, <2>3, <2>4, <4>1, <5>1
      <4>2. CASE w = 2
        BY <2>4, <2>7, <4>2
      <4> QED
        BY <4>1, <4>2
    <3> QED
      BY <1>4, <2>2, <2>3, <2>6, <3>2, <3>3, <3>4
  <2>8. CASE op = "new"
    <3>1. HeaderShare(w) = IF w = 1 THEN HeaderRequestCount(header) ELSE HeaderHeadroom
      BY <2>8 DEF FieldsLeft, HeaderShare
    <3>2. HeaderSent(w) + 1 <= HeaderShare(w)
      <4>1. CASE w = 1
        BY <2>4, <3>1, <4>1
      <4>2. CASE w = 2
        BY <2>3, <2>4, <2>8, <3>1, <4>2
      <4> QED
        BY <4>1, <4>2
    <3>3. \E x \in Nat : Sent(w)' = HeaderShare(w) + x
      <4>1. wanted' \in Seq(LineInput) /\ LinesTypeOK'
        BY <1>0 DEF LinesInv, LinesTypeOK
      <4>2. CASE at' = "save"
        <5>1. PICK list \in Seq(LineInput) : list = wanted'
          BY <4>1
        <5>2. Len(list) \in 0 .. Len(list)
          OBVIOUS
        <5>3. First(LineCosts(list, w), Len(list)) \in Nat
          BY <5>2, FirstLines
        <5>4. Sent(w)' = ToSave(w)'
          BY <4>2 DEF Sent, OtherSent, HeaderSteps, LinesSteps
        <5>5. ToSave(w)' = HeaderShare(w)' + First(LineCosts(list, w), Len(list))
          BY <1>1, <2>8, <5>1 DEF ToSave
        <5> QED
          BY <2>5, <5>3, <5>4, <5>5
      <4>3. CASE at' = "newLine"
        <5>1. nth' \in 1 .. Len(wanted')
          BY <1>0, <4>3 DEF LinesInv, LinePlaces, LinesSteps
        <5>2. PICK list \in Seq(LineInput) : list = wanted'
          BY <4>1
        <5>3. PICK m \in 0 .. Len(list) : m = nth' - 1
          <6>1. nth' \in 1 .. Len(list) /\ Len(list) \in Nat
            BY <5>1, <5>2
          <6>3. PICK i \in 1 .. Len(list) : i = nth'
            BY <6>1
          <6>4. i - 1 \in 0 .. Len(list)
            OBVIOUS
          <6>2. nth' - 1 \in 0 .. Len(list)
            BY <6>3, <6>4
          <6> QED
            BY <6>2
        <5>4. First(LineCosts(list, w), m) \in Nat
          BY FirstLines
        <5>5. LineSent(w)' = First(LineCosts(list, w), m)
          BY <5>2, <5>3 DEF LineSent
        <5>6. Sent(w)' = HeaderShare(w)' + LinesSent(w)'
          BY <2>6, <4>3 DEF Sent, LinesSteps
        <5>7. LinesSent(w)' = LineSent(w)'
          BY <4>3 DEF LinesSent
        <5> QED
          BY <2>5, <5>4, <5>5, <5>6, <5>7
      <4> QED
        BY <1>3, <1>6, <4>2, <4>3
    <3>4. PICK x \in Nat : Sent(w)' = HeaderShare(w) + x
      BY <3>3
    <3> QED
      BY <1>4, <2>2, <2>3, <2>6, <3>2, <3>4
  <2> QED
    BY <1>1, <2>7, <2>8
<1> QED
  BY <1>5, <1>6

-----------------------------------------------------------------------------
(* What the numbers rest on.                                               *)

LEMMA UnsetShrinks ==
  ASSUME NEW step, CarryOut(step)
  PROVE  unset' \subseteq unset
<1>1. step \in HeaderSteps /\ HeaderCarry(step) => unset' \subseteq unset
  <2> SUFFICES ASSUME step \in HeaderSteps, HeaderCarry(step) PROVE unset' \subseteq unset
    OBVIOUS
  <2>1. CASE step \in Fields
    BY <2>1 DEF HeaderCarry
  <2>2. CASE step \notin Fields
    BY <2>2 DEF HeaderCarry, HeaderSteps, dynamicsHeader
  <2> QED
    BY <2>1, <2>2
<1>2. UNCHANGED dynamicsHeader => unset' \subseteq unset
  BY DEF dynamicsHeader
<1> QED
  BY <1>1, <1>2 DEF CarryOut, Dynamics

\* Where an answer leads that is not about the header.
LEMMA OthersLeadOn ==
  ASSUME Sound, Accept, at \notin HeaderSteps
  PROVE  /\ at' \in HeaderSteps => at = "link" /\ op = "edit" /\ at' = "menu"
         /\ at' \in OpenSteps => at \in OpenSteps
         /\ at' = "tab" => at = "link"
         /\ at' \notin Fields
<1>0. op \in Ops /\ at \in StepsOf(op) \cup {"done"}
  BY DEF Sound, WayInv
<1>1. CASE at \in GridSteps /\ GridAccept(op = "delete", AfterOpen)
  <2>1. at = "link" => op \notin {"new", "delete"}
    BY <1>0, StepsAre
  <2>2. /\ at = "link" => at' = AfterOpen
        /\ at # "link" => at' \notin HeaderSteps \cup {"tab"}
        /\ at' \in {"link", "activate", "refresh"} => at \in {"refresh", "activate", "link"}
    <3>1. \/ at = "refresh" /\ at' \in (IF op = "delete" THEN {"mark"} ELSE {"link", "activate"})
          \/ at = "activate" /\ at' = "link"
          \/ at = "link" /\ at' = AfterOpen
          \/ at = "save" /\ at' = "done"
          \/ at = "submit" /\ at' = "resubmitted"
          \/ at = "resubmitted" /\ at' = "done"
          \/ at = "mark" /\ at' = "delete"
          \/ at = "delete" /\ at' = "yes"
          \/ at = "yes" /\ at' = "gone"
          \/ at = "gone" /\ at' = "done"
      BY <1>1, GridLeadsOn
    <3> QED
      BY <3>1 DEF HeaderSteps
  <2>3. /\ AfterOpen \in HeaderSteps => op = "edit" /\ AfterOpen = "menu"
        /\ AfterOpen \notin Fields
    BY DEF AfterOpen, HeaderSteps, Fields
  <2> QED
    BY <2>1, <2>2, <2>3 DEF OpenSteps, Fields, HeaderSteps
<1>2. CASE at \in LinesSteps /\ LinesAccept("save")
  <2>1. at' \in LinesSteps \cup {"save"}
    BY <1>2, LinesProceed DEF Proceed
  <2> QED
    BY <2>1 DEF HeaderSteps, LinesSteps, OpenSteps, Fields
<1>3. CASE at \in ReceiptSteps /\ ReceiptsAccept(op, "save")
  <2>1. at' \in ReceiptSteps \cup {"save"} /\ at' # "tab"
    BY <1>3, ReceiptsLeadOn DEF ReceiptSteps
  <2> QED
    BY <2>1 DEF HeaderSteps, ReceiptSteps, OpenSteps, Fields
<1> QED
  BY <1>1, <1>2, <1>3 DEF Accept

LEMMA FieldsKept == Sound /\ FieldsLeft /\ [Next]_vars => FieldsLeft'
<1> SUFFICES ASSUME Sound, FieldsLeft, [Next]_vars PROVE FieldsLeft'
  OBVIOUS
<1>1. CASE Accept
  <2>1. /\ CarryOut(at) /\ UNCHANGED <<op, header>>
    BY <1>1, AcceptedIs DEF Accept
  <2>2. unset' \subseteq header.fields
    BY <2>1, UnsetShrinks DEF FieldsLeft
  <2>3. CASE at \in HeaderSteps
    <3>1. at' \in Fields => at' \in unset'
      <4>1. CASE at \in {"menu", "edit", "title", "final"}
        BY <1>1, <4>1, FieldsMove
      <4>2. CASE at \notin {"menu", "edit", "title", "final"}
        <5>1. NextRow \notin Fields /\ AfterHeader \notin Fields
          BY DEF NextRow, AtLast, AfterHeader, ToLines, Fields
        <5>2. HeaderAccept(AfterHeader)
          BY <1>1, <2>3, StepsApart DEF Accept
        <5> QED
          BY <4>2, <5>1, <5>2 DEF HeaderAccept, Proceed, ToNextRow, Opened, Fields
      <4> QED
        BY <4>1, <4>2
    <3>2. op = "new" => HasHeader
      BY <2>3 DEF FieldsLeft
    <3>3. HasHeader' = HasHeader
      BY <2>1 DEF HasHeader
    <3> QED
      BY <2>1, <2>2, <3>1, <3>2, <3>3 DEF FieldsLeft
  <2>4. CASE at \notin HeaderSteps
    <3>1. at' \notin Fields /\ (at' \in HeaderSteps => op = "edit")
      BY <1>1, <2>4, OthersLeadOn
    <3>2. HasHeader' = HasHeader
      BY <2>1 DEF HasHeader
    <3> QED
      BY <2>1, <2>2, <3>1, <3>2 DEF FieldsLeft
  <2> QED
    BY <2>3, <2>4
<1>2. CASE ~Accept
  <2>1. UNCHANGED <<op, at, header>>
    BY <1>2 DEF Next, Stop, Post, Reject, GiveUp, LateEffect, Abandon, Send, End, vars,
       exchangeVars, headerVars, clientHeader
  <2>2. unset' \subseteq unset
    <3>1. CASE Reject \/ LateEffect
      <4>1. CarryOut(at) \/ CarryOut(posted)
        BY <3>1 DEF Reject, LateEffect
      <4> QED
        BY <4>1, UnsetShrinks
    <3>2. CASE ~(Reject \/ LateEffect)
      <4>1. UNCHANGED headerVars
        BY <1>2, <3>2 DEF Next, Stop, Post, GiveUp, Abandon, vars
      <4> QED
        BY <4>1 DEF headerVars, dynamicsHeader
    <3> QED
      BY <3>1, <3>2
  <2>3. HasHeader' = HasHeader
    BY <2>1 DEF HasHeader
  <2> QED
    BY <2>1, <2>2, <2>3 DEF FieldsLeft
<1> QED
  BY <1>1, <1>2

LEMMA RoundsKept == Sound /\ RoundsOK /\ [Next]_vars => RoundsOK'
<1> SUFFICES ASSUME Sound, RoundsOK, [Next]_vars PROVE RoundsOK'
  OBVIOUS
<1>1. CASE Accept
  <2>1. UNCHANGED op /\ op \in Ops /\ at \in StepsOf(op) \cup {"done"}
        /\ removed \in Nat /\ count \in Nat
    BY <1>1 DEF Accept, Sound, WayInv, Typed, ReceiptsTypeOK
  <2>2. CASE at \in ReceiptSteps /\ ReceiptsAccept(op, "save")
    <3>1. UNCHANGED count /\ at' \notin OpenSteps \cup {"tab"}
      <4>1. at' \in ReceiptSteps \cup {"save"} /\ at' # "tab"
        BY <2>2, ReceiptsLeadOn DEF ReceiptSteps
      <4> QED
        BY <2>2, <4>1 DEF ReceiptsAccept, clientReceipts, OpenSteps, ReceiptSteps
    <3>2. CASE op = "remove" /\ at = "tab"
      <4>1. removed' = removed /\ removed = 0 /\ Cardinality(Left(onReport)) = count
            /\ \E r \in Left(onReport) : TRUE
        BY <2>2, <3>2 DEF ReceiptsAccept, ToRemove, RoundsOK
      <4>2. IsFiniteSet(Left(onReport))
        <5>1. Left(onReport) \subseteq Receipts
          BY ReceiptsAssumption DEF Left
        <5> QED
          BY <5>1, ReceiptsAssumption, FS_Subset
      <4>3. count # 0
        BY <4>1, <4>2, FS_EmptySet
      <4> QED
        BY <2>1, <3>1, <3>2, <4>1, <4>3 DEF RoundsOK
    <3>3. CASE op = "remove" /\ at = "yesRemove"
      <4>1. removed' = removed + 1 /\ (at' # "save" => removed' < count)
        BY <2>2, <3>3 DEF ReceiptsAccept, Proceed
      <4> QED
        BY <2>1, <3>1, <3>3, <4>1 DEF RoundsOK
    <3>4. CASE op = "remove" /\ at \in {"pickReceipt", "remove"}
      <4>1. UNCHANGED removed
        BY <2>2, <3>4 DEF ReceiptsAccept, clientReceipts
      <4> QED
        BY <2>1, <3>1, <3>4, <4>1 DEF RoundsOK
    <3>5. CASE op = "attach"
      <4>1. at # "yesRemove"
        BY <2>1, <3>5, StepsAre
      <4>2. UNCHANGED removed
        BY <2>2, <3>5, <4>1 DEF ReceiptsAccept, clientReceipts
      <4> QED
        BY <2>1, <3>5, <4>2 DEF RoundsOK
    <3>6. op = "remove" => at \in {"tab", "yesRemove", "pickReceipt", "remove"}
      BY <2>1, <2>2, StepsAre DEF ReceiptSteps
    <3> QED
      BY <2>1, <3>2, <3>3, <3>4, <3>5, <3>6 DEF RoundsOK
  <2>3. CASE at \notin ReceiptSteps
    <3>1. UNCHANGED <<removed, count>>
      BY <1>1, <2>3 DEF Accept, clientReceipts
    <3>2. at' \notin {"pickReceipt", "remove", "yesRemove"}
          /\ (at' \in OpenSteps \cup {"tab"} => at \in OpenSteps)
      <4>1. CASE at \in HeaderSteps
        <5>1. at' \in HeaderSteps \cup {AfterHeader}
          BY <1>1, <4>1, StepsApart, HeaderProceeds DEF Accept, Proceed
        <5> QED
          BY <5>1 DEF AfterHeader, ToLines, HeaderSteps, OpenSteps
      <4>2. CASE at \notin HeaderSteps
        <5>1. /\ at' \in OpenSteps => at \in OpenSteps
              /\ at' = "tab" => at = "link"
          BY <1>1, <4>2, OthersLeadOn
        <5>2. at' \notin {"pickReceipt", "remove", "yesRemove"}
          <6>1. CASE at \in GridSteps /\ GridAccept(op = "delete", AfterOpen)
            BY <6>1, GridLeadsOn DEF AfterOpen
          <6>2. CASE at \in LinesSteps /\ LinesAccept("save")
            BY <6>2, LinesProceed DEF Proceed, LinesSteps
          <6> QED
            BY <1>1, <2>3, <4>2, <6>1, <6>2 DEF Accept
        <5> QED
          BY <5>1, <5>2 DEF OpenSteps
      <4> QED
        BY <4>1, <4>2
    <3> QED
      BY <2>1, <3>1, <3>2 DEF RoundsOK
  <2>4. at \in ReceiptSteps => ReceiptsAccept(op, "save")
    BY <1>1, StepsApart DEF Accept
  <2> QED
    BY <2>2, <2>3, <2>4
<1>2. CASE ~Accept
  <2>1. UNCHANGED <<op, at, removed, count>>
    BY <1>2 DEF Next, Stop, Post, Reject, GiveUp, LateEffect, Abandon, Send, End, vars,
       exchangeVars, receiptVars, clientReceipts
  <2> QED
    BY <2>1 DEF RoundsOK
<1> QED
  BY <1>1, <1>2

-----------------------------------------------------------------------------
(* What every request adds.                                                *)

\* What the answer to a request that is neither about the header nor about
\* lines leads to.
LEMMA OtherIs ==
  ASSUME Sound, at \in GridSteps \cup ReceiptSteps
  PROVE  /\ at \notin HeaderSteps /\ at \notin LinesSteps /\ at # "done"
         /\ \A w \in {1, 2} : Sent(w) = OtherSent(w)
         /\ Weight(at, 1) = 1
         /\ Weight(at, 2) = IF at = "upload" THEN 8 ELSE 1
<1>1. at \notin HeaderSteps /\ at \notin LinesSteps
  BY StepsApart
<1>2. Weight(at, 1) = 1 /\ Weight(at, 2) = Messages(at)
  BY <1>1 DEF Weight, Planned
<1>3. Messages(at) = IF at = "upload" THEN 8 ELSE 1
  BY <1>1 DEF Messages, ReceiptMessages, UploadHeadroom, ReceiptSteps
<1> QED
  BY <1>1, <1>2, <1>3 DEF Sent, GridSteps, ReceiptSteps

LEMMA GridSum ==
  ASSUME Sound, Sound', Accept, at \in GridSteps, at' # "done",
         NEW w \in {1, 2}, w = 2 \/ op \in {"new", "delete"}
  PROVE  /\ Sent(w) \in Nat /\ Sent(w)' \in Nat
         /\ Sent(w)' >= Sent(w) + Weight(at, w)
         /\ op = "delete" => Sent(w)' = Sent(w) + Weight(at, w)
<1>0. op \in Ops /\ at \in StepsOf(op) \cup {"done"} /\ at \notin ReceiptSteps
  BY StepsApart DEF Sound, WayInv
<1>1. UNCHANGED op /\ GridAccept(op = "delete", AfterOpen)
      /\ UNCHANGED <<clientHeader, clientLines, clientReceipts>>
  BY StepsApart DEF Accept
<1>2. /\ at \notin HeaderSteps /\ at \notin LinesSteps
      /\ Sent(w) = OtherSent(w) /\ Weight(at, w) = 1
  <2>1. at # "upload"
    BY <1>0 DEF ReceiptSteps
  <2> QED
    BY <2>1, OtherIs
<1>3. \/ at = "refresh" /\ at' \in (IF op = "delete" THEN {"mark"} ELSE {"link", "activate"})
      \/ at = "activate" /\ at' = "link"
      \/ at = "link" /\ at' = AfterOpen
      \/ at = "submit" /\ at' = "resubmitted"
      \/ at = "mark" /\ at' = "delete"
      \/ at = "delete" /\ at' = "yes"
      \/ at = "yes" /\ at' = "gone"
  BY <1>1, GridLeadsOn
<1>4. CASE at \in {"refresh", "activate", "submit", "mark", "delete", "yes"}
  <2>1. at' \notin HeaderSteps /\ at' \notin LinesSteps
    BY <1>3, <1>4 DEF HeaderSteps, LinesSteps
  <2>2. Sent(w)' = OtherSent(w)'
    BY <2>1 DEF Sent
  <2>3. op = "delete" => at # "activate" /\ at # "submit"
    BY <1>0 DEF StepsOf
  <2>4. /\ OtherSent(w) \in Nat /\ OtherSent(w)' \in Nat
        /\ OtherSent(w)' >= OtherSent(w) + 1
        /\ op = "delete" => OtherSent(w)' = OtherSent(w) + 1
    BY <1>3, <1>4, <2>3 DEF OtherSent
  <2> QED
    BY <1>2, <2>2, <2>4
<1>5. CASE at = "link"
  <2>1. op \notin {"new", "delete"} /\ w = 2
    BY <1>0, <1>5, StepsAre
  <2>2. OtherSent(w) = 2
    BY <1>5 DEF OtherSent
  <2>3. at' = AfterOpen
    BY <1>3, <1>5
  <2>4. Sent(w)' \in Nat /\ Sent(w)' >= 3
    <3>1. CASE op = "edit"
      <4>1. at' = "menu" /\ at' \in HeaderSteps
        BY <2>3, <3>1 DEF AfterOpen, HeaderSteps
      <4>2. HeaderSent(2)' = 3 + 0
        BY <1>1, <3>1, <4>1 DEF HeaderSent, HeaderUsed
      <4> QED
        BY <2>1, <4>1, <4>2 DEF Sent
    <3>2. CASE op = "itemize"
      <4>1. at' \in {"lineMenu", "pickLine"}
        BY <2>3, <3>2 DEF AfterOpen
      <4>2. at' \in LinesSteps /\ at' \notin HeaderSteps
        BY <4>1 DEF LinesSteps, HeaderSteps
      <4>3. HeaderShare(w)' = 0 /\ Opening(w)' = 4
        BY <1>1, <3>2 DEF HeaderShare, Opening
      <4>4. LinesSent(w)' \in {3, 4}
        BY <4>1, <4>3 DEF LinesSent
      <4>5. Sent(w)' = HeaderShare(w)' + LinesSent(w)'
        BY <4>2 DEF Sent
      <4> QED
        BY <4>3, <4>4, <4>5
    <3>3. CASE op \notin {"edit", "itemize"}
      <4>1. at' \in {"submit", "tab"}
        BY <2>3, <3>3 DEF AfterOpen
      <4>2. at' \notin HeaderSteps /\ at' \notin LinesSteps
        BY <4>1 DEF LinesSteps, HeaderSteps
      <4>3. OtherSent(w)' = 3
        BY <4>1 DEF OtherSent
      <4> QED
        BY <4>2, <4>3 DEF Sent
    <3> QED
      BY <3>1, <3>2, <3>3
  <2> QED
    BY <1>2, <2>1, <2>2, <2>4
<1> QED
  BY <1>3, <1>4, <1>5

LEMMA ReceiptsSum ==
  ASSUME IInv, IInv', RoundsOK, Accept, at \in ReceiptSteps
  PROVE  /\ at' # "done" /\ Sent(2) \in Nat /\ Sent(2)' \in Nat
         /\ Sent(2)' >= Sent(2) + Weight(at, 2)
<1>0. /\ Sound /\ op \in Ops /\ at \in StepsOf(op) \cup {"done"} /\ Live
      /\ removed \in Nat /\ uploaded \in Nat /\ count \in Nat
      /\ removed' \in Nat /\ uploaded' \in Nat
  BY AcceptedIs DEF IInv, Sound, WayInv, Typed, ReceiptsTypeOK
<1>1. UNCHANGED op /\ ReceiptsAccept(op, "save") /\ UNCHANGED <<clientHeader, clientLines, count>>
  <2>1. ReceiptsAccept(op, "save") /\ UNCHANGED <<op, clientHeader, clientLines>>
    BY StepsApart DEF Accept
  <2>2. UNCHANGED count
    BY <2>1 DEF ReceiptsAccept, clientReceipts
  <2> QED
    BY <2>1, <2>2
<1>2. Sent(2) = OtherSent(2) /\ Weight(at, 2) = IF at = "upload" THEN 8 ELSE 1
  BY <1>0, OtherIs
<1>3. /\ \/ at = "tab" /\ op = "show" /\ at' = "save"
         \/ at = "tab" /\ op = "add" /\ at' = "upload"
         \/ at = "tab" /\ op = "remove" /\ at' \in {"remove", "pickReceipt"}
         \/ at = "tab" /\ op = "attach" /\ at' \in {"popup", "pickReceipt"}
         \/ at = "upload" /\ at' \in {"upload", "save"}
         \/ at = "pickReceipt" /\ at' = (IF op = "attach" THEN "popup" ELSE "remove")
         \/ at = "remove" /\ at' = "yesRemove"
         \/ at = "yesRemove" /\ at' \in {"remove", "pickReceipt", "save"}
         \/ at = "popup" /\ at' \in {"attach", "pickPopupLine"}
         \/ at = "pickPopupLine" /\ at' = "attach"
         \/ at = "attach" /\ at' = "closePopup"
         \/ at = "closePopup" /\ at' = "save"
  BY <1>1, ReceiptsLeadOn
<1>4. at' \notin HeaderSteps /\ at' \notin LinesSteps /\ at' # "done"
  BY <1>3 DEF HeaderSteps, LinesSteps
<1>5. Sent(2)' = OtherSent(2)'
  BY <1>4 DEF Sent
<1>6. ToSave(2)' = CASE op = "add" -> 4 + 8 * count
                     [] op = "remove" -> 4 + 3 * count
                     [] op = "attach" -> 9
                     [] op = "show" -> 4
                     [] OTHER -> ToSave(2)'
  BY <1>1 DEF ToSave, UploadHeadroom
<1>7. CASE at = "tab"
  <2>1. op \in {"show", "add", "remove", "attach"}
    BY <1>0, <1>7, StepsAre
  <2>2. OtherSent(2) = 3
    BY <1>7 DEF OtherSent
  <2>3. OtherSent(2)' \in Nat /\ OtherSent(2)' >= 4
    <3>1. CASE at' = "save"
      <4>1. op = "show" /\ OtherSent(2)' = ToSave(2)'
        BY <1>3, <1>7, <3>1 DEF OtherSent
      <4> QED
        BY <1>1, <4>1 DEF ToSave
    <3>2. CASE at' = "upload"
      <4>1. OtherSent(2)' = 4 + 8 * uploaded'
        BY <3>2 DEF OtherSent, UploadHeadroom
      <4> QED
        BY <1>0, <4>1
    <3>3. CASE at' = "remove"
      <4>1. OtherSent(2)' = 5 + 3 * removed'
        BY <3>3 DEF OtherSent
      <4> QED
        BY <1>0, <4>1
    <3>4. CASE at' = "pickReceipt"
      <4>1. OtherSent(2)' = 4 + 3 * removed'
        BY <3>4 DEF OtherSent
      <4> QED
        BY <1>0, <4>1
    <3>5. CASE at' = "popup"
      BY <3>5 DEF OtherSent
    <3> QED
      BY <1>3, <1>7, <3>1, <3>2, <3>3, <3>4, <3>5
  <2> QED
    BY <1>2, <1>4, <1>5, <1>7, <2>2, <2>3
<1>8. CASE at = "upload"
  <2>1. op = "add"
    BY <1>0, <1>8, StepsAre
  <2>2. uploaded < count
    BY <1>0, <1>8, <2>1 DEF IInv, Going, ReceiptsOn, ReceiptsLeft
  <2>3. uploaded' = uploaded + 1
    BY <1>1, <1>8 DEF ReceiptsAccept
  <2>4. OtherSent(2) = 4 + 8 * uploaded
    BY <1>8 DEF OtherSent, UploadHeadroom
  <2>5. CASE at' = "upload"
    <3>1. OtherSent(2)' = 4 + 8 * (uploaded + 1)
      BY <2>3, <2>5 DEF OtherSent, UploadHeadroom
    <3> QED
      BY <1>0, <1>2, <1>4, <1>5, <1>8, <2>4, <3>1
  <2>6. CASE at' = "save"
    <3>1. OtherSent(2)' = 4 + 8 * count
      BY <1>6, <2>1, <2>6 DEF OtherSent
    <3> QED
      BY <1>0, <1>2, <1>4, <1>5, <1>8, <2>2, <2>4, <3>1
  <2> QED
    BY <1>3, <1>8, <2>5, <2>6
<1>9. CASE at = "pickReceipt"
  <2>1. op = "attach" => removed = 0
    BY DEF RoundsOK
  <2>2. removed' = removed
    BY <1>1, <1>9 DEF ReceiptsAccept, clientReceipts
  <2>3. OtherSent(2) = 4 + 3 * removed
    BY <1>9 DEF OtherSent
  <2>4. OtherSent(2)' = 5 + 3 * removed
    BY <1>0, <1>3, <1>9, <2>1, <2>2 DEF OtherSent
  <2> QED
    BY <1>0, <1>2, <1>4, <1>5, <1>9, <2>3, <2>4
<1>10. CASE at = "remove"
  <2>1. removed' = removed
    BY <1>1, <1>10 DEF ReceiptsAccept, clientReceipts
  <2>2. OtherSent(2) = 5 + 3 * removed
    BY <1>10 DEF OtherSent
  <2>3. OtherSent(2)' = 6 + 3 * removed
    BY <1>3, <1>10, <2>1 DEF OtherSent
  <2> QED
    BY <1>0, <1>2, <1>4, <1>5, <1>10, <2>2, <2>3
<1>11. CASE at = "yesRemove"
  <2>1. op = "remove"
    BY <1>0, <1>11, StepsAre
  <2>2. removed < count
    BY <1>11, <2>1 DEF RoundsOK
  <2>3. removed' = removed + 1
    BY <1>1, <1>11 DEF ReceiptsAccept
  <2>4. OtherSent(2) = 6 + 3 * removed
    BY <1>11 DEF OtherSent
  <2>5. CASE at' \in {"remove", "pickReceipt"}
    <3>1. OtherSent(2)' = (IF at' = "remove" THEN 5 ELSE 4) + 3 * (removed + 1)
      BY <2>3, <2>5 DEF OtherSent
    <3> QED
      BY <1>0, <1>2, <1>4, <1>5, <1>11, <2>4, <3>1
  <2>6. CASE at' = "save"
    <3>1. OtherSent(2)' = 4 + 3 * count
      BY <1>6, <2>1, <2>6 DEF OtherSent
    <3> QED
      BY <1>0, <1>2, <1>4, <1>5, <1>11, <2>2, <2>4, <3>1
  <2> QED
    BY <1>3, <1>11, <2>5, <2>6
<1>12. CASE at \in {"popup", "pickPopupLine", "attach", "closePopup"}
  <2>1. op = "attach"
    BY <1>0, <1>12, StepsAre
  <2>2. OtherSent(2) \in Nat /\ OtherSent(2)' \in Nat /\ OtherSent(2)' >= OtherSent(2) + 1
    BY <1>3, <1>6, <1>12, <2>1 DEF OtherSent
  <2>3. Weight(at, 2) = 1
    BY <1>2, <1>12
  <2> QED
    BY <1>2, <1>4, <1>5, <2>2, <2>3
<1> QED
  BY <1>3, <1>7, <1>8, <1>9, <1>10, <1>11, <1>12

-----------------------------------------------------------------------------
(* What is sent never comes to more than what was reserved.                *)

\* What itemizing a line takes, and what adding it does.
LEMMA LinesBound ==
  ASSUME LinesTypeOK, LinePlaces, LinesLive, at \in LinesSteps, NEW w \in {1, 2}
  PROVE  /\ LinesSent(w) \in Nat
         /\ op = "itemize" => LinesSent(w) + Weight(at, w) <= 6 + Total(RowCosts(Rows, w))
         /\ op = "new" => LinesSent(w) + Weight(at, w) <= Total(LineCosts(wanted, w))
<1>1. nth \in 1 .. Len(wanted) /\ op \in {"new", "itemize"} /\ (at \in ItemSteps => Rows # <<>>)
  BY DEF LinePlaces
<1>2. /\ Line.fields \in 3 .. 6 /\ Rows \in Seq(ItemRow) /\ LineSent(w) \in Nat
      /\ First(LineCosts(wanted, w), nth)
           = LineSent(w) + 2 + Line.fields
             + (IF Rows = <<>> THEN 0 ELSE 2 + Total(RowCosts(Rows, w)))
      /\ First(LineCosts(wanted, w), nth) <= Total(LineCosts(wanted, w))
      /\ Total(LineCosts(wanted, w)) \in Nat
  BY <1>1, WorkCosts
<1>3. /\ First(RowCosts(Rows, w), Len(Rows)) = Total(RowCosts(Rows, w))
      /\ \A n \in 0 .. Len(Rows) : First(RowCosts(Rows, w), n) \in Nat
      /\ \A n \in 1 .. Len(Rows) :
           /\ First(RowCosts(Rows, w), n)
                = First(RowCosts(Rows, w), n - 1) + 3 + w + (IF Rows[n].dated THEN 1 ELSE 0)
           /\ First(RowCosts(Rows, w), n) <= Total(RowCosts(Rows, w))
  BY <1>2, FirstRows
<1>4. Weight(at, w) = IF at = "subcategory" THEN w ELSE 1
  BY LinesWeight
<1>5. Opening(w) \in Nat /\ Total(RowCosts(Rows, w)) \in Nat
  <2>1. Len(Rows) \in 0 .. Len(Rows)
    BY <1>2
  <2>2. Total(RowCosts(Rows, w)) \in Nat
    BY <1>3, <2>1
  <2>3. Line.fields \in 3 .. 6 /\ LineSent(w) \in Nat
    BY <1>2
  <2>4. Opening(w) \in Nat
    BY <2>3 DEF Opening
  <2> QED
    BY <2>2, <2>4
<1>6. PICK t \in Nat, o \in Nat, s \in Nat, f \in 3 .. 6 :
        /\ t = Total(RowCosts(Rows, w)) /\ o = Opening(w) /\ s = LineSent(w) /\ f = Line.fields
  BY <1>2, <1>5
\* While the line is itemized.
<1>7. ASSUME at \in ItemSteps, LinesSent(w) \in Nat,
             LinesSent(w) + Weight(at, w) <= Opening(w) + 2 + Total(RowCosts(Rows, w))
      PROVE  /\ op = "itemize" => LinesSent(w) + Weight(at, w) <= 6 + Total(RowCosts(Rows, w))
             /\ op = "new" => LinesSent(w) + Weight(at, w) <= Total(LineCosts(wanted, w))
  <2>1. CASE op = "itemize"
    <3>1. Opening(w) = 4
      BY <2>1 DEF Opening
    <3> QED
      BY <1>6, <1>7, <2>1, <3>1
  <2>2. CASE op = "new"
    <3>1. o = s + f + 2
      BY <1>6, <2>2 DEF Opening
    <3>2. First(LineCosts(wanted, w), nth) = s + 2 + f + (2 + t)
      BY <1>1, <1>2, <1>6, <1>7
    <3>3. PICK x \in Nat, y \in Nat, z \in {1, 2} :
            x = LinesSent(w) /\ y = Total(LineCosts(wanted, w)) /\ z = Weight(at, w)
      BY <1>2, <1>4, <1>7
    <3>4. x + z <= o + 2 + t /\ s + 2 + f + (2 + t) <= y
      BY <1>2, <1>6, <1>7, <3>2, <3>3
    <3>5. x + z <= y
      BY <3>1, <3>4
    <3> QED
      BY <2>2, <3>3, <3>5
  <2> QED
    BY <1>1, <2>1, <2>2
<1>8. CASE at \in LineSteps
  <2>1. op = "new"
    BY <1>1, <1>8 DEF LinePlaces
  <2>2. /\ at \in {"field", "saveLine"} => field \in 1 .. f
        /\ at = "saveLine" => field = f
    BY <1>6 DEF LinePlaces
  <2>3. LinesSent(w) = IF at = "newLine" THEN s ELSE IF at = "field" THEN s + field ELSE s + f + 1
    BY <1>6, <1>8 DEF LinesSent, LineSteps
  <2>4. LinesSent(w) \in Nat /\ LinesSent(w) + 1 <= s + 2 + f
    BY <1>8, <2>2, <2>3 DEF LineSteps
  <2>5. PICK c \in Nat : c = IF Rows = <<>> THEN 0 ELSE 2 + t
    OBVIOUS
  <2>6. First(LineCosts(wanted, w), nth) = s + 2 + f + c
    BY <1>2, <1>6, <2>5
  <2>7. Weight(at, w) = 1
    BY <1>4, <1>8 DEF LineSteps
  <2>8. PICK x \in Nat, y \in Nat : x = LinesSent(w) /\ y = Total(LineCosts(wanted, w))
    BY <1>2, <2>4
  <2>9. x + 1 <= y
    <3>1. s + 2 + f + c <= y
      BY <1>2, <2>6, <2>8
    <3> QED
      BY <2>4, <2>8, <3>1
  <2> QED
    BY <2>1, <2>7, <2>8, <2>9
<1>9. CASE at = "pickLine"
  <2>1. op = "itemize"
    BY <1>1, <1>9 DEF LinePlaces
  <2>2. LinesSent(w) = 3 /\ Weight(at, w) = 1
    BY <1>4, <1>9 DEF LinesSent
  <2> QED
    BY <1>5, <2>1, <2>2
<1>10. CASE at \in {"lineMenu", "sheet"}
  <2>1. at \in ItemSteps /\ Weight(at, w) = 1
    BY <1>4, <1>10 DEF ItemSteps
  <2>2. LinesSent(w) = IF at = "lineMenu" THEN o ELSE o + 1
    BY <1>6, <1>10 DEF LinesSent
  <2>3. LinesSent(w) \in Nat /\ LinesSent(w) + 1 <= o + 2 + t
    BY <2>2
  <2> QED
    BY <1>6, <1>7, <2>1, <2>3
<1>11. CASE at \in SheetSteps
  <2>1. at \in ItemSteps /\ Len(sheet) \in 1 .. Len(Rows)
    BY <1>11 DEF ItemSteps, LinesLive, SheetOK
  <2>2. PICK n \in 1 .. Len(Rows) : n = Len(sheet)
    BY <2>1
  <2>3. n \in 0 .. Len(Rows) /\ n - 1 \in 0 .. Len(Rows)
    OBVIOUS
  <2>4. PICK base \in Nat, now \in Nat, d \in {0, 1} :
          /\ base = First(RowCosts(Rows, w), n - 1) /\ now = First(RowCosts(Rows, w), n)
          /\ d = (IF Rows[n].dated THEN 1 ELSE 0)
    BY <1>3, <2>3
  <2>5. now = base + 3 + w + d /\ now <= t
    BY <1>3, <1>6, <2>4
  <2>6. RowSent(w, n - 1) = o + base + 2 /\ RowSent(w, n) = o + now + 2
    BY <1>6, <2>4 DEF RowSent
  <2>7. w \in Nat /\ Len(sheet) - 1 = n - 1
    BY <2>2
  <2>8. LinesSent(w) \in Nat /\ LinesSent(w) + Weight(at, w) <= o + 2 + t
    <3>1. CASE at = "subcategory"
      <4>1. LinesSent(w) = RowSent(w, Len(sheet) - 1)
        BY <3>1 DEF LinesSent
      <4>2. LinesSent(w) = o + base + 2 /\ Weight(at, w) = w
        BY <1>4, <2>2, <2>4, <2>6, <2>7, <3>1, <4>1
      <4> QED
        BY <2>5, <2>7, <4>2
    <3>2. CASE at = "start"
      <4>1. LinesSent(w) = RowSent(w, Len(sheet) - 1) + w
        BY <3>2 DEF LinesSent
      <4>2. LinesSent(w) = o + base + 2 + w /\ Weight(at, w) = 1
        BY <1>4, <2>2, <2>4, <2>6, <2>7, <3>2, <4>1
      <4> QED
        BY <2>5, <2>7, <4>2
    <3>3. CASE at = "rate"
      <4>1. LinesSent(w) = RowSent(w, Len(sheet) - 1) + w + (IF Rows[Len(sheet)].dated THEN 1 ELSE 0)
        BY <3>3 DEF LinesSent
      <4>2. LinesSent(w) = o + base + 2 + w + d /\ Weight(at, w) = 1
        BY <1>4, <2>2, <2>4, <2>6, <2>7, <3>3, <4>1
      <4> QED
        BY <2>5, <2>7, <4>2
    <3>4. CASE at = "quantity"
      <4>1. LinesSent(w) = RowSent(w, Len(sheet) - 1) + w + 1 + (IF Rows[Len(sheet)].dated THEN 1 ELSE 0)
        BY <3>4 DEF LinesSent
      <4>2. LinesSent(w) = o + base + 2 + w + 1 + d /\ Weight(at, w) = 1
        BY <1>4, <2>2, <2>4, <2>6, <2>7, <3>4, <4>1
      <4> QED
        BY <2>5, <2>7, <4>2
    <3>5. CASE at \in {"newRow", "closeSheet"}
      <4>1. LinesSent(w) = RowSent(w, Len(sheet)) - 1
        BY <3>5 DEF LinesSent
      <4>2. LinesSent(w) = o + now + 2 - 1 /\ Weight(at, w) = 1
        BY <1>4, <2>2, <2>6, <3>5, <4>1
      <4> QED
        BY <2>5, <4>2
    <3> QED
      BY <1>11, <3>1, <3>2, <3>3, <3>4, <3>5 DEF SheetSteps, RowParts
  <2> QED
    BY <1>6, <1>7, <2>1, <2>8
<1> QED
  BY <1>8, <1>9, <1>10, <1>11 DEF LineSteps, SheetSteps, RowParts, LinesSteps

\* What itemizing one line of the report takes.
LEMMA ItemizeTotal ==
  ASSUME NEW items \in Seq(ItemRow), items # <<>>
  PROVE  LinesHeadroom(<<[key |-> OtherKey, fields |-> 3, rows |-> items]>>)
           = 7 + Total(RowCosts(items, 2))
<1> DEFINE list == <<[key |-> OtherKey, fields |-> 3, rows |-> items]>>
           c == 5 + ItemizeRequests(items) + Len(items)
           f == [i \in 1 .. 1 |-> c]
<1>1. ItemizeRequests(items) \in Nat /\ Len(items) \in Nat
      /\ 2 + Total(RowCosts(items, 2)) = ItemizeRequests(items) + Len(items)
  BY RequestsAre
<1>2. DOMAIN list = 1 .. 1 /\ list[1].fields = 3 /\ list[1].rows = items
  OBVIOUS
<1>3. \A i \in DOMAIN list : LineRequestCount(list[i]) + Len(list[i].rows) = c
  <2> SUFFICES ASSUME NEW i \in DOMAIN list
               PROVE  LineRequestCount(list[i]) + Len(list[i].rows) = c
    OBVIOUS
  <2>1. i = 1
    BY <1>2
  <2>2. LineRequestCount(list[i]) = 2 + 3 + ItemizeRequests(items) /\ Len(list[i].rows) = Len(items)
    BY <1>2, <2>1 DEF LineRequestCount
  <2> QED
    BY <1>1, <2>2
<1>4. LinesHeadroom(list) = Total(f)
  BY <1>2, <1>3 DEF LinesHeadroom
<1>5. c \in Nat
  BY <1>1
<1> HIDE DEF c
<1>6. f \in [1 .. 1 -> Nat] /\ f[1] = c
  BY <1>5
<1> HIDE DEF f
<1>7. f \in Seq(Nat) /\ Len(f) = 1
  BY <1>6, SeqIntro
<1>8. <<>> \in Seq(Nat) /\ Len(<<>>) = 0
  OBVIOUS
<1>9. Total(f) = Total(<<>>) + f[Len(f)]
  <2>1. Len(f) = Len(<<>>) + 1 /\ \A i \in 1 .. Len(<<>>) : <<>>[i] = f[i]
    BY <1>7, <1>8
  <2> QED
    BY <1>7, <1>8, <2>1, TotalStep
<1>10. Total(f) = c
  BY <1>5, <1>6, <1>7, <1>9, TotalEmpty
<1>11. Total(RowCosts(items, 2)) \in Nat
  <2>1. Len(items) \in 0 .. Len(items)
    BY <1>1
  <2> QED
    BY <2>1, FirstRows
<1> QED
  BY <1>1, <1>4, <1>10, <1>11 DEF c

\* What was reserved, and what is sent before the last request.
LEMMA Reserved ==
  ASSUME IInv
  PROVE  /\ Headroom \in Nat /\ HeaderHeadroom \in Nat /\ count \in Nat
         /\ ToSave(2) \in Nat /\ ToSave(2) + 1 <= Headroom
         /\ op \in {"show", "submit"} => Headroom = 7
         /\ op = "edit"    => Headroom = 7 + HeaderHeadroom
         /\ op = "itemize" => Headroom = 14 + Total(RowCosts(Rows, 2))
         /\ op = "delete"  => Headroom = 5
         /\ op = "add"     => Headroom = 12 + 8 * count
         /\ op = "remove"  => Headroom = 9 + 4 * count
         /\ op = "attach"  => Headroom = 15
         /\ op = "new"     => Headroom = HeaderShare(2) + Total(LineCosts(wanted, 2)) + 1
<1>1. op \in Ops /\ count \in Nat /\ HeaderTypeOK /\ LinesTypeOK /\ LinePlaces
  BY DEF IInv, Sound, WayInv, Typed, ReceiptsTypeOK, HeaderOn, LinesInv
<1>2. HeaderHeadroom \in Nat /\ HeaderShare(2) \in Nat
  BY <1>1, ShareIs
<1>3. CASE op \in {"show", "edit", "submit", "delete", "add", "remove", "attach"}
  <2>1. CASE op = "show"
    BY <1>1, <1>2, <2>1 DEF Headroom, ToSave, ExistingHeadroom, OpenRequestCount
  <2>2. CASE op = "submit"
    BY <1>1, <1>2, <2>2 DEF Headroom, ToSave, ExistingHeadroom, OpenRequestCount
  <2>3. CASE op = "edit"
    BY <1>1, <1>2, <2>3 DEF Headroom, ToSave, ExistingHeadroom, OpenRequestCount
  <2>4. CASE op = "delete"
    BY <1>1, <1>2, <2>4 DEF Headroom, ToSave, ExistingHeadroom, OpenRequestCount, DeleteRequestCount
  <2>5. CASE op = "add"
    BY <1>1, <1>2, <2>5 DEF Headroom, ToSave, ExistingHeadroom, OpenRequestCount, AdditionHeadroom, UploadHeadroom
  <2>6. CASE op = "remove"
    BY <1>1, <1>2, <2>6 DEF Headroom, ToSave, ExistingHeadroom, OpenRequestCount, RemovalHeadroom
  <2>7. CASE op = "attach"
    BY <1>1, <1>2, <2>7 DEF Headroom, ToSave, ExistingHeadroom, OpenRequestCount, AttachmentHeadroom
  <2> QED
    BY <1>3, <2>1, <2>2, <2>3, <2>4, <2>5, <2>6, <2>7
<1>4. CASE op = "itemize"
  <2>1. Len(wanted) = 1 /\ nth = 1 /\ wanted[1].rows # <<>>
    BY <1>1, <1>4 DEF LinePlaces
  <2>2. nth \in 1 .. Len(wanted) /\ Rows # <<>>
    BY <2>1 DEF Rows, Line
  <2>3. Rows \in Seq(ItemRow)
    BY <1>1, <2>2, WorkCosts
  <2>4. ItemizeHeadroom = 7 + Total(RowCosts(Rows, 2))
    BY <2>2, <2>3, ItemizeTotal DEF ItemizeHeadroom
  <2>5. Headroom = 7 + ItemizeHeadroom
    BY <1>4 DEF Headroom, ExistingHeadroom, OpenRequestCount
  <2>6. ToSave(2) = 6 + First(RowCosts(Rows, 2), Len(Rows))
    BY <1>4 DEF ToSave
  <2>7. First(RowCosts(Rows, 2), Len(Rows)) = Total(RowCosts(Rows, 2))
        /\ Total(RowCosts(Rows, 2)) \in Nat
    <3>1. Len(Rows) \in 0 .. Len(Rows)
      BY <2>3
    <3> QED
      BY <2>3, <3>1, FirstRows
  <2> QED
    BY <1>1, <1>2, <1>4, <2>4, <2>5, <2>6, <2>7
<1>5. CASE op = "new"
  <2>1. wanted \in Seq(LineInput) /\ Len(wanted) \in 0 .. Len(wanted)
    BY <1>1 DEF LinesTypeOK
  <2>2. /\ First(LineCosts(wanted, 2), Len(wanted)) = Total(LineCosts(wanted, 2))
        /\ Total(LineCosts(wanted, 2)) \in Nat
    BY <2>1, FirstLines
  <2>3. LinesHeadroom(wanted) = Total(LineCosts(wanted, 2))
    BY <2>1, LinesTotals
  <2>4. ToSave(2) = HeaderShare(2) + First(LineCosts(wanted, 2), Len(wanted))
    BY <1>5 DEF ToSave
  <2>5. HeaderShare(2) = IF HasHeader THEN HeaderHeadroom ELSE 0
    BY <1>5 DEF HeaderShare
  <2>6. Headroom = (IF HasHeader THEN HeaderHeadroom ELSE 0) + LinesHeadroom(wanted) + 1
    BY <1>5 DEF Headroom
  <2>7. Headroom = HeaderShare(2) + Total(LineCosts(wanted, 2)) + 1
    BY <2>3, <2>5, <2>6
  <2> QED
    BY <1>1, <1>2, <1>5, <2>2, <2>4, <2>7
<1> QED
  BY <1>1, <1>3, <1>4, <1>5 DEF Ops

\* Every request still fits.
LEMMA RequestFits ==
  ASSUME IInv, FieldsLeft, RoundsOK, Live, at \in Steps
  PROVE  Sent(2) \in Nat /\ Sent(2) + Weight(at, 2) <= Headroom
<1>1. /\ Sound /\ op \in Ops /\ at \in StepsOf(op) \cup {"done"}
      /\ HeaderTypeOK /\ LinesTypeOK /\ LinePlaces /\ LinesLive
      /\ removed \in Nat /\ uploaded \in Nat
  BY DEF IInv, Sound, WayInv, Typed, ReceiptsTypeOK, HeaderOn, LinesInv
<1>2. /\ Headroom \in Nat /\ HeaderHeadroom \in Nat /\ count \in Nat
      /\ ToSave(2) \in Nat /\ ToSave(2) + 1 <= Headroom
      /\ op \in {"show", "submit"} => Headroom = 7
      /\ op = "edit"    => Headroom = 7 + HeaderHeadroom
      /\ op = "itemize" => Headroom = 14 + Total(RowCosts(Rows, 2))
      /\ op = "delete"  => Headroom = 5
      /\ op = "add"     => Headroom = 12 + 8 * count
      /\ op = "remove"  => Headroom = 9 + 4 * count
      /\ op = "attach"  => Headroom = 15
      /\ op = "new"     => Headroom = HeaderShare(2) + Total(LineCosts(wanted, 2)) + 1
  BY Reserved
<1>3. CASE at \in HeaderSteps
  <2>1. op \in {"edit", "new"}
    BY <1>1, <1>3, StepsAre
  <2>2. Sent(2) = (IF op = "edit" THEN 3 ELSE 0) + HeaderUsed(at, Len(view), keep, dialogs)
    BY <1>3 DEF Sent, HeaderSent
  <2>3. /\ Weight(at, 2) \in 1 .. 2 /\ (Weight(at, 2) = 2 => at \in {"final", "resolve"})
    BY <1>3, Weights DEF Weight
  <2>4. PICK c \in 0 .. MaxApprovers, k \in Nat, open \in 0 .. 2 :
          c = Len(view) /\ k = keep /\ open = dialogs
    <3>1. view \in Seq(Row) /\ Len(view) <= MaxApprovers /\ keep \in Nat /\ dialogs \in 0 .. 2
      BY <1>1 DEF HeaderTypeOK
    <3> QED
      BY <3>1, HeaderAssumption
  <2>5. HeaderUsed(at, c, k, open) \in Nat
        /\ HeaderUsed(at, c, k, open) + Weight(at, 2) <= HeaderHeadroom
    <3>1. MaxApprovers \in Nat \ {0}
      BY HeaderAssumption
    <3>2. RowsUsed(c, k) \in Nat /\ RowsUsed(c, k) <= 7 * MaxApprovers
      BY <3>1 DEF RowsUsed
    <3>3. HeaderUsed(at, c, k, open) \in Nat
          /\ HeaderUsed(at, c, k, open) + 2 <= 16 + 12 * MaxApprovers
      BY <1>3, <3>1, <3>2 DEF HeaderUsed, HeaderSteps
    <3> QED
      BY <2>3, <3>1, <3>3 DEF HeaderHeadroom
  <2>6. CASE op = "edit"
    BY <1>2, <2>2, <2>3, <2>4, <2>5, <2>6
  <2>7. CASE op = "new"
    <3>1. HasHeader
      BY <1>3, <2>7 DEF FieldsLeft
    <3>2. HeaderShare(2) = HeaderHeadroom
      BY <2>7, <3>1 DEF HeaderShare
    <3>3. Total(LineCosts(wanted, 2)) \in Nat
      <4>1. wanted \in Seq(LineInput) /\ Len(wanted) \in 0 .. Len(wanted)
        BY <1>1 DEF LinesTypeOK
      <4> QED
        BY <4>1, FirstLines
    <3> QED
      BY <1>2, <2>2, <2>3, <2>4, <2>5, <2>7, <3>2, <3>3
  <2> QED
    BY <2>1, <2>6, <2>7
<1>4. CASE at \in LinesSteps
  <2>1. op \in {"itemize", "new"} /\ at \notin HeaderSteps
    BY <1>1, <1>4, StepsAre, StepsApart
  <2>2. Sent(2) = HeaderShare(2) + LinesSent(2)
    BY <1>4, <2>1 DEF Sent
  <2>3. /\ LinesSent(2) \in Nat
        /\ op = "itemize" => LinesSent(2) + Weight(at, 2) <= 6 + Total(RowCosts(Rows, 2))
        /\ op = "new" => LinesSent(2) + Weight(at, 2) <= Total(LineCosts(wanted, 2))
    BY <1>1, <1>4, LinesBound
  <2>4. HeaderShare(2) \in Nat /\ Weight(at, 2) \in Nat
    BY <1>1, ShareIs, Weights
  <2>5. PICK x \in Nat, z \in Nat, h \in Nat :
          x = LinesSent(2) /\ z = Weight(at, 2) /\ h = HeaderShare(2)
    BY <2>3, <2>4
  <2>6. nth \in 1 .. Len(wanted)
    BY <1>1, <1>4 DEF LinePlaces
  <2>7. CASE op = "itemize"
    <3>1. HeaderShare(2) = 0
      BY <2>7 DEF HeaderShare
    <3>2. Rows \in Seq(ItemRow) /\ Len(Rows) \in 0 .. Len(Rows)
      BY <1>1, <2>6, WorkCosts
    <3>3. Total(RowCosts(Rows, 2)) \in Nat
      BY <3>2, FirstRows
    <3> QED
      BY <1>2, <2>2, <2>3, <2>5, <2>7, <3>1, <3>3
  <2>8. CASE op = "new"
    <3>1. Total(LineCosts(wanted, 2)) \in Nat
      BY <1>1, <2>6, WorkCosts
    <3> QED
      BY <1>2, <2>2, <2>3, <2>5, <2>8, <3>1
  <2> QED
    BY <2>1, <2>7, <2>8
<1>5. CASE at \in GridSteps \cup ReceiptSteps
  <2>1. Sent(2) = OtherSent(2) /\ Weight(at, 2) = (IF at = "upload" THEN 8 ELSE 1)
    BY <1>1, <1>5, OtherIs
  <2>2. /\ at \in OpenSteps => op # "new"
        /\ at = "link" => op \notin {"new", "delete"}
        /\ at \in {"submit", "resubmitted"} => op = "submit"
        /\ at \in {"mark", "delete", "yes", "gone"} => op = "delete"
        /\ at = "tab" => op \in {"show", "add", "remove", "attach"}
        /\ at = "upload" => op = "add"
        /\ at = "pickReceipt" => op \in {"remove", "attach"}
        /\ at \in {"remove", "yesRemove"} => op = "remove"
        /\ at \in {"popup", "pickPopupLine", "attach", "closePopup"} => op = "attach"
    BY <1>1, StepsAre
  <2>3. CASE at \in {"refresh", "activate", "link", "mark", "delete", "yes", "gone", "submit",
                     "resubmitted", "tab"}
    <3>1. OtherSent(2) \in 0 .. 4
      BY <2>3 DEF OtherSent
    <3>2. Headroom >= 5
      <4>1. op \in Ops /\ (op = "new" => at \notin OpenSteps)
        BY <1>1, <2>2
      <4>2. op # "new"
        BY <1>1, <2>2, <2>3 DEF OpenSteps
      <4>3. CASE op = "itemize"
        <5>1. nth \in 1 .. Len(wanted)
          BY <1>1, <4>3 DEF LinePlaces
        <5>2. Rows \in Seq(ItemRow) /\ Len(Rows) \in 0 .. Len(Rows)
          BY <1>1, <5>1, WorkCosts
        <5>3. Total(RowCosts(Rows, 2)) \in Nat
          BY <5>2, FirstRows
        <5> QED
          BY <1>2, <4>3, <5>3
      <4> QED
        BY <1>2, <4>1, <4>2, <4>3 DEF Ops
    <3> QED
      BY <1>2, <2>1, <2>3, <3>1, <3>2
  <2>4. CASE at = "upload"
    <3>1. op = "add" /\ uploaded < count
      BY <2>2, <2>4 DEF IInv, Going, ReceiptsOn, ReceiptsLeft
    <3>2. OtherSent(2) = 4 + 8 * uploaded
      BY <2>4 DEF OtherSent, UploadHeadroom
    <3> QED
      BY <1>1, <1>2, <2>1, <2>4, <3>1, <3>2
  <2>5. CASE at \in {"pickReceipt", "remove", "yesRemove"}
    <3>1. \/ op = "remove" /\ removed < count
          \/ op = "attach" /\ removed = 0 /\ at = "pickReceipt"
      BY <2>2, <2>5 DEF RoundsOK
    <3>2. OtherSent(2) \in Nat /\ OtherSent(2) <= 6 + 3 * removed
          /\ (at = "pickReceipt" => OtherSent(2) = 4 + 3 * removed)
      BY <1>1, <2>5 DEF OtherSent
    <3> QED
      BY <1>1, <1>2, <2>1, <2>5, <3>1, <3>2
  <2>6. CASE at \in {"popup", "pickPopupLine", "attach", "closePopup"}
    <3>1. op = "attach"
      BY <2>2, <2>6
    <3>2. OtherSent(2) \in 5 .. 8
      BY <2>6 DEF OtherSent
    <3> QED
      BY <1>2, <2>1, <2>6, <3>1, <3>2
  <2>7. CASE at = "save"
    <3>1. OtherSent(2) = ToSave(2)
      BY <2>7 DEF OtherSent
    <3> QED
      BY <1>2, <2>1, <2>7, <3>1
  <2> QED
    BY <1>5, <2>3, <2>4, <2>5, <2>6, <2>7 DEF GridSteps, ReceiptSteps
<1> QED
  BY <1>3, <1>4, <1>5 DEF Steps

-----------------------------------------------------------------------------
(* The numbers, throughout.                                                *)

\* What was sent, as far as an answer or a request leaves it alone.
LEMMA HeadroomStays ==
  ASSUME LinePlaces, LinePlaces', UNCHANGED <<op, header, wanted, count>>
  PROVE  Headroom' = Headroom
<1>1. HasHeader' = HasHeader /\ HeaderHeadroom' = HeaderHeadroom
  BY DEF HasHeader, HeaderHeadroom
<1>2. op = "itemize" => Rows' = Rows
  BY DEF LinePlaces, Rows, Line
<1>3. op = "itemize" => ItemizeHeadroom' = ItemizeHeadroom
  BY <1>2 DEF ItemizeHeadroom
<1>4. /\ LinesHeadroom(wanted)' = LinesHeadroom(wanted)
      /\ AdditionHeadroom' = AdditionHeadroom /\ RemovalHeadroom' = RemovalHeadroom
      /\ AttachmentHeadroom' = AttachmentHeadroom
  BY DEF LinesHeadroom, LinesRequestCount, AdditionHeadroom, RemovalHeadroom, AttachmentHeadroom
<1> QED
  BY <1>1, <1>3, <1>4 DEF Headroom

LEMMA SentStays ==
  ASSUME UNCHANGED <<op, at, headerVars, linesVars, receiptVars>>, NEW w \in {1, 2}
  PROVE  /\ Sent(w)' = Sent(w) /\ Weight(at, w)' = Weight(at, w)
         /\ (Counted' <=> Counted)
<1>1. UNCHANGED <<header, view, keep, dialogs, current, wanted, nth, field, sheet, uploaded, removed, count>>
  BY DEF headerVars, clientHeader, dynamicsHeader, linesVars, clientLines, dynamicsLines,
     receiptVars, clientReceipts, dynamicsReceipts
<1>2. HeaderSent(w)' = HeaderSent(w)
  BY <1>1 DEF HeaderSent
<1>3. HeaderShare(w)' = HeaderShare(w)
  BY <1>1 DEF HeaderShare, HasHeader
<1>4. Line' = Line /\ Rows' = Rows /\ LineSent(w)' = LineSent(w) /\ Opening(w)' = Opening(w)
      /\ \A n : RowSent(w, n)' = RowSent(w, n)
  BY <1>1, SumsStay
<1>5. LinesSent(w)' = LinesSent(w)
  <2>1. RowSent(w, Len(sheet) - 1)' = RowSent(w, Len(sheet) - 1)
        /\ RowSent(w, Len(sheet))' = RowSent(w, Len(sheet))
    BY <1>1, <1>4 DEF RowSent
  <2> QED
    BY <1>1, <1>4, <2>1 DEF LinesSent
<1>6. OtherSent(w)' = OtherSent(w)
  <2>1. ToSave(w)' = ToSave(w)
    BY <1>1, <1>3, <1>4 DEF ToSave
  <2> QED
    BY <1>1, <2>1 DEF OtherSent
<1>7. Sent(w)' = Sent(w)
  BY <1>2, <1>3, <1>5, <1>6 DEF Sent
<1>8. Weight(at, w)' = Weight(at, w)
  <2>1. Name' = Name
    BY <1>1 DEF Name
  <2>2. Messages(at)' = Messages(at)
    BY <2>1 DEF Messages, HeaderMessages
  <2> QED
    BY <2>2 DEF Weight
<1>9. Counted' <=> Counted
  BY <1>1 DEF Counted, HasHeader
<1> QED
  BY <1>7, <1>8, <1>9

\* What an accepted answer adds.
LEMMA StepSum ==
  ASSUME IInv, IInv', FieldsLeft, FieldsLeft', RoundsOK, Accept, at' # "done",
         NEW w \in {1, 2}, w = 2 \/ op \in {"new", "delete"}
  PROVE  /\ Sent(w) \in Nat /\ Sent(w)' \in Nat /\ Weight(at, w) \in Nat
         /\ Sent(w)' >= Sent(w) + Weight(at, w)
         /\ Counted => Sent(w)' = Sent(w) + Weight(at, w)
<1>1. /\ Sound /\ Sound' /\ op \in Ops /\ at \in StepsOf(op) \cup {"done"} /\ Weight(at, w) \in Nat
      /\ LinesInv /\ LinesInv' /\ HeaderTypeOK
  BY Weights DEF IInv, Sound, WayInv, HeaderOn
<1>2. CASE at \in GridSteps
  <2>1. op = "new" => at \notin GridSteps \/ at = "save"
    BY <1>1, <1>2 DEF StepsOf, GridSteps, HeaderSteps, LinesSteps
  <2>2. at = "save" => at' = "done"
    <3>1. at \in GridSteps => GridAccept(op = "delete", AfterOpen)
      BY <1>2, StepsApart DEF Accept
    <3> QED
      BY <1>2, <3>1, GridLeadsOn DEF GridAccept, Proceed
  <2>3. Counted => op = "delete"
    BY <1>2, <2>1, <2>2 DEF Counted
  <2> QED
    BY <1>1, <1>2, <2>3, GridSum
<1>3. CASE at \in HeaderSteps
  <2>1. ~Counted
    BY <1>1, <1>3, StepsAre DEF Counted, FieldsLeft
  <2> QED
    BY <1>1, <1>3, <2>1, HeaderSum
<1>4. CASE at \in LinesSteps
  <2>1. Sent(w)' = Sent(w) + Weight(at, w)
    BY <1>1, <1>4, LinesSum
  <2>2. LinesTypeOK /\ LinePlaces /\ LinesLive
    BY <1>1, <1>4, AcceptedLines
  <2>3. LinesSent(w) \in Nat /\ HeaderShare(w) \in Nat
    BY <1>1, <1>4, <2>2, LinesBound, ShareIs
  <2>4. Sent(w) = HeaderShare(w) + LinesSent(w)
    BY <1>4, StepsApart DEF Sent
  <2>5. Sent(w) \in Nat
    BY <2>3, <2>4
  <2> QED
    BY <1>1, <2>1, <2>5
<1>5. CASE at \in ReceiptSteps
  <2>1. op \in {"show", "add", "remove", "attach"}
    BY <1>1, <1>5, StepsAre DEF ReceiptSteps
  <2>2. w = 2 /\ ~Counted
    BY <2>1 DEF Counted
  <2> QED
    BY <1>1, <1>5, <2>2, ReceiptsSum
<1> QED
  BY <1>2, <1>3, <1>4, <1>5 DEF Accept

\* The last request makes the plan of what was sent.
LEMMA LastRequest ==
  ASSUME IInv, FieldsLeft, Accept, at' = "done", NumbersInv
  PROVE  PlanIsExact'
<1>1. /\ Sound /\ op \in Ops /\ at \in StepsOf(op) \cup {"done"} /\ requests \in Nat
      /\ HeaderTypeOK /\ LinesInv /\ LinesTypeOK
  BY DEF IInv, Sound, WayInv, HeaderOn, LinesInv
<1>2. UNCHANGED <<op, requests>> /\ verdict = "pending" /\ posted # "none" /\ at \in Steps
  <2>1. posted # "none" /\ at \in Steps
    BY DEF Accept, Waiting, Steps
  <2> QED
    BY <2>1, AcceptLeads
<1>3. at \notin HeaderSteps /\ at \notin LinesSteps
  <2>1. at \in HeaderSteps => at' \in HeaderSteps \cup {AfterHeader}
    BY StepsApart, HeaderProceeds DEF Accept, Proceed
  <2>2. AfterHeader # "done" /\ "done" \notin HeaderSteps
    BY DEF AfterHeader, ToLines, HeaderSteps
  <2>3. at \in LinesSteps => at' \in LinesSteps \cup {"save"}
    BY StepsApart, LinesProceed DEF Accept, Proceed
  <2>4. "done" \notin LinesSteps
    BY DEF LinesSteps
  <2> QED
    BY <2>1, <2>2, <2>3, <2>4
<1>4. UNCHANGED <<header, wanted>> /\ HasHeader' = HasHeader
  <2>1. UNCHANGED <<clientHeader, clientLines>>
    BY <1>3 DEF Accept
  <2> QED
    BY <2>1 DEF clientHeader, clientLines, HasHeader
<1>5. Asking(1) = 1 /\ Sent(1) = OtherSent(1)
  <2>1. at \in GridSteps \cup ReceiptSteps
    BY <1>2, <1>3 DEF Steps
  <2> QED
    BY <1>1, <1>2, <2>1, OtherIs DEF Asking
<1>6. /\ op \in {"new", "delete"} => requests <= Sent(1) + 1
      /\ Counted => requests = Sent(1) + 1
  BY <1>2, <1>5 DEF NumbersInv, Pending
<1>7. ASSUME op = "delete" PROVE requests = DeleteRequestCount
  <2>1. at = "gone"
    <3>1. at \in {"refresh", "mark", "delete", "yes", "gone"}
      BY <1>1, <1>2, <1>7 DEF StepsOf, Steps, GridSteps, HeaderSteps, LinesSteps, ReceiptSteps
    <3>2. at \in GridSteps /\ GridAccept(op = "delete", AfterOpen)
      <4>1. at \in GridSteps
        BY <3>1 DEF GridSteps
      <4> QED
        BY <4>1, StepsApart DEF Accept
    <3>3. at \in {"refresh", "mark", "delete", "yes"} => at' # "done"
      BY <1>7, <3>1, <3>2, GridLeadsOn
    <3> QED
      BY <3>1, <3>3
  <2>2. OtherSent(1) = 4
    BY <2>1 DEF OtherSent
  <2> QED
    BY <1>5, <1>6, <1>7, <2>2 DEF Counted, DeleteRequestCount
<1>8. ASSUME op = "new"
      PROVE  /\ HasHeader => requests <= HeaderRequestCount(header) + LinesRequestCount(wanted) + 1
             /\ ~HasHeader => requests = LinesRequestCount(wanted) + 1
  <2>1. at = "save"
    <3>1. at \in HeaderSteps \cup LinesSteps \cup {"save", "done"}
      BY <1>1, <1>8 DEF StepsOf
    <3>2. at # "done"
      BY <1>2 DEF Steps, GridSteps, HeaderSteps, LinesSteps, ReceiptSteps
    <3> QED
      BY <1>3, <3>1, <3>2
  <2>2. wanted \in Seq(LineInput) /\ Len(wanted) \in 0 .. Len(wanted)
    BY <1>1 DEF LinesTypeOK
  <2>3. /\ First(LineCosts(wanted, 1), Len(wanted)) = LinesRequestCount(wanted)
        /\ LinesRequestCount(wanted) \in Nat
    <3>1. /\ First(LineCosts(wanted, 1), Len(wanted)) = Total(LineCosts(wanted, 1))
          /\ First(LineCosts(wanted, 1), Len(wanted)) \in Nat
      BY <2>2, FirstLines
    <3>2. LinesRequestCount(wanted) = Total(LineCosts(wanted, 1))
      BY <2>2, LinesTotals
    <3> QED
      BY <3>1, <3>2
  <2>4. OtherSent(1) = HeaderShare(1) + LinesRequestCount(wanted)
    <3>1. OtherSent(1) = ToSave(1)
      BY <2>1 DEF OtherSent
    <3> QED
      BY <1>8, <2>3, <3>1 DEF ToSave
  <2>5. HeaderShare(1) = IF HasHeader THEN HeaderRequestCount(header) ELSE 0
    BY <1>8 DEF HeaderShare
  <2>6. HeaderRequestCount(header) \in Nat
    BY <1>1, ShareIs
  <2> QED
    BY <1>1, <1>5, <1>6, <1>8, <2>3, <2>4, <2>5, <2>6 DEF Counted
<1>9. /\ (HeaderRequestCount(header))' = HeaderRequestCount(header)
      /\ (LinesRequestCount(wanted))' = LinesRequestCount(wanted)
  BY <1>4 DEF HeaderRequestCount, LinesRequestCount
<1> QED
  BY <1>2, <1>4, <1>7, <1>8, <1>9 DEF PlanIsExact

LEMMA PlanStays ==
  ASSUME UNCHANGED <<op, header, wanted>>,
         verdict' # "nil" \/ (UNCHANGED <<verdict, requests>> /\ PlanIsExact)
  PROVE  PlanIsExact'
<1>1. HasHeader' = HasHeader
      /\ (HeaderRequestCount(header))' = HeaderRequestCount(header)
      /\ (LinesRequestCount(wanted))' = LinesRequestCount(wanted)
  BY DEF HasHeader, HeaderRequestCount, LinesRequestCount
<1> QED
  BY <1>1 DEF PlanIsExact

\* What the requests of a plan come to is a number.
LEMMA SentIs ==
  ASSUME IInv, Live, at \in Steps, op \in {"new", "delete"}
  PROVE  Sent(1) \in Nat
<1>1. /\ Sound /\ at \in StepsOf(op) \cup {"done"} /\ HeaderTypeOK
      /\ LinesTypeOK /\ LinePlaces /\ LinesLive
  BY DEF IInv, Sound, WayInv, HeaderOn, LinesInv
<1>2. HeaderShare(1) \in Nat
  BY <1>1, ShareIs
<1>3. CASE at \in HeaderSteps
  <2>1. /\ Len(view) \in 0 .. MaxApprovers /\ keep \in Nat /\ dialogs \in 0 .. 2
        /\ Cardinality(header.fields) \in Nat /\ Len(header.names) \in Nat
    <3>1. header.fields \subseteq Fields
      BY <1>1 DEF HeaderTypeOK, HeaderInput
    <3>2. Cardinality(header.fields) \in Nat /\ Len(header.names) \in Nat
      BY <1>1, <3>1, ShareIs, FieldCounts
    <3>3. view \in Seq(Row) /\ Len(view) <= MaxApprovers /\ keep \in Nat /\ dialogs \in 0 .. 2
      BY <1>1 DEF HeaderTypeOK
    <3> QED
      BY <3>2, <3>3, HeaderAssumption
  <2>2. HeaderSent(1) \in Nat
    BY <1>3, <2>1, HeaderCountsAre DEF HeaderSent
  <2> QED
    BY <1>3, <2>2 DEF Sent
<1>4. CASE at \in LinesSteps
  <2>1. LinesSent(1) \in Nat
    BY <1>1, <1>4, LinesBound
  <2> QED
    BY <1>2, <1>4, <2>1, StepsApart DEF Sent
<1>5. CASE at \in GridSteps \cup ReceiptSteps
  <2>1. at \in {"refresh", "mark", "delete", "yes", "gone"} \/ (at = "save" /\ op = "new")
    <3>1. at \notin HeaderSteps /\ at \notin LinesSteps /\ at # "done"
      BY <1>1, <1>5, OtherIs
    <3> QED
      BY <1>1, <3>1 DEF StepsOf
  <2>2. ASSUME op = "new" PROVE ToSave(1) \in Nat
    <3>1. wanted \in Seq(LineInput) /\ Len(wanted) \in 0 .. Len(wanted)
      BY <1>1 DEF LinesTypeOK
    <3>2. First(LineCosts(wanted, 1), Len(wanted)) \in Nat
      BY <3>1, FirstLines
    <3> QED
      BY <1>2, <2>2, <3>2 DEF ToSave
  <2>3. OtherSent(1) \in Nat
    BY <2>1, <2>2 DEF OtherSent
  <2> QED
    BY <1>1, <1>5, <2>3, OtherIs
<1> QED
  BY <1>3, <1>4, <1>5 DEF Steps

LEMMA NextNumbers ==
  ASSUME IInv, IInv', FieldsLeft, FieldsLeft', RoundsOK, NumbersInv, [Next]_vars
  PROVE  NumbersInv'
<1>1. /\ LinePlaces /\ LinePlaces' /\ used \in Nat /\ requests \in Nat /\ posted \in {"none", at}
      /\ HeaderTypeOK
  BY DEF IInv, Sound, LinesInv, WayInv, HeaderOn
<1>2. UNCHANGED <<op, header, wanted, count>>
  <2>1. CASE Accept
    <3>1. UNCHANGED <<op, header>>
      BY <2>1, AcceptedIs DEF Accept
    <3>2. UNCHANGED wanted
      <4>1. at \in LinesSteps => UNCHANGED wanted
        BY <2>1, AcceptedLines DEF IInv, Sound
      <4> QED
        BY <2>1, <4>1 DEF Accept, clientLines
    <3>3. UNCHANGED count
      <4>1. \A o, exit : ReceiptsAccept(o, exit) => UNCHANGED count
        BY DEF ReceiptsAccept, clientReceipts
      <4> QED
        BY <2>1, <4>1 DEF Accept, clientReceipts
    <3> QED
      BY <3>1, <3>2, <3>3
  <2>2. CASE ~Accept
    BY <2>2 DEF Next, Stop, Post, Reject, GiveUp, LateEffect, Abandon, vars, exchangeVars,
       headerVars, clientHeader, linesVars, clientLines, receiptVars, clientReceipts
  <2> QED
    BY <2>1, <2>2
<1>3. Headroom' = Headroom /\ Headroom \in Nat
  BY <1>1, <1>2, HeadroomStays, Reserved
<1>4. CASE Accept
  <2>1. /\ posted' = "none" /\ UNCHANGED <<used, requests>> /\ verdict = "pending"
        /\ verdict' = IF at' = "done" THEN "nil" ELSE verdict
    BY <1>4, AcceptLeads
  <2>2. posted # "none" /\ Pending
    BY <1>4 DEF Accept, Waiting
  <2>3. CASE at' = "done"
    <3>1. PlanIsExact' /\ ~Pending'
      BY <1>4, <2>1, <2>3, LastRequest DEF Pending
    <3> QED
      BY <1>3, <2>1, <3>1 DEF NumbersInv
  <2>4. CASE at' # "done"
    <3>1. /\ Sent(2) \in Nat /\ Sent(2)' \in Nat /\ Weight(at, 2) \in Nat
          /\ Sent(2)' >= Sent(2) + Weight(at, 2)
      BY <1>4, <2>4, StepSum
    <3>2. op \in {"new", "delete"} =>
            /\ Sent(1) \in Nat /\ Sent(1)' \in Nat /\ Weight(at, 1) \in Nat
            /\ Sent(1)' >= Sent(1) + Weight(at, 1)
            /\ Counted => Sent(1)' = Sent(1) + Weight(at, 1)
      BY <1>4, <2>4, StepSum
    <3>3. Asking(1) = Weight(at, 1) /\ Asking(2) = Weight(at, 2)
      BY <2>2 DEF Asking
    <3>4. Asking(1)' = 0 /\ Asking(2)' = 0
      BY <2>1 DEF Asking
    <3>5. Counted' <=> Counted
      BY <1>2 DEF Counted, HasHeader
    <3>6. used' <= Headroom'
      BY <1>3, <2>1 DEF NumbersInv
    <3>7. used' <= Sent(2)' + Asking(2)'
      <4>1. used <= Sent(2) + Weight(at, 2)
        BY <2>2, <3>3 DEF NumbersInv
      <4> QED
        BY <1>1, <2>1, <3>1, <3>4, <4>1
    <3>8. op' \in {"new", "delete"} => requests' <= Sent(1)' + Asking(1)'
      <4>1. op \in {"new", "delete"} => requests <= Sent(1) + Weight(at, 1)
        BY <2>2, <3>3 DEF NumbersInv
      <4> QED
        BY <1>1, <1>2, <2>1, <3>2, <3>4, <4>1
    <3>9. Counted' => requests' = Sent(1)' + Asking(1)'
      <4>1. Counted => requests = Sent(1) + Weight(at, 1) /\ op \in {"new", "delete"}
        BY <2>2, <3>3 DEF NumbersInv, Counted
      <4> QED
        BY <1>1, <2>1, <3>2, <3>4, <3>5, <4>1
    <3>10. PlanIsExact'
      BY <1>2, <2>1, <2>4, PlanStays
    <3> QED
      BY <3>6, <3>7, <3>8, <3>9, <3>10 DEF NumbersInv
  <2> QED
    BY <2>3, <2>4
<1>5. CASE Post
  <2>1. /\ at \in Steps /\ Pending /\ posted = "none" /\ posted' = at /\ UNCHANGED <<at, verdict>>
        /\ used' = used + Messages(at)
        /\ requests' = IF ~(at \in HeaderSteps /\ Repair(at)) THEN requests + 1 ELSE requests
        /\ UNCHANGED <<op, headerVars, linesVars, receiptVars>>
    BY <1>5 DEF Post, Send
  <2>2. at # "none" /\ Live
    BY <2>1 DEF Steps, GridSteps, HeaderSteps, LinesSteps, ReceiptSteps, Live
  <2>3. /\ Sent(1)' = Sent(1) /\ Weight(at, 1)' = Weight(at, 1)
        /\ Sent(2)' = Sent(2) /\ Weight(at, 2)' = Weight(at, 2)
        /\ (Counted' <=> Counted)
    BY <2>1, SentStays
  <2>4. Asking(1) = 0 /\ Asking(2) = 0
    BY <2>1 DEF Asking
  <2>5. Asking(1)' = Weight(at, 1) /\ Asking(2)' = Weight(at, 2)
    <3>1. posted' # "none"
      BY <2>1, <2>2
    <3>2. Asking(1)' = Weight(at, 1)' /\ Asking(2)' = Weight(at, 2)'
      BY <3>1 DEF Asking
    <3> QED
      BY <2>3, <3>2
  <2>6. /\ Sent(2) \in Nat /\ Sent(2) + Weight(at, 2) <= Headroom /\ Weight(at, 2) = Messages(at)
        /\ Messages(at) \in Nat
    BY <2>1, <2>2, RequestFits, Weights DEF Weight
  <2>7. requests' = requests + Weight(at, 1)
    <3>1. Weight(at, 1) = IF at \in HeaderSteps /\ Repair(at) THEN 0 ELSE 1
      BY DEF Weight, Planned
    <3> QED
      BY <1>1, <2>1, <3>1
  <2>8. used' <= Headroom' /\ used' <= Sent(2)' + Asking(2)'
    <3>1. used <= Sent(2) + 0
      BY <2>1, <2>4 DEF NumbersInv
    <3> QED
      BY <1>1, <1>3, <2>1, <2>3, <2>5, <2>6, <3>1
  <2>9. Weight(at, 1) \in {0, 1}
    BY DEF Weight, Planned
  <2>10. op \in {"new", "delete"} => Sent(1) \in Nat
    BY <2>1, <2>2, SentIs
  <2>11. Counted' => requests' = Sent(1)' + Asking(1)'
    <3>1. Counted => requests = Sent(1) + 0 /\ op \in {"new", "delete"}
      BY <2>1, <2>4 DEF NumbersInv, Counted
    <3> QED
      BY <1>1, <2>3, <2>5, <2>7, <2>9, <2>10, <3>1
  <2>12. op' \in {"new", "delete"} => requests' <= Sent(1)' + Asking(1)'
    <3>1. op \in {"new", "delete"} => requests <= Sent(1) + 0
      BY <2>1, <2>4 DEF NumbersInv
    <3> QED
      BY <1>1, <2>1, <2>3, <2>5, <2>7, <2>9, <2>10, <3>1
  <2>13. PlanIsExact'
    BY <1>2, <2>1, PlanStays DEF Pending
  <2> QED
    BY <2>8, <2>11, <2>12, <2>13 DEF NumbersInv
<1>6. CASE Reject \/ GiveUp \/ Abandon \/ LateEffect
  <2>1. UNCHANGED <<used, requests>>
    BY <1>6 DEF Reject, GiveUp, Abandon, LateEffect, End
  <2>2. ~Pending' /\ (verdict' # "nil" \/ verdict' = verdict)
    BY <1>6 DEF Reject, GiveUp, Abandon, LateEffect, End, ErrorClass, Unsent, Pending
  <2>3. PlanIsExact'
    BY <1>2, <2>1, <2>2, PlanStays DEF NumbersInv
  <2> QED
    BY <1>3, <2>1, <2>2, <2>3 DEF NumbersInv
<1>7. CASE UNCHANGED vars
  <2>1. UNCHANGED <<op, at, posted, used, requests, verdict, headerVars, linesVars, receiptVars>>
    BY <1>7 DEF vars, exchangeVars
  <2>2. /\ Sent(1)' = Sent(1) /\ Weight(at, 1)' = Weight(at, 1)
        /\ Sent(2)' = Sent(2) /\ Weight(at, 2)' = Weight(at, 2)
        /\ (Counted' <=> Counted)
    BY <2>1, SentStays
  <2>3. Asking(1)' = Asking(1) /\ Asking(2)' = Asking(2)
    BY <2>1, <2>2 DEF Asking
  <2>4. PlanIsExact'
    BY <1>2, <2>1, PlanStays DEF NumbersInv
  <2> QED
    BY <1>3, <2>1, <2>2, <2>3, <2>4 DEF NumbersInv, Pending
<1> QED
  BY <1>4, <1>5, <1>6, <1>7 DEF Next, Stop

\* In the beginning nothing has been sent.
LEMMA InitNumbers ==
  ASSUME Init, IInv
  PROVE  FieldsLeft /\ RoundsOK /\ NumbersInv
<1>1. /\ posted = "none" /\ used = 0 /\ requests = 0 /\ verdict = "pending" /\ op \in Ops
      /\ unset = header.fields /\ removed = 0 /\ nth = 1
      /\ at = IF op # "new" THEN "refresh" ELSE IF HasHeader THEN "menu" ELSE ToLines
  BY DEF Init, HeaderInit, LinesInit, ReceiptsInit
<1>2. /\ op = "new" => "title" \notin header.fields
      /\ op = "new" => wanted # <<>> \/ HasHeader
  BY DEF Init, HeaderInit, LinesInit
<1>3. at \in {"refresh", "menu", "newLine"} /\ (at = "menu" => op = "new" /\ HasHeader)
      /\ (at = "newLine" => op = "new" /\ ~HasHeader)
  BY <1>1, <1>2 DEF ToLines
<1>4. FieldsLeft
  BY <1>1, <1>2, <1>3 DEF FieldsLeft, Fields, HeaderSteps
<1>5. RoundsOK
  BY <1>1, <1>3 DEF RoundsOK
<1>6. ASSUME NEW w \in {1, 2} PROVE Sent(w) = 0 /\ Asking(w) = 0
  <2>1. CASE at = "refresh"
    BY <1>1, <2>1 DEF Sent, OtherSent, HeaderSteps, LinesSteps, Asking
  <2>2. CASE at = "menu"
    <3>1. HeaderSent(w) = 0
      BY <1>3, <2>2 DEF HeaderSent, HeaderUsed, HeaderPlanned
    <3> QED
      BY <1>1, <2>2, <3>1 DEF Sent, HeaderSteps, Asking
  <2>3. CASE at = "newLine"
    <3>1. at \notin HeaderSteps /\ at \in LinesSteps
      BY <2>3 DEF HeaderSteps, LinesSteps
    <3>2. HeaderShare(w) = 0
      BY <1>3, <2>3 DEF HeaderShare
    <3>3. LinesSent(w) = First(LineCosts(wanted, w), 0)
      BY <1>1, <2>3 DEF LinesSent, LineSent
    <3>4. wanted \in Seq(LineInput)
      BY DEF IInv, Sound, LinesInv, LinesTypeOK
    <3>5. First(LineCosts(wanted, w), 0) = 0
      BY <3>4, FirstLines
    <3> QED
      BY <1>1, <3>1, <3>2, <3>3, <3>5 DEF Sent, Asking
  <2> QED
    BY <1>3, <2>1, <2>2, <2>3
<1>7. Headroom \in Nat
  BY Reserved
<1>8. /\ Sent(1) = 0 /\ Asking(1) = 0 /\ Sent(2) = 0 /\ Asking(2) = 0
  BY <1>6
<1>9. NumbersInv
  BY <1>1, <1>7, <1>8 DEF NumbersInv, PlanIsExact
<1> QED
  BY <1>4, <1>5, <1>9

LEMMA NumbersThroughout == Spec => []NumbersInv
<1>1. Init /\ IInv => FieldsLeft /\ RoundsOK /\ NumbersInv
  BY InitNumbers
<1>2. IInv /\ IInv' /\ FieldsLeft /\ RoundsOK /\ NumbersInv /\ [Next]_vars
        => FieldsLeft' /\ RoundsOK' /\ NumbersInv'
  <2> SUFFICES ASSUME IInv, IInv', FieldsLeft, RoundsOK, NumbersInv, [Next]_vars
               PROVE  FieldsLeft' /\ RoundsOK' /\ NumbersInv'
    OBVIOUS
  <2>1. FieldsLeft' /\ RoundsOK'
    BY FieldsKept, RoundsKept DEF IInv
  <2> QED
    BY <2>1, NextNumbers
<1> QED
  BY <1>1, <1>2, KeptThroughout, PTL DEF Spec

(* No command, however many rows, lines and receipts it has to work        *)
(* through, and whichever of them Dynamics shows wrong, sends more         *)
(* messages than sequence numbers were reserved for it: reserveSequences   *)
(* is given enough, and no number is ever used twice.                      *)
THEOREM HeadroomKept == Spec => []HeadroomSuffices
<1>1. NumbersInv => HeadroomSuffices
  BY DEF NumbersInv, HeadroomSuffices
<1> QED
  BY <1>1, NumbersThroughout, PTL

(* The request counts a dry run prints are those of the run: exactly, for  *)
(* a deletion and for a report's lines; at most, where a header is edited  *)
(* too, whose approver rows may already be right.                          *)
THEOREM PlansAreExact == Spec => []PlanIsExact
<1>1. NumbersInv => PlanIsExact
  BY DEF NumbersInv
<1> QED
  BY <1>1, NumbersThroughout, PTL
=============================================================================
