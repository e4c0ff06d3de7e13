--------------------------- MODULE ReceiptImport ---------------------------
(* ParseReceipt (internal/capture/receipt.go): a HAR file in which a receipt *)
(* was attached to a Draft report, the report saved and opened again, and   *)
(* the Add receipts dialog opened once more and closed.  The receipt client *)
(* continues from the details form that is open at the end.                 *)
EXTENDS HARImport

CurrentForms(exs) == Active(MessagesOf(ParsedOf(exs)), "details")
\* The dialogs nothing has closed, not only those in which a file was checked.
MutOpenDialogs(exs) ==
  Active(MessagesOf(ParsedOf(exs)), "dialog")
  \cap {exs[i].command.root : i \in Commands(exs, "CheckFile", "dialog")}
OpenDialogs(exs) == Active(MessagesOf(ParsedOf(exs)), "dialog")

\* The statuses a form was shown with, requireExactDraftStatus.
Statuses(exs, root) ==
  {s.draft : s \in {t \in UNION {m.statuses : m \in ToSet(MessagesOf(exs))} : t.root = root}}
IsDraft(exs, root) == Statuses(exs, root) = {TRUE}

\* descriptorParentReport: the report in the title a form was created with.
TitleReports(exs, root) ==
  {f.report : f \in {g \in UNION {m.made : m \in ToSet(MessagesOf(exs))} : g = root}}

\* receiptHasForbiddenCommand, whatever became of the command.
HasForbidden(exs) == \E i \in DOMAIN exs : exs[i].command.name = "Submit"

\* positiveReceiptCountUpdate: the only count of an answer, if positive.
CountsIn(ex) == UNION {m.counts : m \in ToSet(ex.messages)}
PositiveCounts(ex) ==
  IF OnlyOne(CountsIn(ex)) THEN {c \in CountsIn(ex) : c.count > 0} ELSE {}

\* The Add receipts click of the current form that opened a dialog.
Adds(exs, current) ==
  {i \in Commands(exs, "Add", "details") :
     exs[i].command.root = current /\ AnswerShows(exs[i], "dialog")}

\* findReceiptCheckFileFlow: the dialogs in which a file was checked.
CheckedDialogs(exs) == {exs[i].command.root : i \in Commands(exs, "CheckFile", "dialog")}
LastCheck(exs) == Max({exs[i].entry : i \in Commands(exs, "CheckFile", "dialog")})

\* findReceiptUpload: the uploads after the last check, none of them failed or
\* of another session.
UploadsAfter(har, entry) == {i \in DOMAIN har : i > entry /\ har[i].type = "upload"}
UploadIsUsable(har, exs, i) == har[i].auth = exs[1].auth /\ har[i].ok

\* findReceiptCloseFlow
Closes(exs, dialog, upload, file) ==
  {i \in Commands(exs, "CloseUpload", "dialog") :
     exs[i].entry > upload /\ exs[i].command.root = dialog
     /\ exs[i].command.file = file}

\* findReceiptOKFlow
OKs(exs, dialog, close) ==
  {i \in Commands(exs, "OK", "dialog") :
     i > close /\ exs[i].command.root = dialog /\ PositiveCounts(exs[i]) # {}}

\* receiptCountIncreased
CountIncreased(exs, at, after) ==
  \A i \in 1 .. (at - 1) : \A c \in PositiveCounts(exs[i]) :
    c.root = after.root => c.count < after.count

\* findReceiptSaveFlow: a click on the form whose answer deletes it.
Saves(exs, details, ok) ==
  {i \in Commands(exs, "Save", "details") :
     /\ i > ok /\ exs[i].command.root = details
     /\ \E m \in ToSet(exs[i].messages) : details \in m.deleted}

\* responseContainsReportNumber
Lists(ex, report) == \E m \in ToSet(ex.messages) : report \in m.listed

\* extractReceiptProfile, from its last step back: at most one profile.
SavedProfiles(exs, current, after, ok) ==
  {[root |-> current, report |-> report, count |-> after.count,
    attachedTo |-> after.root, session |-> SessionOf(exs)] :
     report \in {r \in TitleReports(ParsedOf(exs), current) :
       /\ OnlyOne(TitleReports(ParsedOf(exs), current))
       /\ OnlyOne(Saves(exs, after.root, ok))
       /\ Lists(exs[TheOne(Saves(exs, after.root, ok))], r)}}

AttachedProfiles(exs, current, dialog, upload, file) ==
  LET closes == Closes(exs, dialog, upload, file)
      oks == OKs(exs, dialog, TheOne(closes))
      ok == TheOne(oks)
      after == TheOne(PositiveCounts(exs[ok]))
  IN  IF ~OnlyOne(closes) THEN {}
      ELSE IF /\ OnlyOne(oks)
              /\ IsDraft(ParsedOf(SubSeq(exs, 1, ok)), after.root)
              /\ CountIncreased(exs, ok, after)
           THEN SavedProfiles(exs, current, after, ok) ELSE {}

UploadedProfiles(har, exs, current) ==
  LET uploads == UploadsAfter(har, LastCheck(exs))
      upload == TheOne(uploads)
  IN  IF /\ OnlyOne(uploads) /\ UploadIsUsable(har, exs, upload)
      THEN AttachedProfiles(exs, current, TheOne(CheckedDialogs(exs)), upload, har[upload].file)
      ELSE {}

ReceiptProfile(har) ==
  LET exs == Exchanges(har)
      current == TheOne(CurrentForms(exs))
  IN  IF exs = <<>> THEN {}
      ELSE IF ~(OneSession(exs) /\ HasSession(exs) /\ ~HasForbidden(exs)) THEN {}
      ELSE IF ~(OnlyOne(CurrentForms(exs)) /\ OpenDialogs(exs) = {}) THEN {}
      ELSE IF /\ IsDraft(ParsedOf(exs), current)
              /\ OnlyOne(Adds(exs, current)) /\ OnlyOne(CheckedDialogs(exs))
           THEN UploadedProfiles(har, exs, current) ELSE {}
=============================================================================
