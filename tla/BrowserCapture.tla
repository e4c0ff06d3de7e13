-------------------------- MODULE BrowserCapture ---------------------------
(* What a HAR file can hold, and what the imports make of it: a person uses *)
(* the Expense workspace while the browser's requests are recorded.  Browser*)
(* and Dynamics number their messages; an answer may fail before or after   *)
(* the message was handled, lose its body, or leave the message unhandled;  *)
(* a page may be loaded anew.  The recording may end at any time: the       *)
(* imports are read off every state.                                        *)
(*                                                                          *)
(* Browser and Dynamics are not code of this repository.  They do what its  *)
(* code relies on: one request at a time, which acknowledges the messages   *)
(* received so far and repeats the message not acknowledged yet; an answer  *)
(* that repeats the messages not acknowledged yet; the first request of a   *)
(* page without a language.                                                 *)
EXTENDS ReceiptImport

CONSTANTS Reports,   \* the reports that exist before
          Drafts,    \* those with status Draft
          Created,   \* the report a Create makes
          NoReport,  \* of a form that shows no report
          Places,    \* origin, endpoint, company and channel of a page
          Home,      \* the place where the recording starts
          Auths,     \* how often credentials can have been renewed
          Sessions   \* what is recorded: the names of the commands used,
                     \* the form shown at the start, whether the page may be
                     \* loaded, and the bounds on entries and faults

ASSUME SessionsAssumption ==
  /\ Home \in Places /\ Auths \subseteq Nat /\ 0 \in Auths
  /\ Drafts \subseteq Reports /\ Created \notin Reports /\ NoReport \notin Reports
  /\ \A s \in Sessions : /\ s.start \in {"none", "workspace", "dialog"}
                         /\ s.loads \in BOOLEAN /\ s.polls \in BOOLEAN
                         /\ s.bodiless \in BOOLEAN
                         /\ s.entries \in Nat /\ s.faults \in Nat

VARIABLES
  session,   \* the member of Sessions being recorded
  har,       \* the entries recorded
  page,      \* the browser: where, language, auth, next number, the message
             \* not acknowledged (0 for none), its command, the last server
             \* message seen, and the first entry of this page
  accepted,  \* Dynamics: the last client number handled
  sent,      \* Dynamics: the messages sent on this page
  forms,     \* Dynamics: the forms that exist
  lastForm,  \* Dynamics: the last identifier given
  receipts,  \* Dynamics: receipts of each report, in all and by file
  upload,    \* the Add receipts dialog: its progress and its file
  faults     \* faults so far

vars == <<session, har, page, accepted, sent, forms, lastForm, receipts, upload, faults>>

AllReports == Reports \cup {Created}
Form(id, kind, report) == [id |-> id, kind |-> kind, report |-> report]
Command(name, root) == [name |-> name, root |-> root, file |-> 0, report |-> NoReport]
NoCommand == Command("", None)

NoForms == [kind |-> "none", id |-> 0, report |-> NoReport]
\* The form in front is the newest; Dynamics stacks them.
Top == IF forms = {} THEN NoForms ELSE CHOOSE f \in forms : \A g \in forms : g.id <= f.id

StartForms(start) ==
  CASE start = "none" -> {{}}
    [] start = "workspace" -> {{Form(1, "workspace", NoReport)}}
    [] start = "dialog" ->
         {{Form(1, "workspace", NoReport), Form(2, "details", r), Form(3, "dialog", r)} :
            r \in Drafts}

\* A page that is about to send its first request.
FreshPage(w, a) ==
  [where |-> w, language |-> FALSE, auth |-> a, next |-> 2, pending |-> 1,
   command |-> Command("Load", None), seen |-> 0, first |-> Len(har) + 1]

Init ==
  /\ session \in Sessions
  /\ har = <<>>
  /\ forms \in StartForms(session.start) /\ lastForm = 3
  /\ receipts = [r \in AllReports |-> {}]
  /\ upload = [stage |-> "open", file |-> 0]
  /\ accepted = 0 /\ sent = <<>> /\ faults = 0
  /\ page = IF session.start = "none" THEN FreshPage(Home, 0)
            ELSE [FreshPage(Home, 0) EXCEPT !.language = TRUE, !.next = 1, !.pending = 0,
                                            !.command = NoCommand]

-----------------------------------------------------------------------------
(* Dynamics handles a command: the message it sends, and what it changes.   *)

Quiet == [n |-> Len(sent) + 1, made |-> {}, shown |-> {}, deleted |-> {}, counts |-> {},
          statuses |-> {}, listed |-> {}]
Status(f) == {[root |-> f, draft |-> f.report \in Drafts \cup {Created}]}
CountOf(f, n) == {[root |-> f, count |-> n]}
Attached(r) == Cardinality(receipts[r])

New(kind, report) == Form(lastForm + 1, kind, report)

Answer(c) ==
  LET f == c.root
      details == {g \in forms : g.kind = "details" /\ g.report = f.report}
      Opened(r) == LET g == New("details", r) IN
        [Quiet EXCEPT !.made = {g}, !.statuses = Status(g), !.counts = CountOf(g, Attached(r))]
  IN  CASE c.name = "Load" -> [Quiet EXCEPT !.made = {New("workspace", NoReport)}]
        [] c.name = "New" -> [Quiet EXCEPT !.made = {New("new", NoReport)}]
        [] c.name = "Create" -> [Opened(Created) EXCEPT !.deleted = {f}]
        [] c.name = "Open" -> Opened(c.report)
        [] c.name = "Add" -> [Quiet EXCEPT !.made = {New("dialog", f.report)}, !.shown = {f}]
        [] c.name = "OK" ->
             [Quiet EXCEPT !.deleted = {f}, !.shown = details,
                !.statuses = UNION {Status(g) : g \in details},
                !.counts = UNION {CountOf(g, Cardinality(receipts[f.report] \cup {upload.file})) :
                                    g \in details}]
        [] c.name = "Save" ->
             [Quiet EXCEPT !.deleted = {f}, !.shown = {g \in forms : g.kind = "workspace"},
                !.listed = AllReports]
        [] c.name \in {"Cancel", "Leave"} -> [Quiet EXCEPT !.deleted = {f}]
        [] OTHER -> Quiet

Handle(c) ==
  LET a == Answer(c) IN
  /\ forms' = (forms \ a.deleted) \cup a.made
  /\ lastForm' = lastForm + Cardinality(a.made)
  /\ sent' = Append(sent, a)
  /\ receipts' = IF c.name = "OK"
                 THEN [receipts EXCEPT ![c.root.report] = @ \cup {upload.file}] ELSE receipts
  /\ upload' = CASE c.name = "Add" -> [stage |-> "open", file |-> upload.file]
                 [] c.name = "CheckFile" -> [upload EXCEPT !.stage = "checked"]
                 [] c.name = "CloseUpload" -> [upload EXCEPT !.stage = "closed"]
                 [] OTHER -> upload
DoNotHandle == UNCHANGED <<forms, lastForm, sent, receipts, upload>>

-----------------------------------------------------------------------------
(* One request and its answer.                                              *)

Fault(n) == faults + n <= session.faults /\ faults' = faults + n

\* The messages the browser has not acknowledged, once sent' is known.
Unseen == SubSeq(sent', page.seen + 1, Len(sent'))

Request(n, c) ==
  /\ Len(har) < session.entries
  /\ \E handled, ok, body \in BOOLEAN :
       /\ ok \/ body
       /\ ok /\ ~body => session.bodiless
       /\ LET new == n > accepted
              parsed == ok /\ body
              lost == new /\ ~handled
          IN  /\ handled => new
              /\ accepted' = IF handled THEN n ELSE accepted
              /\ IF handled THEN Handle(c) ELSE DoNotHandle
              /\ Fault((IF parsed THEN 0 ELSE 1) + (IF lost /\ parsed THEN 1 ELSE 0))
              /\ har' = Append(har,
                   [type |-> "exchange", entry |-> Len(har) + 1, where |-> page.where,
                    language |-> IF page.language THEN "en" ELSE NoLanguage,
                    auth |-> page.auth, ok |-> ok, body |-> body, ack |-> page.seen,
                    sent |-> n, command |-> c, acked |-> accepted',
                    messages |-> IF parsed THEN Unseen ELSE <<>>])
              /\ page' = [page EXCEPT
                   !.next = IF n = page.next THEN n + 1 ELSE @,
                   !.pending = IF parsed /\ accepted' >= n THEN 0 ELSE n,
                   !.command = IF parsed /\ accepted' >= n THEN NoCommand ELSE c,
                   !.seen = IF parsed THEN Len(sent') ELSE @,
                   !.language = @ \/ (parsed /\ Len(sent') > 0)]
  /\ UNCHANGED session

\* A poll: whatever is pending is sent again.
Poll ==
  /\ page.pending = 0 => session.polls
  /\ Request(page.pending, page.command)

InSync == page.pending = 0 /\ page.seen = Len(sent)
Do(name, kind) ==
  /\ name \in session.commands /\ InSync /\ Top.kind = kind
  /\ Request(page.next, Command(name, Top))

ClickNew == Do("New", "workspace")
Leave == Do("Leave", "workspace")
Create == Do("Create", "new")
Add == Top.report \in Drafts \cup {Created} /\ Do("Add", "details")
Save == Do("Save", "details")
Submit == Do("Submit", "details")
Cancel == Do("Cancel", "dialog") \/ Do("Cancel", "new")
Open(r) ==
  /\ "Open" \in session.commands /\ InSync /\ Top.kind = "workspace"
  /\ Request(page.next, [Command("Open", Top) EXCEPT !.report = r])

\* The upload control checks the file, the file is posted, its identifier is
\* handed over, and OK attaches it.
CheckFile == Do("CheckFile", "dialog")
UploadFile ==
  /\ InSync /\ Top.kind = "dialog" /\ upload.stage = "checked"
  /\ Len(har) < session.entries
  /\ \E ok \in BOOLEAN :
       /\ Fault(IF ok THEN 0 ELSE 1)
       /\ har' = Append(har, [type |-> "upload", auth |-> page.auth, ok |-> ok,
                              file |-> upload.file + 1])
       /\ upload' = IF ok THEN [stage |-> "uploaded", file |-> upload.file + 1] ELSE upload
  /\ UNCHANGED <<session, page, accepted, sent, forms, lastForm, receipts>>
CloseUpload ==
  /\ "CloseUpload" \in session.commands /\ InSync /\ Top.kind = "dialog"
  /\ upload.stage = "uploaded"
  /\ Request(page.next, [Command("CloseUpload", Top) EXCEPT !.file = upload.file])
OK == upload.stage = "closed" /\ Do("OK", "dialog")

\* Credentials are renewed under the open page.
Renew ==
  /\ session.loads /\ page.auth + 1 \in Auths
  /\ page' = [page EXCEPT !.auth = @ + 1]
  /\ UNCHANGED <<session, har, accepted, sent, forms, lastForm, receipts, upload, faults>>

\* The page is loaded, perhaps elsewhere: numbers and forms start over.
LoadPage ==
  /\ session.loads /\ Len(har) < session.entries
  /\ \E w \in Places : page' = FreshPage(w, page.auth)
  /\ accepted' = 0 /\ sent' = <<>> /\ forms' = {}
  /\ UNCHANGED <<session, har, lastForm, receipts, upload, faults>>

Stop == Len(har) = session.entries /\ UNCHANGED vars

Next ==
  \/ LoadPage \/ Renew \/ Poll \/ ClickNew \/ Leave \/ Create \/ Add \/ Save \/ Submit \/ Cancel
  \/ \E r \in Reports : Open(r)
  \/ CheckFile \/ UploadFile \/ CloseUpload \/ OK
  \/ Stop

Spec == Init /\ [][Next]_vars

-----------------------------------------------------------------------------
(* Properties.                                                              *)

\* The page has sent its first request: nothing can tell of it before.
PageIsRecorded == page.first <= Len(har)

\* The workspace as the page shows it.
RenderedRoots == {f \in forms : f.kind = "workspace"}
BootstrapSessions ==
  {p.session : p \in Bootstrap(har)}
  \cup UNION {{p.session : p \in BootstrapWith(har, f)} : f \in RenderedRoots}
FlowSessions ==
  {p.session : p \in DraftProfile(har)} \cup {p.session : p \in ReceiptProfile(har)}

(* The state is well formed, and so is every session accepted: it has a    *)
(* place, a language and a positive next number (validateSessionProfile).  *)
TypeOK ==
  /\ session \in Sessions
  /\ Len(har) <= session.entries /\ faults <= session.faults
  /\ \A i \in DOMAIN har :
       /\ har[i].type \in {"exchange", "upload"}
       /\ har[i].type = "exchange" =>
            /\ har[i].entry = i /\ har[i].where \in Places /\ har[i].auth \in Auths
            /\ ~Parsed(har[i]) => har[i].messages = <<>>
  /\ page.where \in Places /\ page.auth \in Auths
  /\ accepted < page.next /\ page.pending \in {0, page.next - 1}
  /\ page.seen <= Len(sent)
  /\ \A i \in DOMAIN sent : sent[i].n = i
  /\ \A f \in forms : f.id <= lastForm /\ f.report \in AllReports \cup {NoReport}
  /\ upload.stage \in {"open", "checked", "uploaded", "closed"}
  /\ \A s \in BootstrapSessions \cup FlowSessions :
       s.where \in Places /\ s.language # NoLanguage /\ s.next > 0 /\ s.last >= 0

(* An accepted session continues the page that is open: it rests on        *)
(* exchanges of this page alone ("sequence continuity proves it starts the *)
(* same channel session", har.go:175), acknowledges exactly what the       *)
(* browser received, and goes on with the number after the last one        *)
(* Dynamics handled, unless a message is still not acknowledged; the       *)
(* bootstrap imports never use a number twice even then.                   *)
SequencesFollow ==
  PageIsRecorded =>
    /\ \A s \in BootstrapSessions \cup FlowSessions :
         /\ s.where = page.where /\ s.entries \subseteq page.first .. Len(har)
         /\ s.last = page.seen
         /\ s.next # accepted + 1 => page.pending # 0
    /\ \A s \in BootstrapSessions : s.next > accepted

(* The workspace a session is bound to exists in Dynamics, whatever was    *)
(* opened, left or loaded before the capture ended ("leaves an active      *)
(* ExpenseWorkspace_form", har.go:636); a workspace inferred from a click  *)
(* that was recorded has at most been left since.                          *)
RootIsLive ==
  PageIsRecorded =>
    /\ \A p \in Bootstrap(har) : ~p.observed => p.root \in forms
    /\ \A p \in Bootstrap(har) \cup DraftProfile(har) :
         p.root \in forms \/ \E i \in DOMAIN sent : p.root \in sent[i].deleted

(* An accepted receipt profile tells the truth: its form is open and in    *)
(* front, it shows the report named, the report is a Draft (there before,  *)
(* or just created), the file uploaded is attached to the report the       *)
(* receipt was attached to (which need not be the one reopened), and the   *)
(* receipts counted are those of that report -- unless the last answers    *)
(* were lost.                                                              *)
ReceiptProfileIsTrue ==
  \A p \in ReceiptProfile(har) :
    InSync =>
      /\ p.root = Top /\ p.report = Top.report /\ p.report \in Drafts \cup {Created}
      /\ upload.file \in receipts[p.attachedTo.report]
      /\ p.count = Attached(p.attachedTo.report)
=============================================================================
