# Specifications of d365-expense

`d365-expense` is a command-line client for expense reports in Dynamics 365
Finance. It has no API to call: it captures the state of a browser session,
stores it as a *named session*, and then speaks the browser's own sequenced
protocol to Dynamics to create, edit, submit and delete reports. The captured
state can be used by one process at a time, every message carries a client
sequence number that must never be used twice, and no request may be repeated
because it might have been carried out. These modules model that machinery.

## Inventory

| Component | Code | State | Operations | Correct when |
|---|---|---|---|---|
| Session store | `internal/session/{encryption,store,key_provider}.go` | a sealed file per name; a data key per file in the OS keyring | Save, Replace, Remove, CleanupKey, Load | no crash or failure separates a ciphertext from its key; keys are retired, or the user is told; what returned nil is durable |
| Session lifecycle and locking | `internal/session/{lock,session}.go`, `internal/cli/{source,session,existing_report}.go` | lock directory; status `ready`, `in_progress`, `uncertain`, `expired`; next sequence number | begin and finish of an operation, import, remove, unlock | one process at a time; `ready` only if the numbers are the truth; no number used twice |
| Report creation | `internal/expense/{client,report_receipt}.go` | the client's sequence number and server sequence; the report in Dynamics | CreateReport, CreateReportWithReceipts | the error class says what happened in Dynamics; nothing incomplete is submitted; plan and headroom are right |
| Single-receipt client | `internal/expense/receipt_client.go` | a copy of the sequence state | AttachReceipt | as above, and one attachment more than before |
| Report header editing | `internal/expense/report_header.go` | approver rows as the server lists them | dialogs, append and delete rows | an approver that is already right is never removed; the rows end as requested or the error is uncertain |
| Expense lines and itemization | `internal/expense/expense_lines.go` | records observed so far, fields and rows set so far | addLine, itemize | exactly the requested lines are new, in what the list does not show too |
| Existing reports | `internal/expense/{existing_report,report_delete,receipt_add,receipt_remove,receipt_match}.go` | the row of the grid, the receipt and the line being worked on | show, edit, itemize, submit, delete; add, remove and attach receipts | what is acted on is what was found, although Dynamics acts on what is active or marked |
| Workspace items | `internal/expense/workspace_items.go` | the active tab, the listed rows | list, delete unattached items | what was deleted is reported; the tab is restored |
| Submission status | `internal/expense/submission.go` | none | resolveReportStatusCandidates | agrees with a declarative reading of the grid |
| Dynamics protocol | `internal/dynamics/*` | none | build, parse, validate messages | pure data |
| Response state | `internal/expense/response_state.go` | cookies, anti-forgery header | merge | pure data |
| HAR capture parsing | `internal/capture/*`, `internal/har` | none | derive the session state from a HAR | the session continues the page that is open, with the number after the last one Dynamics handled, from forms that exist |
| CDP recorder | `internal/cdphar/{recorder,capture}.go` | chains of entries per request, pending and orphaned events, fetch queue | one handler per event; freeze, drain, archive | every entry has the data of its own hop and nothing else |
| Command line | `internal/cli/*`, `cmd/*` | none of its own | flags, files, printing | |

**Interaction.** A command loads a session from the store under the lock
(lifecycle), writes it back as `in_progress`, runs one operation of an
`expense` client built from it, and writes it back as `ready`, `uncertain` or
`expired` with the client's sequence state. Import gets a capture from a HAR
file or, through the CDP recorder, from a running browser. The client returns one
of four error classes (nil, `ErrOperationUncertain`, `ErrAuthenticationExpired`,
other), which is all the lifecycle learns of what happened.

**What is hard here.** File system and keyring cannot be updated together.
Processes die and machines lose power between any two steps. Several processes
and operators share a lock that is a directory. Requests are lost, carried out
without an answer, or carried out after the client has given up. Sequence
numbers are counted by two clients in turn. Network events of redirects share an
identifier and come out of order. `PROJECT.json` lists these as hazards, each
at its line, with the properties that watch it.

## Modules

| Module | Models | Checked by | Proved in |
|---|---|---|---|
| `SessionStore` | the session store, step by step | `MCSessionStore` | `SessionStoreProofs` |
| `SessionExecution` | session lifecycle, lock and commands | `MCSessionExecution` | `SessionExecutionProofs` |
| `SessionCapability` | *abstract*: a capture is a capability with one holder, spent for good | refined by `SessionExecution` | `SessionExecutionProofs` |
| `CreateReport` | report creation with receipts | `MCCreateReport` | `CreateReportProofs` |
| `RemoteMutation` | *abstract*: what an operation promises about Dynamics | refined by `CreateReport`, `DraftReports` | `CreateReportProofs`, `DraftReportsProofs` |
| `ClientRequests` | one operation's exchanges: numbers, requests, verdict | through `DraftReports` | `DraftReportsProofs` |
| `ReportsGrid` | finding, opening, saving, submitting, deleting a Draft | through `DraftReports` | `DraftPartsProofs` |
| `ReportHeader` | title, final and interim approvers | through `DraftReports` | `DraftPartsProofs` |
| `ExpenseLines` | adding and itemizing lines | through `DraftReports` | `DraftPartsProofs` |
| `ReportReceipts` | adding, removing and attaching receipts | through `DraftReports` | `DraftPartsProofs` |
| `DraftReports` | the commands on a Draft, composed of these; refines `RemoteMutation` | `MCDraftReports` | `DraftReportsProofs` |
| `CDPRecorder` | recording browser traffic | `CDPRecorder.cfg` | `CDPRecorderProofs` |
| `HARImport` | what bootstrap and draft imports read out of a recording | through `BrowserCapture` | `BrowserCaptureProofs` |
| `ReceiptImport` | what the receipt import reads out of a recording | through `BrowserCapture` | `BrowserCaptureProofs` |
| `BrowserCapture` | every recording of a modelled browser, and the imports applied to it | `MCBrowserCapture` | `BrowserCaptureProofs` |
| `WorkspaceItems` | listing and deleting unattached items | `MCWorkspaceItems` | `WorkspaceItemsProofs` |

### SessionStore

`file` is the directory entry everybody sees; `onDisk` holds, besides, every
entry a power loss may bring back, that is all since the directory was last
synchronised. `keyring` is the set of keys. `op[n]` is the running Save, Replace or Remove of
a name with its local variables (old key, new key, is it fresh) and `pc` names the next
system call: `authenticate`, `set`, `verify`, `rename`, `unlink`, `sync`,
`retire`, `cleanup`. Each of those actions has the outcomes of the call: rename
may fail before or after it took effect, the synchronisation may fail, the
keyring may refuse Set, Get or Delete. `reported` are the keys named in an
error, as `joinKeyCleanupError` and `CleanupError` do. `Crash`, `PowerLoss`,
`CopyFile` and `Damage` are the environment, bounded together by `MaxFaults`.

Assumptions: Set that reports an error stored nothing; identifiers (16 random
bytes) never repeat; reading a file and its key is one step; callers hold the lock of
the name, except `session cleanup-key`, which takes none.

### SessionExecution and SessionCapability

Each process runs a command at a time; `pc` is its step and `mem` its copy of the session. The
order of the steps is that of `beginNamedSessionExecution` and `finish`:
a first read without the lock, lock, second read, `in_progress` made durable, requests,
final status, release. A save is one action with the three outcomes
`SessionStore` gives it (`Durably`, `Volatilely`, `NotAtAll`). `sent` and
`unsettled` record, per capture, which numbers went to Dynamics and which of
them have no acknowledgement. `Crash` leaves the lock; `PowerLoss` may drop
it, for its directory is never synchronised; an operator's unlock inspects and removes in two
steps, as `BreakLock` does, and inspects only when no process owns the session.

`SessionCapability` is what the rest of the system relies on: a capture is
fresh, available, held by one holder, or spent, never goes back from spent, and
is only handed on when no request is unsettled. `phaseBar` is the refinement mapping.

Captures are imported once (importing a HAR twice is the user's error).
An operation is any number of requests, each with the number after the last one
acknowledged, and stops at the first that fails. That is what the commands on reports do; those on workspace
tabs send one more request (see Observations), so `NoSequenceReuse` does not speak of
them. `ReadyIsFresh` does: whatever failed, their session does not become ready.

### CreateReport and RemoteMutation

`at` is the next exchange. `Post` takes a number and sends, `Accept` is the
answer the code accepts, `Reject` one it does not, `GiveUp` no answer, and
`LateEffect` a request carried out after that. `Effects(step)` says what Dynamics may
have done when a request was carried out or not. `Ready` and `ReceiptFits`, `SaveFits`
are the headroom tests of the two clients; `Advance` is the hand-over of the
sequence number between them; `ErrorClass` is the class of an error at a step.

The edits of header and lines are phases: at least one message, at most the
headroom reserved, the last of which shows the edit done; `DraftReports` takes
them apart (its operation `new`). Which of upload,
completion and confirmation attaches a receipt is left open. The new report
starts without receipts and nobody else edits it.

`RemoteMutation` is the promise to the caller: success only when everything is
done; failure only when nothing was or will be; anything else is uncertain. A change may undo an
earlier one, and so leave nothing changed: when a name is resolved to the approver whose row has just
been deleted, the report has the approvers it had.

### DraftReports and its parts

`ClientRequests` is the client's side of an exchange: `at` is the next step, `Send`
takes the numbers of a step, `Proceed` and `End` are the two ways an answer is
taken. `ReportsGrid`, `ReportHeader`, `ExpenseLines` and `ReportReceipts` each give the
state of Dynamics and of the client they are about, and for each of their steps
what Dynamics may do (`...Carry`) and which answers the code accepts and where it
goes from there (`...Accept`). `DraftReports` composes them: `op` is the command,
`AfterOpen`, `ToLines` and `AfterHeader` are how the parts follow each other in it,
and the actions are those of every exchange. `Post` sends, `Accept` and `Reject` are an
answer with the request carried out or ignored, `GiveUp` is no answer, `LateEffect` the
request carried out afterwards, and `Abandon` a request that cannot be built. After an accepted
step the code's local variables are the primed client variables of the part.

Dynamics is given every liberty the code guards against, and what the protocol notes
(`docs/internals`) and the code's own comments say of it:

- *Grid.* Delete acts on the marked rows, else on the active one; a selection may be
  ignored, activate the row without marking it, or mark every row from the
  active one. Rows were marked and activated before the capture, also on pages the client
  cannot see (`Reports \ Listed`).
- *Approvers.* Rows are reloaded under new tracking IDs after a deletion, an
  empty dialog holds a blank row, a new row comes after the active one, the dialog may be
  opened twice (both are closed), a name resolves to anybody or, when shared, to
  nobody, and an answer has the whole list or not. `view` is `approverRows`, `keep`
  how many of its rows are as they should be, `listed` the approvers in the edit dialog's record.
- *Lines.* Setting a field may disturb another; saving makes zero, one or two lines;
  an answer lists all lines or not. A line is known by category and date (`lineKey`);
  whether the rest of it is right (`TRUE` in `lines`) does not show in the list. `seen` is
  `expenseLineSession.lines`, `Added` is `linesAdded`.
- *Receipts.* Remove acts on the marked receipts, else on the active one, and the list
  is reloaded each time. The Attach popup offers only lines without a receipt; the client
  compares date and amount, and the merchant if both the line asked for and the one offered
  show one (`Looks`, `Alike`). A line that shows no merchant is thus like lines of any.
  Success is judged by the line asked for: attaching to a line with a `Twin` is the one
  case in which `KeepsPromise` takes no verdict for a success (finding 4). Uploading one receipt is one step of at most
  `UploadHeadroom` messages: `CreateReport` takes it apart.

Assumptions: nobody else edits the report meanwhile; the line just saved is the one
itemized next (`card`), as the code relies on; the days of an itemization row look
alike; a request that is refused may have been carried out.

### HARImport, ReceiptImport and BrowserCapture

A HAR is a sequence of exchanges and uploads; `HARImport` says which fields of an exchange
the code looks at. `OneSession` and `LatestGroup` are the two ways of choosing the exchanges,
`WithFormLoad` the page's first request that is added, `SessionOf` is
`extractSessionProfile`, `Active` follows the forms created and deleted by messages.
`Bootstrap`, `BootstrapWith`, `DraftProfile` and `ReceiptProfile` (with its steps in
`ReceiptImport`) are the four imports: the set of what they return, empty when they refuse.

`BrowserCapture` makes the recordings: a person who opens, creates, saves and leaves, adds a
receipt, cancels; a browser that sends one request at a time and repeats what was not
acknowledged; answers that fail before or after the command was handled, lose
their body, or acknowledge without handling; pages loaded anew, elsewhere, with renewed credentials.
`page` is the browser, `accepted`, `sent`, `forms`, `receipts` are Dynamics. No import is an action:
as a recording may end at any moment, the properties apply the imports to every state.

Left out: credentials beyond a fingerprint, cookies, the multipart form of an upload,
chained targets of grid, link and tabs (only that they are known), decoding. Browser and
Dynamics are not code of the repository; what is assumed of them is in the module's header.

### CDPRecorder

Base events of a request (`wire`) are delivered in order; supplemental events
(`arrived`) are delivered in order too, at any time after their hop began.
`phase` is the capture's: events are handled, then buffered (`freezing`, `cut`) while the
browser's clock is read, then replayed, then drained, after which fetches end and the archive is
written. `chain[r]` is the recorder's `requestChain`, with the orphans of `r` beside it.
Entries and events carry the hop they come from, which the code does not know: the properties compare them.
Whatever exceeds a limit, or fails, is `Fail`: no archive. Left out: sizes and timings,
`dataReceived`, requests that are not HTTP, statuses without a body, and bodies not asked
for (both callers ask). The fetch queue counts a fetch until it ends. A `requestWillBeSent`
is delivered twice only before its request is redirected, and only once more (`RepeatRequest`): the recorder knows
a duplicate by its having no redirect response (`recorder.go:256`), so a redirected hop delivered twice would
make another entry. That Chrome does not do this is an assumption.

### WorkspaceItems

`at` is the next exchange: `open`, then `select`, `delete`, `confirm`, `refresh` per
row, and `restore` on every way out, as the deferred function of
`withWorkspaceTab` does. `Post`, `Answer`, `Fail` and `LateEffect` are as in
`CreateReport`. Dynamics is the tab of the captured browser: rows, the active row, marked rows
and the confirmation dialog. `Doomed` is the rule the protocol notes give for Delete: the
marked rows, or the active one when none is marked. `Meddle` are other users.
The client looks for marks only among the records in the answer to a selection (`LookedAt`),
and not at all when the row is active already and not selected. `overlooked` records the rows
that were marked then and not looked at; `ids`, `target`, `removed` are the locals of `deleteWorkspaceItems`.

Assumptions: an acknowledged change of tab was made; others do not change what is
active or marked in this browser; rows are told apart by their identifiers. The answer to a
selection may be any part of the grid: the tests have answers that hold only what changed
(`workspace_items_test.go:52`), as `report_delete.go:119` expects too.

## Runs

| Run | Shows | Bounds |
|---|---|---|
| `store` | keys, ciphertext, reports and acknowledgements survive every interruption; operations on one name never cost another its key, copies included | one name with three keys (old, new, and one left over) and two contents, or two names with two keys and one content (`Scope`); two faults (a crash followed by a power loss, a copy followed by damage) |
| `store_removal` | *violation*, finding 1 | one name, one key |
| `execution` | mutual exclusion, freshness, no number reused, the capability refinement; every command ends | two processes (exclusion and hand-over are between pairs), two captures to replace one with the other, one operator, numbers 0..1 and the one after |
| `execution_unlockers` | *violation*, finding 2 | two operators |
| `create` | the promise, completeness, checkpoint, plan, and headroom with receipts | up to two receipts (a first, a next, a last), every combination of approvers, lines and final action; `MaxSeq` 28 lets operations start with room to spare, exactly enough and one too little |
| `create_headroom` | *violation*, finding 3 | requests without receipts, `MaxSeq` 12 |
| `drafts` | headroom and plan; only the target is touched; approvers, lines and receipts are at every moment on the way from what they were to what was asked for; every command implements `RemoteMutation` | three reports, two of them listed; four workers, two of whom share a name, `MaxApprovers` 3 and a report with four (refused); one or two lines with up to two rows; up to three receipts, two with the name asked for; two uploads; four lines: two that differ in the merchant alone, and two of which one shows no merchant, so that either passes for the other |
| `attach_twin` | *violation*, finding 4 | the same |
| `recorder` | entries have the data of their own hop; bodies and marks are right, also around the cutoff | one request of two hops, one repeat, one base event under way, one orphan, one task. Chains are independent but for the two limits, which one request reaches |
| `capture` | a session continues the open page with the right numbers; its root exists; a receipt profile is true | three kinds of recordings: a page that is loaded and used (4 entries), a draft flow (4 entries: the flow and one more), a receipt flow (9 entries: the flow's eight and one more); one fault; two places, two fingerprints, three reports of which two are Drafts |
| `workspace` | the number reported is true, success is complete, only matching rows and those whose mark was overlooked go, numbers last | two matching rows (a first and a next) and two others, two marks, any part of the grid in the answer to a selection, two changes by others, every starting number up to `MaxSeq` 13, one above the headroom for two deletions |
| `workspace_marked` | *violation*, finding 5 | one mark, one change |

Deadlock is checked in every run: modules whose behaviour ends have a `Stop`
action saying when it may. Every property of a passing run has a mutant of the
modelled code (`Mut...`, beside the operator it changes) that violates it.

`drafts` starts from `SmallInit`: what an operation does not look at is fixed (the grid, except for show,
submit and delete, which all open or delete through it; the marked receipts, except for
removing), and header and lines are varied apart from each other in `new`,
where one follows the other and both end in the same `save`.
`HeaderInputs` and `ReportApprovers` have a case for each way `setInterimApprovers`
can go: nothing, all or a part matches; too many rows; a shared name; by alias.

**Fairness.** Only `FairSpec` of `SessionExecution` has any (run `execution`, which
therefore uses no symmetry): weak fairness of what a live process does by itself. `ExchangeFails` is among these because every
request's context carries the command's `--timeout`. Answers are not fair, nor are
crashes, unlocking or new commands.

## Theorems

Checked by TLAPS for every value of the constants.

| Theorem | Assumes | Argument |
|---|---|---|
| `SessionStoreProofs!TypeCorrect`, `KeysAreKept` | the constants' assumption | Invariant: an entry's key is bound to its name; new keys are used by no entry until renamed; a fresh key is held until then; the old key is retired only after `onDisk` shrank to the new entry. `KeysOutliveCiphertext` is not inductive without what a running operation knows of its keys. |
| `KeysAreAccountedFor`, `AcknowledgementsLast` (same module) | the constants' assumption | Invariant `Kept`, on top of the first: an operation remembers the key of the file it replaces (`Remembered`), or a fault came between; until the synchronisation is known to have worked nothing is acknowledged but what every entry has (`Durable`). |
| `SessionExecutionProofs!TypeCorrect` | | |
| `OneOwner`, `ReadySessionsAreFresh`, `SequenceNumbersAreUsedOnce` | `OneOperator` | Invariant: the owner holds the lock; the captures on disk were imported; a process that is executing sees `in_progress` in every entry on disk of its capture; so a ready entry is of a capture nobody sends with. |
| `SessionsAreCapabilities` (same module) | `OneOperator` | From that invariant: every step maps to `Move`, `Use`, `Settle` or a stutter. |
| `CreateReportProofs!TypeCorrect`, `SubmissionsAreComplete`, `CreationKeepsItsPromise` | the constants' assumption | Invariant `TypeOK /\ Progress /\ Shape`: up to `create` there is no report; afterwards the report has what the exchanges so far were accepted for, and at most one request's effect more. |
| `CheckpointsAreCurrent`, `PlansAreExact`, `ReservedNumbersSuffice` (same module) | the constants' assumption; the last is about requests with receipts (finding 3 shows why) | `Tally` counts requests by exchange; `Reserve` bounds what the rest of the operation can still send. |
| `WorkspaceItemsProofs!TypeCorrect`, `ReservedNumbersSuffice`, `DeletionsMatch` | the constants' assumption | Invariant: in the loop a row is left to delete (`Progress`); what is still to be sent fits (`Fits`); while a confirmation is due or under way its row is active and no other request that could select another is (`Aimed`). Without the last a late selection could redirect the deletion. Rows deleted besides the target were marked when it was selected, or found active, and are then in `overlooked` unless the answer showed them, which ends the operation. |
| `RemovedIsTrue`, `SuccessIsWhole` (same module) | the constants' assumption | Invariant `Honest`: matching rows that are gone and were not in the last list are at least the rows counted as removed (`Found`); this client deleted one row for each, overlooked ones apart, or one more if a confirmation is uncertain (`Own`); when the operation succeeded nothing is under way (`Outcome`). |
| `DraftPartsProofs!OtherReportsSafe` | the constants' assumptions | Invariant: the open form is the target's, unless the operation ended on opening another; from the mark accepted until no deletion can be carried out any more, the listed rows marked are exactly the target. No part leads into a deletion but the mark. |
| `ReceiptsSafe`, `AttachmentRight` (same module) | the constants' assumptions | Invariant: a removal has found exactly `count` receipts with the name, none attached, before its first request; as long as one may be carried out, whatever Dynamics would remove has the name; while Attach may be carried out the active receipt has the name and the popup's active line is one `Alike` to the line asked for: the line itself, unless it has a `Twin`. |
| `ApproversRight` (same module) | the constants' assumptions | Invariant: between requests the client knows the rows as they are, and the last one is active when a deletion, a confirmation or a name is sent (`DialogOK`); the rows are a start of those the report had while it deletes, those kept and added while it appends, and these with a blank row while it resolves a name. Tracking IDs are distinct, so that what Dynamics deletes or resolves is the row the client means. How many approvers match is defined by `CHOOSE`; that such a number exists is an induction over a set of numbers (`SetInduction`). |
| `LinesRight` (same module) | the constants' assumptions | Invariant `LinesInv`: what the client knows of the list is true or nothing (`seen`); while a line is made, the report has the lines before it and nothing else, and what the dialog holds of it is right in the fields set so far; while it is itemized, the rows of the sheet are right up to the row at work. The list shows keys and no more, so that after saving the client only sees how many lines of each key there are: that these are the lines asked for is a matter of counting (`Total`, a fold over the list, whose laws are proved as statements about its partial sums). |
| `DraftReportsProofs!TypesRight` | the constants' assumptions | Each part keeps its type, given what the others know when they hand over: which steps a command consists of (`WayInv`), and that a receipt picked is one of the report's. |
| `CommandsKeepTheirPromise` (same module) | the constants' assumptions | Invariant `IInv`: the parts not yet begun, or not part of the command, are as they were at the start (`Frame`); a part that is over is done (`HeaderOn`, `LinesInv`, `ReceiptsOn`). Before the first request that changes something nothing has changed (`Clean`), and a request still under way after an ordinary failure changes nothing (`HonestFailure`); so a failure is honest, and a success is whole (`EndsDone`), but for attaching to a line with a twin, of which a success says no more than an uncertain outcome. |
| `HeadroomKept`, `PlansAreExact` (same module) | the constants' assumptions | Invariant `NumbersInv`: `Sent` tells, for every step and from how many rows, lines and receipts are done, how much has been sent by then (of the plan's requests, or of messages at most), and the counters never exceed it, nor differ from it where the plan is exact. Every accepted answer leads to a step whose `Sent` is at least as much larger as its request took (`HeaderSum`, `LinesSum`, `GridSum`, `ReceiptsSum`), and at every step what is left of the headroom suffices for the request (`RequestFits`). The plan is a sum over all lines and their rows, `Sent` one over those done so far: their difference is what the laws of `Total` are for. Approver rows are where the bound is not exact: a row is deleted in one to three messages, and `HeaderHeadroom` must cover every row being wrong at first. |
| `CDPRecorderProofs!Typing`, `HopsHaveTheirEntries`, `CachedHopsWere`, `BodiesAreNotConfused`, `NothingIsForgotten` | the constants' assumption | Invariant: the entries of a request are its first hops (`SettledInv`); every base event under way, buffered or being replayed is the next one of its request, or of a hop after the cutoff (`FlowInv`, `CutoffInv`); a scheduled fetch is of a settled entry (`TasksInv`). That only the last entry of a chain is still open is why an event that names just the request finds its own hop. |
| `ExtrasAreNotConfused` (same module) | the constants' assumption | On top of that, `QueueInv`: unless one was discarded, the orphans of a request, what is buffered of it and what has yet to arrive are, in this order, the supplemental events of consecutive hops, beginning after the last entry that has its own. `OrphansInv` bounds the orphans by those that were counted. |
| `BrowserCaptureProofs!TypesRight`, `SequencesContinue` | `SessionsAssumption` | The imports see the file alone, so the invariant relates it to the page and to Dynamics: the exchanges are numbered in the order of the entries (`FileOK`); those since the page was loaded went to its place, brought and acknowledged nothing the page had not seen, and were handled no further than Dynamics has come; the last one that could be parsed brought the page where it is (`PageOK`); a page that was loaded begins with an exchange without a language (`BeginningOK`), so that a group of one language cannot reach over a load. `SessionOf`, applied to any such file, then yields the page's place and numbers (`SessionsValid`, `SessionsFollow`). |
| `RootsLive` (same module) | `SessionsAssumption` | On top of that, `FormsInv`: from any exchange of the page to the end of the file, the answers that succeeded brought exactly what the page has seen since, once and in order (`WireOK`), for a message that is lost is sent again; a form that was made or shown is there, or a later message deletes it (`Told`); a recorded command is on a form that a message before it made (`CommandOK`). So what `Active` computes of the messages of the latest group is there in Dynamics. |
| `ReceiptsTrue` (same module) | `SessionsAssumption` | On top of that, `ReceiptInv`: Dynamics stacks its forms, with only dialogs in front of a details form, and the forms not of the start are each made by a message on this page (`StackInv`); if no exchange of the file is without a language, which `OneSession` demands, then no page was loaded (`LanguageOK`) and the parsed answers are what the page has seen (`AllSeen`). A dialog in front of the current form would thus be among the active ones, which the import refuses. The count an OK brought stays right, and the file uploaded last one of those counted, until a file is checked again (`OKsAttach`): no file can be uploaded without a check, nor attached without an upload, and the check that a lost answer hides is still to be repeated (`Settled`). |

In `CDPRecorder` the events of a kind are a queue per request; the lemmas on `Positions` (which hops they
belong to) replace an induction over it, for a queue only ever loses its first or gains its last.

Only model-checked is liveness (`CommandsEnd`), which is beyond TLAPS: every safety property of
the runs that pass is proved.

The violations are single behaviours and need no proof.

## Findings

1. **Removal loses track of a key in silence** (`store_removal`). If the keyring
   is unavailable when a session is removed, `Remove` deletes the file, forgets
   the key and returns nil, contrary to its own comment (`store.go:338`).
2. **Two operators can break a live lock** (`execution_unlockers`). `BreakLock` inspects
   and removes in two steps; the slower of two operators removes the lock of the
   process that started in between, and a sequence number is sent twice.
3. **Headroom off by one** (`create_headroom`). `CreateReport` reserves three numbers and
   sends four messages.
4. **A receipt goes to a line that looks alike** (`attach_twin`). The popup of Attach offers only
   lines without a receipt; if the line asked for has one and another has the same date and
   amount, and the same merchant or one of them shows none, the receipt is attached to that
   other line and success is reported.
5. **Rows marked in the browser** (`workspace_marked`). If the row to delete is already active,
   selecting it is skipped and so is the check that no other row is marked; Delete then
   acts on the marked row. The refresh afterwards turns this into an uncertain outcome, unless
   another user adds a row meanwhile (see the observation on marks).

## Observations

Met while modelling; the code does this, and nothing in the repository clearly says otherwise,
or only a test's name or a general sentence does.

- Beyond 32 supplemental events without a request the recorder discards one but keeps later
  ones (`recorder.go:495`), which then go to the wrong hop, unmarked. The test
  `TestRecorderDoesNotShiftExtraInfoAcrossRedirects` (`recorder_test.go:261`) does not reach the limit. `ExtrasNotShiftedUnlessDropped`
  excuses the requests concerned.
- The Reports tab is activated again even after a request without acknowledgement, under
  the same sequence number (`workspace_items.go:153`), where `docs/security.md:227` says
  that on ambiguous state the client stops.
- Deleting the only report listed always ends uncertain: a refresh without any report is an
  error (`report_delete.go:210`).
- Marks are looked for only in the answer to a selection (`workspace_items.go:220`). If the selection leaves
  another mark alone and its answer holds only what changed, Delete removes both rows; should
  another user add a row before the refresh, success is reported with one row deleted, and two were.
  `OnlyMatchingOrOverlooked` and `CountIsHonest` make exactly this exception.
- A row marked beyond the first page of the grid is invisible to the client, and Delete takes
  it too. `OnlyTargetTouched` speaks of listed reports where it comes to deleting.
- A new line is itemized on the assumption that it is the active one after saving; nothing checks.
- The subcategory of an itemization row is verified when it is resolved; a later change of it is only
  noticed in the final list.
- The imports of draft and receipt flows derive the next number from the answers with status 2xx: a failed last
  exchange is left out, so its number may be used again. The
  bootstrap imports refuse such a capture. A request answered with 2xx but not acknowledged leaves a
  gap instead. `SequencesFollow` says exactly this.
- `extractObservedWorkspaceOpen` may return a workspace that was left after the click it saw.
- A receipt capture that attaches a receipt to one report and reopens another is accepted; the client
  compares the count later (`receipt_client.go:288`).
- `Store.Load` reads a file and then its key, and may be called without the lock: a concurrent replacement in between
  gives an error that the next attempt does not.

## Plan

Done: session store, lifecycle, creation, workspace items, recorder, the commands on Drafts with
header, lines and receipts, and the imports, in order of what a failure costs. Next:

1. `ReportStatus`: `resolveReportStatusCandidates` against a declarative reference over all small grids.
2. The one-shot `AttachReceipt`: the receipt client with a capture of its own, after `ReceiptImport`.
3. The phases of `CreateReport` replaced by the modules of `DraftReports`: one step of upload by the
   receipt client's exchanges, the phases of the edits by operation `new`.

## Not modelled

Message building and parsing, discovery of controls, cookies and the anti-forgery header, flag parsing
and printing: data without state, covered by the unit tests; the models have what an answer
shows. Connecting to the browser and starting it: I/O of a library. Reading the status of submitted reports
(`submission.go`): planned. Limits on bytes and entries: reaching one fails the whole operation.
