---------------------------- MODULE ReportHeader ----------------------------
(***************************************************************************)
(* Editing the header of an open Draft (internal/expense/report_header.go):*)
(* title and final approver in the Edit expense report dialog, and the     *)
(* interim approvers, which setInterimApprovers changes row by row in a    *)
(* dialog of their own: it keeps the rows that match the start of the      *)
(* names, deletes the others from the end, appends and resolves the        *)
(* missing ones.                                                           *)
(*                                                                         *)
(* Dynamics saves each change as soon as it accepts it, inserts new rows   *)
(* after the active one, deletes the active one, and reloads the list      *)
(* under new tracking IDs; it may ignore a click, resolve a name to nobody *)
(* or to somebody else, and answer without the whole list.                 *)
(***************************************************************************)
EXTENDS ClientRequests, Sequences, FiniteSets, SequencesExt

CONSTANTS
  Workers,
  NameOf,        \* the display name of each, which several may share
  Blank,         \* the worker of a row that has none
  MaxApprovers,  \* maxInterimApprovers
  HeaderInputs   \* the changes considered

Fields == {"title", "final"}

\* A field that is asked for and already right takes no request: the fields of
\* an input are those that differ.  An approver is asked for by display name or
\* by user alias; who is the set of workers that match.
Approver == [who: SUBSET Workers, alias: BOOLEAN]
HeaderInput ==
  [fields: SUBSET Fields,
   names: {s \in Seq(Approver) : Len(s) <= MaxApprovers}]

ASSUME HeaderAssumption ==
  /\ MaxApprovers \in Nat \ {0} /\ Blank \notin Workers
  /\ HeaderInputs \subseteq HeaderInput

VARIABLES
  header,      \* the change asked for: fields, and names (<<>> for none)
  before,      \* the interim approvers the report had
  unset,       \* its fields that Dynamics does not have yet
  rows,        \* the rows of the approvers dialog, saved unless blank
  current,     \* the tracking ID of the active row, 0 for none
  lastId,      \* the last tracking ID given
  dialogs,     \* approvers dialogs open
  asking,      \* the confirmation of a row's deletion is open
  editing,     \* the edit dialog is open
  view,        \* approverRows: the rows as the client knows them
  keep,        \* rows that are as they should be: those kept, then those added
  listed       \* interim approvers in the edit dialog's record, as shown

dynamicsHeader == <<unset, rows, current, lastId, dialogs, asking, editing>>
clientHeader == <<header, before, view, keep, listed>>
headerVars == <<dynamicsHeader, clientHeader>>

HeaderSteps == {"menu", "edit", "title", "final", "approvers", "row", "deleteRow",
                "confirm", "new", "resolve", "okDialog", "okEdit"}

Row == [id: Nat \ {0}, worker: Workers \cup {Blank}]
WorkersOf(list) == [i \in DOMAIN list |-> list[i].worker]
IdsOf(list) == {list[i].id : i \in DOMAIN list}
\* Approvers of the report: the rows that are saved, all but a blank one.
Blanks(list) == {i \in DOMAIN list : list[i].worker = Blank}
Filled(list) == IF Blanks(list) = {} THEN list
                ELSE RemoveAt(list, CHOOSE i \in Blanks(list) : TRUE)
Saved == WorkersOf(Filled(rows))

HeaderTypeOK ==
  /\ header \in HeaderInput /\ before \in Seq(Workers)
  /\ unset \subseteq Fields
  /\ rows \in Seq(Row) /\ view \in Seq(Row) /\ Len(view) <= MaxApprovers
  /\ current \in Nat /\ lastId \in Nat
  /\ dialogs \in 0 .. 2 /\ asking \in BOOLEAN /\ editing \in BOOLEAN
  /\ keep \in Nat
  /\ listed \in Seq(Workers)

HeaderInit(inputs, reports) ==
  /\ header \in inputs /\ before \in reports
  /\ unset = header.fields
  /\ rows = [i \in DOMAIN before |-> [id |-> i, worker |-> before[i]]]
  /\ lastId = Len(before) /\ current = 0
  /\ dialogs = 0 /\ asking = FALSE /\ editing = FALSE
  /\ view = <<>> /\ keep = 0 /\ listed = <<>>

-----------------------------------------------------------------------------
(* Numbers.                                                                *)

HeaderHeadroom == 16 + 12 * MaxApprovers

\* Requests when no row has to be deleted or reselected.
HeaderRequestCount(input) ==
  3 + Cardinality(input.fields)
  + (IF input.names = <<>> THEN 0 ELSE 3 + 2 * Len(input.names))

\* The name being resolved is that of the last row.
Name == header.names[Len(view)]
HeaderMessages(step) ==
  IF step = "final" \/ (step = "resolve" /\ ~Name.alias) THEN 2 ELSE 1
Repair(step) == step \in {"row", "deleteRow", "confirm"}

-----------------------------------------------------------------------------
(* Dynamics.                                                               *)

Reloaded(list) ==
  /\ rows' = [i \in DOMAIN list |-> [list[i] EXCEPT !.id = lastId + i]]
  /\ lastId' = lastId + Len(list)
  /\ current' \in IF list = <<>> THEN {0} ELSE IdsOf(rows')

Active(i) == rows[i].id = current
Deleted == \E i \in DOMAIN rows : Active(i) /\ Reloaded(RemoveAt(rows, i))

\* The row a selection is about: the last one, or the placeholder.
Selected == IF view = <<>> THEN rows[1].id ELSE view[Len(view)].id

HeaderCarry(step) ==
  CASE step \in Fields ->
         /\ unset' \in {unset, unset \ {step}}
         /\ UNCHANGED <<rows, current, lastId, dialogs, asking, editing>>
    [] step = "edit" ->
         /\ editing' = TRUE
         /\ UNCHANGED <<unset, rows, current, lastId, dialogs, asking>>
    [] step = "approvers" ->
         /\ dialogs' \in {1, 2}
         /\ IF rows = <<>>
            THEN /\ rows' = <<[id |-> lastId + 1, worker |-> Blank]>>
                 /\ lastId' = lastId + 1 /\ current' = lastId + 1
            ELSE current' \in IdsOf(rows) /\ UNCHANGED <<rows, lastId>>
         /\ UNCHANGED <<unset, asking, editing>>
    [] step = "row" ->
         /\ Selected \in IdsOf(rows) /\ current' = Selected
         /\ UNCHANGED <<unset, rows, lastId, dialogs, asking, editing>>
    [] step = "deleteRow" ->
         \* It asks before it deletes, as it does for a saved row, or does not.
         /\ \/ /\ \E i \in DOMAIN rows : Active(i) /\ rows[i].worker # Blank
               /\ asking' = TRUE /\ UNCHANGED <<rows, current, lastId>>
            \/ Deleted /\ UNCHANGED asking
         /\ UNCHANGED <<unset, dialogs, editing>>
    [] step = "confirm" ->
         /\ asking /\ asking' = FALSE
         /\ Deleted \/ UNCHANGED <<rows, current, lastId>>
         /\ UNCHANGED <<unset, dialogs, editing>>
    [] step = "new" ->
         /\ LET n == IF rows = <<>> THEN 0 ELSE CHOOSE i \in DOMAIN rows : Active(i)
            IN rows' = InsertAt(rows, n + 1, [id |-> lastId + 1, worker |-> Blank])
         /\ lastId' = lastId + 1 /\ current' = lastId + 1
         /\ UNCHANGED <<unset, dialogs, asking, editing>>
    [] step = "resolve" ->
         \* A name several workers share opens the lookup instead.
         /\ Cardinality(Name.who) <= 1
         /\ \E i \in DOMAIN rows, w \in Workers :
              Active(i) /\ rows' = [rows EXCEPT ![i].worker = w]
         /\ UNCHANGED <<unset, current, lastId, dialogs, asking, editing>>
    [] step = "okDialog" ->
         /\ dialogs' = dialogs - 1
         /\ UNCHANGED <<unset, rows, current, lastId, asking, editing>>
    [] step = "okEdit" ->
         /\ editing' = FALSE
         /\ UNCHANGED <<unset, rows, current, lastId, dialogs, asking>>
    [] OTHER -> UNCHANGED dynamicsHeader

-----------------------------------------------------------------------------
(* The client.                                                             *)

Matches(worker, approver) == worker \in approver.who

\* The longest start of a list of workers that matches the names.
Kept(list) ==
  CHOOSE n \in 0 .. Len(list) :
    /\ n <= Len(header.names)
    /\ \A i \in 1 .. n : Matches(list[i], header.names[i])
    /\ n < Len(list) /\ n < Len(header.names) =>
         ~Matches(list[n + 1], header.names[n + 1])

\* What the edit dialog lists is display names.
SameNames(list, other) ==
  /\ Len(list) = Len(other)
  /\ \A i \in DOMAIN list : NameOf[list[i]] = NameOf[other[i]]
NamesListed(list) ==
  /\ Len(list) = Len(header.names)
  /\ \A i \in DOMAIN list : ~header.names[i].alias /\ Matches(list[i], header.names[i])

ToApprovers(list) ==
  IF header.names = <<>> \/ NamesListed(list) THEN "okEdit" ELSE "approvers"
AfterTitle(list) == IF "final" \in unset' THEN "final" ELSE ToApprovers(list)
AfterEdit(list) == IF "title" \in unset' THEN "title" ELSE AfterTitle(list)

\* What comes next in the approvers dialog, from the rows as now known.
MutAtLast == "new"
AtLast == IF current' = view'[Len(view')].id THEN "new" ELSE "row"
NextRow ==
  IF Len(view') > keep' THEN IF current' = view'[Len(view')].id THEN "deleteRow" ELSE "row"
  ELSE IF Len(view') = Len(header.names) THEN "okDialog"
  ELSE IF view' # <<>> THEN AtLast
  ELSE IF rows' = <<>> THEN "new"
  ELSE IF current' = rows'[1].id THEN "resolve" ELSE "row"

\* The final comparison of the rows with the names.
AllMatch ==
  /\ Len(view') = Len(header.names)
  /\ \A i \in DOMAIN view' : Matches(view'[i].worker, header.names[i])
ToNextRow == (NextRow = "okDialog" => AllMatch) /\ Proceed(NextRow)

MutSupported == TRUE
Supported == Len(rows') <= MaxApprovers
Placeholder(list) == Len(list) = 1 /\ list[1].worker = Blank
\* A placeholder that is active is taken over at once.
Opened ==
  /\ Supported
  /\ Placeholder(rows') \/ Blanks(rows') = {}
  /\ keep' = IF Placeholder(rows') THEN 0 ELSE Kept(WorkersOf(rows'))
  /\ LET shown == IF Placeholder(rows') THEN <<>> ELSE rows'
         taken == Placeholder(rows') /\ current' = rows'[1].id
     IN /\ view' = IF taken THEN rows' ELSE shown
        /\ IF taken THEN Proceed("resolve") ELSE ToNextRow

\* A deletion is accepted only when every row but the last is still there.
LastDeleted == WorkersOf(rows') = SubSeq(WorkersOf(view), 1, Len(view) - 1)

HeaderAccept(exit) ==
  \/ /\ at = "menu" /\ Proceed("edit") /\ UNCHANGED clientHeader
  \/ /\ at = "edit" /\ editing'
     /\ listed' = before /\ Proceed(AfterEdit(before))
     /\ UNCHANGED <<header, before, view, keep>>
  \/ /\ at = "title" /\ "title" \notin unset'
     /\ Proceed(AfterTitle(listed)) /\ UNCHANGED clientHeader
  \/ /\ at = "final" /\ "final" \notin unset'
     /\ Proceed(ToApprovers(listed)) /\ UNCHANGED clientHeader
  \/ /\ at = "approvers" /\ dialogs' > 0 /\ Opened
     /\ UNCHANGED <<header, before, listed>>
  \/ /\ at = "row" /\ current' = Selected
     /\ view' = IF view = <<>> THEN rows' ELSE view
     /\ UNCHANGED <<header, before, keep, listed>>
     /\ IF view = <<>> THEN Proceed("resolve") ELSE ToNextRow
  \/ at = "deleteRow" /\ asking' /\ Proceed("confirm") /\ UNCHANGED clientHeader
  \/ /\ at \in {"deleteRow", "confirm"} /\ ~asking' /\ LastDeleted
     /\ view' = rows' /\ UNCHANGED <<header, before, keep, listed>>
     /\ ToNextRow
  \/ /\ at = "new"
     /\ current' \in IdsOf(rows') \ IdsOf(view)
     /\ \E full \in BOOLEAN :
          view' = IF full THEN rows'
                  ELSE Append(view, [id |-> current', worker |-> Blank])
     /\ Len(view') = Len(view) + 1 /\ view'[Len(view')].id = current'
     /\ keep' = Len(view') /\ UNCHANGED <<header, before, listed>>
     /\ Proceed("resolve")
  \/ /\ at = "resolve"
     /\ \E i \in DOMAIN rows' :
          /\ rows'[i].id = view[Len(view)].id
          /\ Matches(rows'[i].worker, Name)
          /\ view' = [view EXCEPT ![Len(view)] = rows'[i]]
     /\ keep' = Len(view') /\ UNCHANGED <<header, before, listed>>
     /\ ToNextRow
  \/ /\ at = "okDialog" /\ dialogs' = dialogs - 1
     /\ listed' \in {listed, Saved}
     /\ dialogs' = 0 => SameNames(listed', WorkersOf(view))
     /\ Proceed(IF dialogs' > 0 THEN "okDialog" ELSE "okEdit")
     /\ UNCHANGED <<header, before, view, keep>>
  \/ /\ at = "okEdit" /\ ~editing'
     /\ Proceed(exit) /\ UNCHANGED clientHeader

-----------------------------------------------------------------------------
HeaderDone ==
  /\ unset = {}
  /\ header.names # <<>> =>
       /\ Len(Saved) = Len(header.names)
       /\ \A i \in DOMAIN Saved : Matches(Saved[i], header.names[i])

(* At every moment, whatever fails, the report's interim approvers are the *)
(* ones it had without some of the last, or those that matched followed by *)
(* new ones as asked for, the last of them perhaps mistaken: an approver   *)
(* that matches the start of the names is never removed, and the order is  *)
(* never disturbed (README: "report edit keeps interim approvers that      *)
(* already match the start of the requested list").                        *)
StartMatches(n) ==
  n <= Len(header.names) /\ \A i \in 1 .. n : Matches(before[i], header.names[i])
Matching == CHOOSE n \in 0 .. Len(before) :
  StartMatches(n) /\ \A m \in 0 .. Len(before) : StartMatches(m) => m <= n
ApproversOnTheWay ==
  /\ Len(Saved) >= (IF header.names = <<>> THEN Len(before) ELSE Matching)
  /\ \/ \E n \in 0 .. Len(before) : Saved = SubSeq(before, 1, n)
     \/ /\ Len(Saved) <= Len(header.names)
        /\ \A i \in 1 .. Len(Saved) :
             \/ i <= Matching /\ Saved[i] = before[i]
             \/ i > Matching /\ Matches(Saved[i], header.names[i])
             \/ i > Matching /\ i = Len(Saved) /\ at = "resolve"
=============================================================================
