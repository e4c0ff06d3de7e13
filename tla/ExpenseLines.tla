---------------------------- MODULE ExpenseLines ----------------------------
(***************************************************************************)
(* Expense lines of an open Draft (internal/expense/expense_lines.go):     *)
(* adding lines one after the other through the New expense dialog, and    *)
(* itemizing a line through the Itemize expense dialog.                    *)
(*                                                                         *)
(* Dynamics may refuse a value, change other fields when one is set, save  *)
(* twice or not at all, and list the report's lines or not.  A line shows  *)
(* its category and date in the list, but not everything it consists of.   *)
(***************************************************************************)
EXTENDS ClientRequests, Sequences, FiniteSets, SequencesExt

CONSTANTS
  Keys,        \* lineKey: category and date of a line
  OtherKey,    \* that of a line nobody asked for
  LineInputs,  \* sequences of lines to add
  NoList       \* the lines are not known

\* A row of an itemization: the key of its lines, one per day (the code tells
\* their dates apart, here they share a key), and whether it has a start date
\* of its own.
ItemRow == [key: Keys, days: Nat \ {0}, dated: BOOLEAN]
\* expenseLineFields: category, date, amount, and up to three optional fields.
LineInput == [key: Keys, fields: 3 .. 6, rows: Seq(ItemRow)]

ASSUME LinesAssumption ==
  /\ OtherKey \notin Keys
  /\ LineInputs \subseteq Seq(LineInput)

VARIABLES
  wanted,    \* the lines to add, or the one line to itemize
  sums,      \* the rows add up to the line's amount
  lines,     \* the report's lines in Dynamics, by key and exactness
  dialog,    \* the dialog open in Dynamics: "none", "line" or "sheet"
  right,     \* fields of the New expense dialog that are as asked for
  sheet,     \* rows of the itemization: what is right of each
  card,      \* the active line is the one to itemize
  original,  \* the lines the report had
  seen,      \* expenseLineSession.lines
  nth,       \* the line being added
  field      \* the field being set

dynamicsLines == <<lines, dialog, right, sheet, card>>
clientLines == <<wanted, sums, original, seen, nth, field>>
linesVars == <<dynamicsLines, clientLines>>

LinesSteps == {"newLine", "field", "saveLine", "pickLine", "lineMenu", "sheet",
               "newRow", "subcategory", "start", "rate", "quantity", "closeSheet"}
RowParts == {"subcategory", "start", "rate", "quantity"}

AllKeys == Keys \cup {OtherKey}
Bag == [AllKeys \X BOOLEAN -> Nat]
NoLines == [kind \in AllKeys \X BOOLEAN |-> 0]
Counts(bag) == [k \in AllKeys |-> bag[<<k, TRUE>>] + bag[<<k, FALSE>>]]
Plus(bag, kind, n) == [bag EXCEPT ![kind] = @ + n]
Total(list) == FoldLeft(LAMBDA a, b : a + b, 0, list)
\* The lines of all days of the rows, each row's of its kind.
PlusAll(bag, kinds, items) ==
  [kind \in DOMAIN bag |->
     bag[kind] + Total([i \in DOMAIN kinds |-> IF kinds[i] = kind THEN items[i].days ELSE 0])]

Line == wanted[nth]
Rows == Line.rows
HasRows == Rows # <<>>

LinesTypeOK ==
  /\ wanted \in Seq(LineInput) /\ sums \in BOOLEAN
  /\ lines \in Bag /\ original \in Bag
  /\ dialog \in {"none", "line", "sheet"}
  /\ right \subseteq 1 .. 6
  /\ sheet \in Seq(SUBSET RowParts)
  /\ card \in BOOLEAN
  /\ seen \in [AllKeys -> Nat] \cup {NoList}
  /\ nth \in Nat \ {0} /\ field \in Nat

\* A line of the report is itemized only if the report lists all of its lines,
\* and may be the active one; the rows of a new line are known to add up.
LinesInit(inputs, reports, existing) ==
  /\ wanted \in inputs
  /\ original \in reports /\ lines = original
  /\ dialog = "none" /\ right = {} /\ sheet = <<>>
  /\ IF existing THEN sums \in BOOLEAN /\ card \in BOOLEAN /\ seen = Counts(original)
     ELSE sums = TRUE /\ card = FALSE /\ seen \in {Counts(original), NoList}
  /\ nth = 1 /\ field = 0

-----------------------------------------------------------------------------
(* Numbers.                                                                *)

RowRequests(row) == 3 + (IF row.dated THEN 1 ELSE 0)
AllRowRequests(items) == Total([i \in DOMAIN items |-> RowRequests(items[i])])
MutItemizeRequests(items) ==
  IF items = <<>> THEN 0 ELSE 3 + Len(items) + AllRowRequests(items)
ItemizeRequests(items) ==
  IF items = <<>> THEN 0 ELSE 3 + (Len(items) - 1) + AllRowRequests(items)
LineRequestCount(new) == 2 + new.fields + ItemizeRequests(new.rows)
LinesRequestCount(list) == Total([i \in DOMAIN list |-> LineRequestCount(list[i])])
MutLinesHeadroom(list) == LinesRequestCount(list)
LinesHeadroom(list) ==
  Total([i \in DOMAIN list |-> LineRequestCount(list[i]) + Len(list[i].rows)])

\* Setting a subcategory and resolving it is one request of two messages.
LinesMessages(step) == IF step = "subcategory" THEN 2 ELSE 1

-----------------------------------------------------------------------------
(* Dynamics.                                                               *)

\* The line that saving the dialog makes: what matters of its fields is
\* whether category and date, and whether all, are right.
SavedKind ==
  <<IF {1, 2} \subseteq right THEN Line.key ELSE OtherKey, right = 1 .. Line.fields>>
RowKind(i) ==
  <<IF {"subcategory", "start"} \subseteq sheet[i] THEN Rows[i].key ELSE OtherKey,
    sheet[i] = RowParts>>
Itemized == PlusAll(lines, [i \in DOMAIN sheet |-> RowKind(i)], Rows)

\* The start date of a row is right by itself unless it has one of its own.
NewRowParts == IF Rows[Len(sheet) + 1].dated THEN {} ELSE {"start"}
LastRow(parts) == [sheet EXCEPT ![Len(sheet)] = parts]

LinesCarry(step) ==
  CASE step = "newLine" ->
         /\ dialog' = "line"
         /\ right' \in SUBSET (2 .. Line.fields)
         /\ UNCHANGED <<lines, sheet, card>>
    [] step = "field" ->
         \* Setting one field may disturb another.
         /\ \E lost \in SUBSET right :
              Cardinality(lost) <= 1 /\ right' = (right \ lost) \cup {field}
         /\ UNCHANGED <<lines, dialog, sheet, card>>
    [] step = "saveLine" ->
         /\ \E n \in 0 .. 2 : lines' = Plus(lines, SavedKind, n)
         /\ dialog' \in {"none", dialog}
         /\ card' = TRUE  \* the line just saved, which the client relies on
         /\ UNCHANGED <<right, sheet>>
    [] step = "pickLine" ->
         card' = TRUE /\ UNCHANGED <<lines, dialog, right, sheet>>
    [] step = "sheet" ->
         /\ dialog' = "sheet" /\ sheet' = <<IF Rows[1].dated THEN {} ELSE {"start"}>>
         /\ UNCHANGED <<lines, right, card>>
    [] step = "newRow" ->
         /\ sheet' = Append(sheet, NewRowParts)
         /\ UNCHANGED <<lines, dialog, right, card>>
    [] step \in RowParts ->
         /\ \E lost \in SUBSET sheet[Len(sheet)] :
              /\ Cardinality(lost) <= 1
              /\ sheet' = LastRow((sheet[Len(sheet)] \ lost) \cup {step})
         /\ UNCHANGED <<lines, dialog, right, card>>
    [] step = "closeSheet" ->
         /\ dialog' \in {"none", dialog}
         /\ lines' \in {lines, Itemized}
         /\ UNCHANGED <<right, sheet, card>>
    [] OTHER -> UNCHANGED dynamicsLines

-----------------------------------------------------------------------------
(* The client.                                                             *)

\* observeLines, on every answer: a full list replaces what is known.
Observe(full) == seen' = IF full THEN Counts(lines') ELSE seen
Add(counts, key, n) == [counts EXCEPT ![key] = @ + n]
\* linesAdded: the list now differs from the list before by exactly that.
Added(counts) == seen # NoList /\ seen' = counts

\* Every field set so far is as asked for, the earlier ones too.
MutFieldsRight == field \in right'
FieldsRight == 1 .. field \subseteq right'

\* Nothing remains to be itemized: rates and days of all rows.
NothingRemains == \A i \in DOMAIN sheet' : {"rate", "quantity"} \subseteq sheet'[i]

Expected == PlusAll(seen, [i \in DOMAIN Rows |-> Rows[i].key], Rows)

AfterSubcategory == IF Rows[Len(sheet)].dated THEN "start" ELSE "rate"
AfterRow == IF Len(sheet) < Len(Rows) THEN "newRow" ELSE "closeSheet"
\* The next line, or the step after all of them.
NextLine(exit) ==
  IF nth < Len(wanted) THEN Proceed("newLine") /\ nth' = nth + 1
  ELSE Proceed(exit) /\ UNCHANGED nth

LinesAccept(exit) ==
  /\ UNCHANGED <<wanted, sums, original>>
  /\ \E full \in BOOLEAN : Observe(full) /\ (at \in {"saveLine", "closeSheet"} => full)
  /\ \/ /\ at = "newLine" /\ dialog' = "line"
        /\ field' = 1 /\ Proceed("field") /\ UNCHANGED nth
     \/ /\ at = "field" /\ FieldsRight /\ UNCHANGED nth
        /\ IF field < Line.fields THEN Proceed("field") /\ field' = field + 1
           ELSE Proceed("saveLine") /\ UNCHANGED field
     \/ /\ at = "saveLine" /\ dialog' = "none" /\ UNCHANGED field
        /\ seen # NoList /\ Added(Add(seen, Line.key, 1))
        /\ IF HasRows THEN Proceed("lineMenu") /\ UNCHANGED nth ELSE NextLine(exit)
     \/ /\ at = "closeSheet" /\ dialog' = "none" /\ UNCHANGED field
        /\ seen # NoList /\ Added(Expected)
        /\ NextLine(exit)
     \/ /\ UNCHANGED <<nth, field>>
        /\ \/ at = "pickLine" /\ card' /\ Proceed("lineMenu")
           \/ at = "lineMenu" /\ Proceed("sheet")
           \* The dialog's total is the amount that the rows add up to.
           \/ at = "sheet" /\ dialog' = "sheet" /\ sums /\ Proceed("subcategory")
           \/ at = "newRow" /\ Len(sheet') = Len(sheet) + 1 /\ Proceed("subcategory")
           \/ /\ at = "subcategory" /\ "subcategory" \in sheet'[Len(sheet)]
              /\ Proceed(AfterSubcategory)
           \/ at = "start" /\ Proceed("rate")
           \/ at = "rate" /\ Proceed("quantity")
           \/ /\ at = "quantity" /\ {"start", "rate", "quantity"} \subseteq sheet'[Len(sheet)]
              /\ AfterRow = "closeSheet" => NothingRemains
              /\ Proceed(AfterRow)

-----------------------------------------------------------------------------
(* What adding and itemizing the first n lines makes of the report.        *)
WithRows(bag, items) ==
  PlusAll(bag, [i \in DOMAIN items |-> <<items[i].key, TRUE>>], items)
WithLine(bag, new) == WithRows(Plus(bag, <<new.key, TRUE>>, 1), new.rows)
WithLines(bag, list) ==
  [kind \in DOMAIN bag |->
     bag[kind] + Total([i \in DOMAIN list |-> WithLine(NoLines, list[i])[kind]])]
=============================================================================
