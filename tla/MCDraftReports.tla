--------------------------- MODULE MCDraftReports ---------------------------
(* DraftReports on small reports.  Whatever an operation does not look at  *)
(* starts in one state.                                                    *)
EXTENDS DraftReports

CONSTANTS rep1, rep2, rep3, ada, bob, bo2, cyd, key1, key2, r1, r2, r3

MCReports == {rep1, rep2, rep3}
MCListed == {rep1, rep2}

MCWorkers == {ada, bob, bo2, cyd}
MCNameOf == [w \in MCWorkers |-> CASE w = ada -> "Ada" [] w = cyd -> "Cyd" [] OTHER -> "Bob"]
ByAlias(w) == [who |-> {w}, alias |-> TRUE]
ByName(ws) == [who |-> ws, alias |-> FALSE]
Input(f, n) == [fields |-> f, names |-> n]
MCHeaderInputs ==
  {NoHeader, Input(Fields, <<>>), Input({"final"}, <<ByName({ada})>>),
   Input({}, <<ByName({ada}), ByAlias(bob)>>),
   Input({}, <<ByAlias(ada), ByAlias(bob), ByName({cyd})>>),
   Input({}, <<ByName({bob, bo2}), ByName({ada})>>)}
MCReportApprovers ==
  {<<>>, <<ada>>, <<ada, bo2>>, <<ada, bob>>, <<ada, bo2, bob>>, <<ada, bob, bo2, cyd>>}

ItemRows == {<<>>, <<[key |-> key2, days |-> 2, dated |-> FALSE]>>,
             <<[key |-> key1, days |-> 1, dated |-> TRUE],
               [key |-> key2, days |-> 1, dated |-> FALSE]>>}
MCLine(k, f, items) == [key |-> k, fields |-> f, rows |-> items]
MCLineInputs ==
  {<<>>} \cup {<<MCLine(key1, 4, items)>> : items \in ItemRows}
  \cup {<<MCLine(key1, 3, items), MCLine(key2, 3, <<>>)>> : items \in ItemRows}
MCReportLines == {NoLines, Plus(Plus(NoLines, <<key1, TRUE>>, 1), <<OtherKey, TRUE>>, 1)}

MCReceipts == {r1, r2, r3}
MCNamed == {r1, r2}
MCReportReceiptSets == {{}, {r1}, {r1, r3}, MCReceipts}
Look(w, m) == [what |-> w, merchant |-> m, inPopup |-> m]
MCLooks == <<Look("some", "Cafe"), Look("some", "Hotel"),
             Look("other", "Cafe"), Look("other", NoMerchant)>>

GridIsPlain == active = rep1 /\ marked = {} /\ status[rep1] = "Draft"
HeaderIsPlain == before = <<ada>> /\ header = Input({"final"}, <<ByName({ada})>>)
SmallInit ==
  /\ Init
  /\ op \notin {"show", "submit", "delete"} => GridIsPlain
  /\ op = "new" /\ wanted # <<>> /\ HasHeader => HeaderIsPlain
  /\ op # "remove" => marks = {}
SmallSpec == SmallInit /\ [][Next]_vars
=============================================================================
