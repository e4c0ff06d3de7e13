-------------------------- MODULE MCBrowserCapture -------------------------
(* BrowserCapture with three kinds of recordings: a page that is loaded and *)
(* used a little, a draft flow, and a receipt flow.                         *)
EXTENDS BrowserCapture

CONSTANTS repA, repB
Symmetry == Permutations({repA, repB})

MCSession(start, loads, entries, maxFaults, commands) ==
  [start |-> start, loads |-> loads, polls |-> loads, bodiless |-> loads,
   entries |-> entries, faults |-> maxFaults, commands |-> commands]
MCSessions ==
  {MCSession("none", TRUE, 4, 1, {"New", "Leave", "Cancel"}),
   MCSession("workspace", TRUE, 4, 1, {"New", "Create", "Save", "Leave", "Open"}),
   MCSession("dialog", FALSE, 9, 1,
             {"CheckFile", "CloseUpload", "OK", "Save", "Open", "Add", "Cancel", "Submit"})}
=============================================================================
