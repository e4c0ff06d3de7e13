----------------------------- MODULE ReportsGrid -----------------------------
(***************************************************************************)
(* The workspace's grid of reports and the details form of an open report  *)
(* (internal/expense/existing_report.go and report_delete.go): finding,    *)
(* activating and opening a Draft, saving and closing it, submitting it,   *)
(* and deleting it through the mark, Delete and Yes of the grid.           *)
(*                                                                         *)
(* Dynamics acts on what is active or marked in the grid, not on what the  *)
(* client means: a selection it ignores, and marks left there before the   *)
(* capture, are what the client must notice.                               *)
(***************************************************************************)
EXTENDS ClientRequests, FiniteSets

CONSTANTS
  Reports,  \* the reports of the user
  Listed,   \* those of the first page, which a refresh lists
  Target,   \* the report with the number asked for
  NoReport

ASSUME GridAssumption ==
  Target \in Listed /\ Listed \subseteq Reports /\ NoReport \notin Reports

VARIABLES
  status,   \* of each report in Dynamics; "Other" is any but Draft it began with
  active,   \* the grid's active row
  marked,   \* the grid's marked rows
  form,     \* the report whose details form is open, or NoReport
  deleting  \* the confirmation of a deletion is open

gridVars == <<status, active, marked, form, deleting>>

GridSteps == {"refresh", "activate", "link", "save", "submit", "resubmitted",
              "mark", "delete", "yes", "gone"}

Remaining == {r \in Reports : status[r] # "gone"}

GridTypeOK ==
  /\ status \in [Reports -> {"Draft", "Other", "Submitted", "gone"}]
  /\ active \in Reports /\ marked \subseteq Reports
  /\ form \in Reports \cup {NoReport}
  /\ deleting \in BOOLEAN

\* A browser has used the grid before the capture.
GridInit ==
  /\ status \in {s \in [Reports -> {"Draft", "Other"}] :
                   \A r \in Reports \ {Target} : s[r] = "Draft"}
  /\ active \in Reports /\ marked \in SUBSET Reports
  /\ form = NoReport /\ deleting = FALSE

-----------------------------------------------------------------------------
(* Dynamics.                                                               *)

\* "Dynamics deletes every marked row", else the active one.
Deletable == IF marked = {} THEN {active} ELSE marked

\* A select may be ignored, or activate the row without marking it, or mark
\* every row from the pivot, the active row that the request names.
GridCarry(step) ==
  CASE step = "activate" ->
         active' = Target /\ UNCHANGED <<status, marked, form, deleting>>
    [] step = "link" ->
         form' = active /\ UNCHANGED <<status, active, marked, deleting>>
    [] step = "save" ->
         form' = NoReport /\ UNCHANGED <<status, active, marked, deleting>>
    [] step = "submit" ->
         /\ form # NoReport
         /\ status' = [status EXCEPT ![form] = "Submitted"]
         /\ form' \in {form, NoReport}
         /\ UNCHANGED <<active, marked, deleting>>
    [] step = "mark" ->
         /\ active' = Target
         /\ marked' \in {marked, marked \cup {Target}, {Target}, {active, Target}}
         /\ UNCHANGED <<status, form, deleting>>
    [] step = "delete" ->
         deleting' = TRUE /\ UNCHANGED <<status, active, marked, form>>
    [] step = "yes" ->
         /\ deleting /\ deleting' = FALSE
         /\ \/ status' = [r \in Reports |-> IF r \in Deletable THEN "gone" ELSE status[r]]
            \/ UNCHANGED status
         /\ UNCHANGED <<active, marked, form>>
    [] OTHER -> UNCHANGED gridVars

-----------------------------------------------------------------------------
(* The client.                                                             *)

\* openDraftReport, and the reads of DeleteDraftReport: the target is found
\* as a Draft, no listed row is marked, some row is active.
Found == status[Target] = "Draft" /\ marked \cap Listed = {}

\* DeleteDraftReport: exactly the target is marked, and it is active.
MutOnlyTargetMarked == Target \in marked' /\ active' = Target
OnlyTargetMarked == marked' \cap Listed = {Target} /\ active' = Target

\* The answers that are accepted; exit is the step after opening the report.
GridAccept(removal, exit) ==
  \/ /\ at = "refresh" /\ Found
     /\ Proceed(IF removal THEN "mark"
                ELSE IF active = Target THEN "link" ELSE "activate")
  \/ at = "activate" /\ active' = Target /\ Proceed("link")
  \/ at = "link" /\ form' = Target /\ status[Target] = "Draft" /\ Proceed(exit)
  \/ at = "save" /\ form' = NoReport /\ Proceed("done")
  \/ at = "submit" /\ form' = NoReport /\ Proceed("resubmitted")
  \/ /\ at = "resubmitted"
     /\ status[Target] = "Submitted" /\ Proceed("done")
  \/ at = "mark" /\ OnlyTargetMarked /\ Proceed("delete")
  \/ at = "delete" /\ deleting' /\ Proceed("yes")
  \/ at = "yes" /\ ~deleting' /\ Proceed("gone")
  \* A refresh that lists no report at all is an error too.
  \/ at = "gone" /\ Target \notin Remaining /\ Remaining # {} /\ Proceed("done")

-----------------------------------------------------------------------------
(* Whatever fails and whatever was marked or active, no listed report but  *)
(* the one asked for is ever deleted (report_delete.go: "exactly that      *)
(* report"), nor any other submitted or worked on.  Marks beyond the first *)
(* page the client cannot see.                                             *)
OnlyTargetTouched ==
  /\ \A r \in Listed \ {Target} : status[r] = "Draft"
  /\ \A r \in Reports \ {Target} : status[r] # "Submitted"
  /\ Pending /\ posted = "none" /\ form # NoReport => form = Target
=============================================================================
