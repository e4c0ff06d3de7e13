--------------------------- MODULE WorkspaceItems ---------------------------
(***************************************************************************)
(* Listing and deleting the unattached expenses and receipts of the        *)
(* workspace (internal/expense/workspace_items.go).                        *)
(*                                                                         *)
(* The client opens a tab, deletes matching rows one at a time, verifying  *)
(* each with a refresh, and goes back to the Reports tab on every way out. *)
(* The tab belongs to the browser the session was captured from: a row is  *)
(* active, some may be marked, and Delete acts on the marked rows, or on   *)
(* the active one if none is.  Other users add and remove rows meanwhile.  *)
(* Requests fail as in module CreateReport.                                *)
(*                                                                         *)
(* The client looks for marks only in the answer to a selection, which may *)
(* be no more than what the selection changed: a row marked before and     *)
(* left so need not be in it.                                              *)
(***************************************************************************)
EXTENDS Naturals, FiniteSets

CONSTANTS
  Items,         \* rows
  Matching,      \* those with the name or merchant asked for
  NoItem,        \* no row
  MaxDeletions,  \* maxWorkspaceDeletions
  MaxSeq,        \* math.MaxInt64
  MaxMarked,     \* bound on rows left marked in the browser
  MaxMeddling    \* bound on changes by others

ASSUME ConstantsAssumption ==
  /\ Matching \subseteq Items /\ NoItem \notin Items /\ IsFiniteSet(Items)
  /\ MaxDeletions \in Nat /\ MaxSeq \in Nat /\ MaxMarked \in Nat /\ MaxMeddling \in Nat

VARIABLES
  \* Dynamics:
  listed,     \* the rows there are
  active,     \* the active row of the tab
  marked,     \* the marked rows
  tab,        \* the tab that is open
  dialog,     \* is the confirmation dialog open
  late,       \* requests given up that may yet be carried out
  deleted,    \* rows this client deleted
  gone,       \* rows deleted, by whomever
  meddling,   \* changes by others so far
  \* The client:
  count,      \* rows to delete; none to list them
  at,         \* the next exchange, "idle" before and "done" after all
  waiting,    \* has its request been sent
  ids,        \* the rows last listed
  target,     \* the row being deleted
  removed,    \* rows deleted, as told to the caller
  err,        \* error of the operation inside the tab
  verdict,    \* error returned, "pending" before
  next,       \* nextClientSequence
  top,        \* the highest number sent
  overlooked  \* history: rows but the target that were marked when it was to be
              \* deleted, and not looked at

grid == <<listed, active, marked, deleted, gone>>
dynamics == <<grid, tab, dialog>>
client == <<count, at, waiting, ids, target, removed, err, verdict, next, top>>
vars == <<dynamics, late, meddling, client, overlooked>>

Loop == {"select", "delete", "confirm", "refresh"}
Exchanges == {"open", "restore"} \cup Loop
Errors == {"nil", "uncertain", "expired", "other"}

TypeOK ==
  /\ listed \subseteq Items /\ active \in Items \cup {NoItem} /\ marked \subseteq Items
  /\ tab \in {"Reports", "items"} /\ dialog \in BOOLEAN
  /\ late \subseteq Exchanges /\ deleted \subseteq gone /\ gone \subseteq Items
  /\ meddling \in 0 .. MaxMeddling
  /\ count \in 0 .. MaxDeletions
  /\ at \in Exchanges \cup {"idle", "done"} /\ waiting \in BOOLEAN
  /\ ids \subseteq Items
  /\ target \in Items \cup {NoItem}
  /\ removed \in 0 .. count
  /\ err \in Errors /\ verdict \in Errors \cup {"pending"}
  /\ next \in Nat /\ top \in Nat /\ overlooked \subseteq Items

Init ==
  /\ listed \in SUBSET Items /\ active \in listed \cup {NoItem}
  /\ marked \in {m \in SUBSET listed : Cardinality(m) <= MaxMarked}
  /\ tab = "Reports" /\ dialog = FALSE /\ late = {} /\ deleted = {}
  /\ gone = {} /\ meddling = 0
  /\ count = 0 /\ at = "idle" /\ waiting = FALSE
  /\ ids = {} /\ target = NoItem /\ removed = 0
  /\ err = "nil" /\ verdict = "pending"
  /\ next \in 1 .. MaxSeq /\ top = 0 /\ overlooked = {}

-----------------------------------------------------------------------------
(* Dynamics.                                                               *)

\* Selecting a row activates and marks it; other marks may stay.
Select ==
  /\ active' = target
  /\ marked' \in {{target}, marked \cup {target}}
  /\ UNCHANGED <<listed, deleted, gone, tab, dialog>>

\* Delete acts on the marked rows, or the active one when none is marked.
Doomed == listed \cap (IF marked # {} THEN marked ELSE {active})
Yes ==
  /\ dialog' = FALSE
  /\ IF dialog
     THEN /\ listed' = listed \ Doomed
          /\ deleted' = deleted \cup Doomed /\ gone' = gone \cup Doomed
          /\ marked' = {} /\ active' \in listed' \cup {NoItem}
     ELSE UNCHANGED grid
  /\ UNCHANGED tab

\* The request of an exchange is carried out.
CarryOut(step) ==
  \/ step = "open" /\ tab' = "items" /\ UNCHANGED <<grid, dialog>>
  \/ step = "restore" /\ tab' = "Reports" /\ UNCHANGED <<grid, dialog>>
  \/ step = "select" /\ Select
  \/ step = "delete" /\ dialog' = TRUE /\ UNCHANGED <<grid, tab>>
  \/ step = "confirm" /\ Yes
  \/ step = "refresh" /\ UNCHANGED dynamics

(* Others add or remove a row.                                             *)
Meddle ==
  /\ meddling < MaxMeddling /\ meddling' = meddling + 1
  /\ \/ \E i \in listed : listed' = listed \ {i} /\ gone' = gone \cup {i}
     \/ \E i \in Items \ (listed \cup gone) : listed' = listed \cup {i} /\ UNCHANGED gone
  /\ UNCHANGED <<active, marked, deleted, tab, dialog, late, client, overlooked>>

(* A request the client gave up takes effect after all.                    *)
LateEffect ==
  /\ \E step \in late : CarryOut(step) /\ late' = late \ {step}
  /\ UNCHANGED <<meddling, client, overlooked>>

-----------------------------------------------------------------------------
(* The client.                                                             *)

\* withWorkspaceTab reserves numbers for the largest deletion.
MutHeadroom == 4 * MaxDeletions
Headroom == 4 * MaxDeletions + 4

\* How many rows may be asked for; 0 stands for the list.
MutCounts == 0 .. MaxDeletions + 1
Counts == 0 .. MaxDeletions

(* A list is asked for, or the deletion of a number of matching rows.      *)
Start ==
  /\ at = "idle" /\ verdict = "pending"
  /\ count' \in Counts
  /\ IF next + Headroom <= MaxSeq
     THEN at' = "open" /\ UNCHANGED verdict
     ELSE verdict' = "other" /\ UNCHANGED at
  /\ UNCHANGED <<dynamics, late, meddling, waiting, ids, target,
                 removed, err, next, top, overlooked>>

(* The request of the next exchange leaves.                                *)
Post ==
  /\ at \in Exchanges /\ ~waiting
  /\ waiting' = TRUE
  /\ top' = IF next > top THEN next ELSE top
  /\ UNCHANGED <<dynamics, late, meddling, count, at, ids, target,
                 removed, err, verdict, next, overlooked>>

\* The operation inside the tab ends with an error, or none: the deferred
\* function goes back to the Reports tab all the same.
Leave(e) ==
  at' = "restore" /\ err' = e
  /\ UNCHANGED <<count, ids, target, removed, verdict>>

\* The loop: the first matching row is selected, unless it is active.
Target(rows, current) ==
  /\ target' \in rows \cap Matching
  /\ at' = IF current = target' THEN "delete" ELSE "select"
  /\ ids' = rows
  /\ UNCHANGED <<count, err, verdict>>

\* The tab lists its rows, and which one is active, or not.
Opened ==
  \/ count = 0 /\ Leave("nil")
  \/ count > 0 /\ Cardinality(listed \cap Matching) # count /\ Leave("other")
  \/ /\ count > 0 /\ Cardinality(listed \cap Matching) = count
     /\ \E current \in {active, NoItem} : Target(listed, current)
     /\ UNCHANGED removed
\* The rows whose marks are looked at: those the answer to a selection shows.
LookedAt == IF at = "select" THEN SUBSET listed ELSE {{}}
\* No other row among them may be marked.
MutUnmarked(shown) == TRUE
Unmarked(shown) == marked' \cap shown \subseteq {target}
Selected(shown) ==
  \/ (active' # target \/ ~Unmarked(shown)) /\ Leave("other")
  \/ /\ active' = target /\ Unmarked(shown)
     /\ at' = "delete"
     /\ UNCHANGED <<count, ids, target, removed, err, verdict>>
Asked ==
  \/ ~dialog' /\ Leave("uncertain")
  \/ /\ dialog' /\ at' = "confirm"
     /\ UNCHANGED <<count, ids, target, removed, err, verdict>>
Confirmed ==
  \/ dialog' /\ Leave("uncertain")
  \/ /\ ~dialog' /\ at' = "refresh" /\ removed' = removed + 1
     /\ UNCHANGED <<count, ids, target, err, verdict>>
\* Exactly one row is gone, and it is a matching one.
MutOneGone == TRUE
OneGone ==
  /\ Cardinality(listed) + 1 = Cardinality(ids)
  /\ Cardinality(listed \cap Matching) = count - removed
Refreshed ==
  \/ ~OneGone /\ Leave("uncertain")
  \/ OneGone /\ removed = count /\ Leave("nil")
  \/ /\ OneGone /\ removed < count
     /\ \E current \in {active, NoItem} : Target(listed, current)
     /\ UNCHANGED removed
End(e) ==
  at' = "done" /\ verdict' = e /\ UNCHANGED <<count, ids, target, removed, err>>

(* An answer that acknowledges the request; it shows what Dynamics made of *)
(* it, which may be nothing.  An acknowledged change of tab is taken to be *)
(* made: the client looks for the grid of the first, and at nothing of the *)
(* second.                                                                 *)
Answer ==
  /\ waiting /\ waiting' = FALSE
  /\ next < MaxSeq
  /\ CarryOut(at) \/ (at \in Loop /\ UNCHANGED dynamics)
  /\ next' = next + 1
  /\ \E shown \in LookedAt :
       /\ \/ at = "open" /\ Opened
          \/ at = "select" /\ Selected(shown)
          \/ at = "delete" /\ Asked
          \/ at = "confirm" /\ Confirmed
          \/ at = "refresh" /\ Refreshed
          \/ at = "restore" /\ End(err)
       /\ overlooked' = overlooked \cup
            (IF at' = "delete" THEN marked' \ (shown \cup {target'}) ELSE {})
  /\ UNCHANGED <<late, meddling, top>>

\* What an error at a step is returned as.
MutErrorClass(step, cause) ==
  IF step \in {"delete", "refresh"} THEN "uncertain" ELSE cause
ErrorClass(step, cause) ==
  IF step \in {"delete", "confirm", "refresh"} THEN "uncertain" ELSE cause

(* No answer, or one the client does not accept, for which it advances     *)
(* only if it acknowledges the request.  The tab that did not open is not  *)
(* left; that it could not be left is reported if nothing else is.         *)
Fail ==
  /\ waiting /\ waiting' = FALSE
  /\ \/ (CarryOut(at) \/ UNCHANGED dynamics) /\ UNCHANGED late
     \/ late' = late \cup {at} /\ next' = next /\ UNCHANGED dynamics
  /\ next' = next \/ (next < MaxSeq /\ next' = next + 1)
  /\ \E cause \in {"expired", "other"} :
       \/ at \in Loop /\ Leave(ErrorClass(at, cause))
       \/ at = "open" /\ (End(cause) \/ (next' > next /\ Leave(cause)))
       \/ at = "restore" /\ End(IF err = "nil" THEN "uncertain" ELSE err)
  /\ UNCHANGED <<meddling, top, overlooked>>

Stop == verdict # "pending" /\ UNCHANGED vars

Next == Meddle \/ LateEffect \/ Start \/ Post \/ Answer \/ Fail \/ Stop

Spec == Init /\ [][Next]_vars

-----------------------------------------------------------------------------
(* A result that does not say the outcome is uncertain comes with an       *)
(* honest number of rows: this client deleted no more, not even later by a *)
(* request it gave up, but for marked ones it had overlooked; and at least *)
(* as many with the name asked for are gone (others may have deleted one   *)
(* before this client did).                                                *)
CountIsHonest ==
  verdict \in {"nil", "expired", "other"} =>
    /\ Cardinality(deleted \ overlooked) <= removed
    /\ removed <= Cardinality(gone \cap Matching)

(* Success: as many rows with the name as were asked for are gone, no      *)
(* confirmation is left open, and the workspace shows its Reports tab      *)
(* again, where the next import looks for its controls.                    *)
SuccessIsComplete ==
  verdict = "nil" => /\ count <= Cardinality(gone \cap Matching)
                     /\ tab = "Reports" /\ ~dialog

(* Only rows with the name asked for are deleted.  ("Another ... is        *)
(* marked; clear the selection in Dynamics and re-import.")                *)
OnlyMatchingDeleted == deleted \subseteq Matching
(* A row without that name is deleted only if it was marked before and its *)
(* mark overlooked: because the row to delete was found active and         *)
(* therefore not selected, or because the selection left the mark alone    *)
(* and its answer did not show it.                                         *)
OnlyMatchingOrOverlooked == deleted \subseteq Matching \cup overlooked

(* The numbers reserved before the first request last for all of them.     *)
HeadroomSuffices == verdict = "pending" /\ waiting => top < MaxSeq
=============================================================================
