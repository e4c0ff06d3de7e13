--------------------------- MODULE RemoteMutation ---------------------------
(***************************************************************************)
(* What every mutating operation of the client promises its caller about   *)
(* Dynamics: success is reported only once the remote change is complete,  *)
(* failure only if nothing was or will be changed, and everything else is  *)
(* reported as uncertain (ErrOperationUncertain).  A request can take      *)
(* effect after the client has stopped waiting for it.                     *)
(***************************************************************************)

VARIABLES
  effect,  \* on the remote system: "none", "partial" or "complete"
  verdict  \* given to the caller: "pending", "success", "failure", "uncertain"

vars == <<effect, verdict>>

Effects == {"none", "partial", "complete"}

Init == effect = "none" /\ verdict = "pending"

(* The remote system changes; never after success or failure were reported.*)
(* A change may undo an earlier one: an approver who was deleted is added  *)
(* again when the system mistakes a name for his.                          *)
Change ==
  /\ verdict \in {"pending", "uncertain"}
  /\ effect' \in Effects
  /\ UNCHANGED verdict

(* The operation ends, possibly with the answer to its last request.       *)
End ==
  /\ verdict = "pending"
  /\ \/ verdict' = "success" /\ effect' = "complete"
     \/ verdict' = "failure" /\ effect = "none" /\ UNCHANGED effect
     \/ verdict' = "uncertain" /\ effect' \in Effects

Spec == Init /\ [][Change \/ End]_vars
=============================================================================
