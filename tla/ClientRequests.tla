--------------------------- MODULE ClientRequests ---------------------------
(***************************************************************************)
(* The exchanges of one operation of the client with Dynamics, as          *)
(* Client.sendValidated makes them (internal/expense/client.go): one       *)
(* request at a time, never repeated; the operation ends at the first      *)
(* answer it does not accept.  The modules about what an operation does    *)
(* with its exchanges extend this one.                                     *)
(***************************************************************************)
EXTENDS Naturals

VARIABLES
  at,        \* the step whose request is sent next or awaits its answer
  posted,    \* the step whose request Dynamics may yet carry out, or "none"
  used,      \* sequence numbers the operation has used
  requests,  \* requests sent, the repairs of approver rows apart
  verdict    \* given to the caller

exchangeVars == <<at, posted, used, requests, verdict>>

\* An error is marked ErrOperationUncertain, or is an ordinary failure.
Verdicts == {"pending", "nil", "uncertain", "failure"}

Pending == verdict = "pending"
Waiting == Pending /\ posted # "none"

Send(messages, counted) ==
  /\ Pending /\ posted = "none"
  /\ posted' = at
  /\ used' = used + messages
  /\ requests' = IF counted THEN requests + 1 ELSE requests
  /\ UNCHANGED <<at, verdict>>

\* The answer is accepted: on to a step, or the operation is "done".
Proceed(step) ==
  /\ posted' = "none"
  /\ at' = step
  /\ verdict' = IF step = "done" THEN "nil" ELSE verdict
  /\ UNCHANGED <<used, requests>>

\* The operation ends with an error: on the answer, or without one.
End(class, answered) ==
  /\ verdict' = class
  /\ posted' = IF answered THEN "none" ELSE posted
  /\ UNCHANGED <<at, used, requests>>
=============================================================================
