------------------------- MODULE SessionCapability -------------------------
(***************************************************************************)
(* What named sessions promise the operations that use them: a capture is  *)
(* a capability to send numbered requests.  At most one holder uses one at *)
(* a time, no number is consumed twice, a capability is only handed on     *)
(* when every request made under it is settled, and one that is spent is   *)
(* spent for good: after an interruption or a doubtful outcome only a new  *)
(* capture helps.                                                          *)
(***************************************************************************)
EXTENDS Naturals

CONSTANTS Captures, MaxSeq

VARIABLES
  phase,      \* of each capture
  consumed,   \* sequence numbers used under each capture
  unsettled   \* those among them whose outcome is unknown

vars == <<phase, consumed, unsettled>>

Phases == {"fresh", "available", "held", "spent"}

\* Loss is always possible: a process dies, a file is replaced or removed.
Moves == {<<"fresh", "available">>, <<"available", "held">>,
          <<"held", "available">>, <<"fresh", "spent">>,
          <<"available", "spent">>, <<"held", "spent">>}

Init ==
  /\ phase = [c \in Captures |-> "fresh"]
  /\ consumed = [c \in Captures |-> {}]
  /\ unsettled = [c \in Captures |-> {}]

(* Capabilities are imported, taken, handed back or lost, several at once  *)
(* if the machine stops or one session replaces another.                   *)
Move ==
  /\ phase' \in [Captures -> Phases]
  /\ \A c \in Captures : phase'[c] # phase[c] =>
       /\ <<phase[c], phase'[c]>> \in Moves
       /\ phase'[c] \in {"available", "held"} => unsettled[c] = {}
  /\ \A c, d \in Captures : phase'[c] = "held" /\ phase'[d] = "held" => c = d
  /\ UNCHANGED <<consumed, unsettled>>

Use(c, n) ==
  /\ phase[c] = "held" /\ unsettled[c] = {}
  /\ n \notin consumed[c]
  /\ consumed' = [consumed EXCEPT ![c] = @ \cup {n}]
  /\ unsettled' = [unsettled EXCEPT ![c] = @ \cup {n}]
  /\ UNCHANGED phase

Settle(c, n) ==
  /\ phase[c] = "held"
  /\ unsettled' = [unsettled EXCEPT ![c] = @ \ {n}]
  /\ UNCHANGED <<phase, consumed>>

Next ==
  \/ Move
  \/ \E c \in Captures, n \in 0 .. MaxSeq : Use(c, n) \/ Settle(c, n)

Spec == Init /\ [][Next]_vars
=============================================================================
