------------------------ MODULE WorkspaceItemsProofs ------------------------
(* Theorems about WorkspaceItems: types, sequence numbers, which rows are  *)
(* deleted, and what the result says of them.                              *)
EXTENDS WorkspaceItems, FiniteSetTheorems, TLAPS

\* The exchanges between which a row has been chosen and not deleted.
Chosen == {"select", "delete", "confirm"}

(* In these there is a row left to delete, and it matches.                 *)
Progress ==
  /\ at \in Chosen => removed < count /\ target \in Matching
  /\ at = "open" => removed = 0
  /\ waiting => at \in Exchanges
  /\ at = "idle" => removed = 0

(* The numbers still to be sent are below MaxSeq.                          *)
Left == 4 * (count - removed)
Fits ==
  /\ at = "open"    => next + Headroom <= MaxSeq
  /\ at = "select"  => next + Left + 2 <= MaxSeq
  /\ at = "delete"  => next + Left + 1 <= MaxSeq
  /\ at = "confirm" => next + Left <= MaxSeq
  /\ at = "refresh" => next + Left + 3 <= MaxSeq
  /\ at = "restore" => next + 1 <= MaxSeq
  /\ top <= next

(* A confirmation is sent, or still under way, only for the target, which  *)
(* is then active and, but for rows overlooked, alone marked; nothing      *)
(* under way can select another row.                                       *)
Asking == at = "confirm" \/ "confirm" \in late
Aimed ==
  /\ at \notin {"restore", "done"} => late = {}
  /\ "select" \in late => target \in Matching /\ "confirm" \notin late
  /\ at = "delete" \/ Asking => active = target /\ target \in Matching
  /\ Asking \/ at = "delete" => marked \subseteq {target} \cup overlooked
  /\ deleted \subseteq Matching \cup overlooked

Inv == TypeOK /\ Progress /\ Fits /\ Aimed

USE ConstantsAssumption

(* The types by kind, for steps that are about one of them.                *)
Rows ==
  /\ listed \subseteq Items /\ active \in Items \cup {NoItem} /\ marked \subseteq Items
  /\ deleted \subseteq gone /\ gone \subseteq Items
Picks == ids \subseteq Items /\ target \in Items \cup {NoItem}
Numbers ==
  /\ meddling \in 0 .. MaxMeddling /\ count \in 0 .. MaxDeletions
  /\ removed \in 0 .. count /\ next \in Nat /\ top \in Nat
Flags == dialog \in BOOLEAN /\ waiting \in BOOLEAN /\ overlooked \subseteq Items
Places ==
  /\ tab \in {"Reports", "items"} /\ late \subseteq Exchanges
  /\ at \in Exchanges \cup {"idle", "done"}
  /\ err \in Errors /\ verdict \in Errors \cup {"pending"}
LEMMA Types == TypeOK <=> Rows /\ Picks /\ Numbers /\ Flags /\ Places
  BY DEF TypeOK, Rows, Picks, Numbers, Flags, Places
LEMMA TypesNext == TypeOK' <=> Rows' /\ Picks' /\ Numbers' /\ Flags' /\ Places'
  BY DEF TypeOK, Rows, Picks, Numbers, Flags, Places

-----------------------------------------------------------------------------
(* Carrying out a request keeps the rows what they are.                    *)
LEMMA EffectTypes ==
  ASSUME TypeOK, NEW step, CarryOut(step), step = "select" => target \in Items
  PROVE  Rows' /\ tab' \in {"Reports", "items"} /\ dialog' \in BOOLEAN
  BY DEF TypeOK, Rows, CarryOut, Select, Yes, Doomed, grid, dynamics

(* Only a selection changes what is active and marked before a row is      *)
(* deleted, and a deletion takes what is.                                  *)
LEMMA EffectOnMarks ==
  ASSUME NEW step, CarryOut(step)
  PROVE  /\ step \notin {"select", "confirm"} => UNCHANGED <<active, marked>>
         /\ step # "confirm" => UNCHANGED deleted
         /\ step = "confirm" =>
              deleted' \subseteq deleted \cup (IF marked # {} THEN marked ELSE {active})
  BY DEF CarryOut, Select, Yes, Doomed, grid, dynamics

(* The initial states satisfy the invariant.                               *)
LEMMA Initially == Init => Inv
<1> SUFFICES ASSUME Init PROVE Inv
  OBVIOUS
<1>1. TypeOK
  <2>1. Rows /\ Picks
    BY DEF Init, Rows, Picks
  <2>2. Numbers
    BY DEF Init, Numbers
  <2>3. Flags /\ Places
    BY DEF Init, Flags, Places, Errors
  <2> QED
    BY <2>1, <2>2, <2>3, Types
<1>2. Progress /\ Fits /\ Aimed
  BY DEF Init, Progress, Fits, Aimed, Asking, Chosen, Exchanges, Loop
<1> QED
  BY <1>1, <1>2 DEF Inv

LEMMA MeddleKeepsInv == Inv /\ Meddle => Inv'
<1> SUFFICES ASSUME Inv, Meddle PROVE Inv'
  OBVIOUS
<1> USE DEF Inv, Meddle, client
<1>1. TypeOK'
  BY DEF TypeOK
<1>2. Progress' /\ Fits' /\ Aimed'
  BY DEF Progress, Fits, Left, Aimed, Asking
<1> QED
  BY <1>1, <1>2

LEMMA LateEffectKeepsInv == Inv /\ LateEffect => Inv'
<1> SUFFICES ASSUME Inv, LateEffect PROVE Inv'
  OBVIOUS
<1> USE DEF Inv
<1>0. PICK step \in late : CarryOut(step) /\ late' = late \ {step}
  BY DEF LateEffect
<1>u. UNCHANGED <<meddling, client, overlooked>>
  BY DEF LateEffect
<1>1. TypeOK'
  <2>1. Rows' /\ tab' \in {"Reports", "items"} /\ dialog' \in BOOLEAN
    BY <1>0, EffectTypes DEF Aimed
  <2> QED
    BY <2>1, <1>0, <1>u DEF TypeOK, Rows, client
<1>2. Progress' /\ Fits'
  BY <1>u DEF Progress, Fits, Left, client
<1>3. Aimed'
  BY <1>0, <1>u, EffectOnMarks DEF Aimed, Asking, client
<1> QED
  BY <1>1, <1>2, <1>3

LEMMA StartKeepsInv == Inv /\ Start => Inv'
<1> SUFFICES ASSUME Inv, Start PROVE Inv'
  OBVIOUS
<1> USE DEF Inv, Start, Counts, dynamics, grid
<1>1. TypeOK'
  BY DEF TypeOK, Progress, Exchanges, Errors
<1>2. Progress' /\ Fits'
  BY DEF TypeOK, Progress, Fits, Left, Chosen, Exchanges, Loop
<1>3. Aimed'
  BY DEF Aimed, Asking
<1> QED
  BY <1>1, <1>2, <1>3

LEMMA PostKeepsInv == Inv /\ Post => Inv'
<1> SUFFICES ASSUME Inv, Post PROVE Inv'
  OBVIOUS
<1> USE DEF Inv, Post, dynamics, grid
<1>1. TypeOK'
  BY DEF TypeOK
<1>2. Progress' /\ Fits'
  BY DEF TypeOK, Progress, Fits, Left
<1>3. Aimed'
  BY DEF Aimed, Asking
<1> QED
  BY <1>1, <1>2, <1>3

(* What an answer makes the client do, and what it overlooks then.         *)
LEMMA AnswerOverlooks ==
  ASSUME Answer
  PROVE  /\ overlooked \subseteq overlooked' /\ overlooked' \subseteq overlooked \cup marked'
         /\ \/ at = "open" /\ Opened
            \/ at = "select" /\ \E shown \in SUBSET listed :
                 /\ Selected(shown)
                 /\ at' = "delete" => marked' \ (shown \cup {target'}) \subseteq overlooked'
            \/ at = "delete" /\ Asked
            \/ at = "confirm" /\ Confirmed
            \/ at = "refresh" /\ Refreshed
            \/ at = "restore" /\ End(err)
         /\ at # "select" /\ at' = "delete" => marked' \subseteq {target'} \cup overlooked'
<1>1. PICK shown \in LookedAt :
        /\ \/ at = "open" /\ Opened
           \/ at = "select" /\ Selected(shown)
           \/ at = "delete" /\ Asked
           \/ at = "confirm" /\ Confirmed
           \/ at = "refresh" /\ Refreshed
           \/ at = "restore" /\ End(err)
        /\ overlooked' = overlooked \cup
             (IF at' = "delete" THEN marked' \ (shown \cup {target'}) ELSE {})
  BY DEF Answer
<1>2. at # "select" => shown = {}
  BY DEF LookedAt
<1>3. at = "select" => shown \in SUBSET listed
  BY DEF LookedAt
<1> QED
  BY <1>1, <1>2, <1>3

LEMMA AnswerKeepsInv == Inv /\ Answer => Inv'
<1> SUFFICES ASSUME Inv, Answer PROVE Inv'
  OBVIOUS
<1> USE DEF Inv
<1>a. /\ waiting /\ waiting' = FALSE /\ next < MaxSeq /\ next' = next + 1
      /\ CarryOut(at) \/ (at \in Loop /\ UNCHANGED dynamics)
      /\ UNCHANGED <<late, meddling, top>>
  BY DEF Answer, TypeOK
<1>o. /\ overlooked \subseteq overlooked' /\ overlooked' \subseteq overlooked \cup marked'
      /\ \/ at = "open" /\ Opened
         \/ at = "select" /\ \E shown \in SUBSET listed :
              /\ Selected(shown)
              /\ at' = "delete" => marked' \ (shown \cup {target'}) \subseteq overlooked'
         \/ at = "delete" /\ Asked
         \/ at = "confirm" /\ Confirmed
         \/ at = "refresh" /\ Refreshed
         \/ at = "restore" /\ End(err)
      /\ at # "select" /\ at' = "delete" => marked' \subseteq {target'} \cup overlooked'
  BY AnswerOverlooks DEF Answer
<1>t. Rows' /\ tab' \in {"Reports", "items"} /\ Flags'
  <2>1. Rows' /\ tab' \in {"Reports", "items"} /\ dialog' \in BOOLEAN
    <3>1. CASE CarryOut(at)
      BY <3>1, EffectTypes DEF Progress, Chosen, TypeOK
    <3>2. CASE UNCHANGED dynamics
      BY <3>2 DEF TypeOK, Rows, dynamics, grid
    <3> QED
      BY <1>a, <3>1, <3>2
  <2>2. overlooked' \subseteq Items
    BY <1>o, <2>1 DEF Rows, TypeOK
  <2> QED
    BY <1>a, <2>1, <2>2 DEF Flags
<1>d. deleted' \subseteq Matching \cup overlooked'
  <2>1. CASE CarryOut(at)
    BY <1>o, <2>1, EffectOnMarks DEF Aimed, Asking
  <2>2. CASE UNCHANGED dynamics
    BY <1>o, <2>2 DEF Aimed, dynamics, grid
  <2> QED
    BY <1>a, <2>1, <2>2
<1>m. at \notin {"select", "confirm"} => UNCHANGED <<active, marked>>
  BY <1>a, EffectOnMarks DEF dynamics, grid
<1>l. at \notin {"restore", "done"} => late = {}
  BY DEF Aimed
<1>1. ASSUME NEW e \in Errors, Leave(e), at \in Loop \cup {"open"} PROVE Inv'
  <2>1. Picks' /\ Places'
    BY <1>1, <1>a, <1>t DEF Leave, TypeOK, Picks, Places, Exchanges
  <2>2. Numbers' /\ Progress' /\ Fits'
    BY <1>1, <1>a DEF Leave, TypeOK, Numbers, Progress, Fits, Left, Headroom, Chosen, Loop
  <2>3. Aimed'
    BY <1>1, <1>a, <1>d, <1>l DEF Leave, Aimed, Asking, Loop
  <2> QED
    BY <2>1, <2>2, <2>3, <1>t, TypesNext
<1>2. ASSUME NEW rows \in SUBSET Items, NEW current \in {active, NoItem},
             Target(rows, current), UNCHANGED removed, removed < count,
             at \in {"open", "refresh"}
      PROVE  Inv'
  <2>1. target' \in Matching /\ at' \in {"select", "delete"}
        /\ (at' = "delete" => active' = target')
    BY <1>2, <1>m DEF Target
  <2>2. Picks' /\ Places' /\ Numbers'
    <3>1. Picks' /\ Places'
      BY <1>2, <2>1, <1>a, <1>t DEF Target, TypeOK, Picks, Places, Exchanges, Loop
    <3>2. Numbers'
      BY <1>2, <1>a DEF Target, TypeOK, Numbers
    <3> QED
      BY <3>1, <3>2
  <2>3. Progress'
    BY <1>2, <2>1, <1>a DEF Target, Progress, Chosen
  <2>4. Fits'
    BY <1>2, <2>1, <1>a DEF Target, TypeOK, Fits, Left, Headroom
  <2>5. Aimed'
    BY <1>2, <2>1, <1>a, <1>d, <1>l, <1>o DEF Aimed, Asking
  <2> QED
    BY <2>2, <2>3, <2>4, <2>5, <1>t, TypesNext
<1>3. CASE at = "open" /\ Opened
  BY <1>1, <1>2, <1>3 DEF Opened, Errors, TypeOK, Progress
<1>4. CASE at = "select"
  <2>0. PICK shown \in SUBSET listed :
          /\ Selected(shown)
          /\ at' = "delete" => marked' \ (shown \cup {target'}) \subseteq overlooked'
    BY <1>o, <1>4
  <2>1. CASE \E e \in Errors : Leave(e)
    BY <2>1, <1>1, <1>4 DEF Loop
  <2>2. CASE /\ active' = target /\ Unmarked(shown) /\ at' = "delete"
             /\ UNCHANGED <<count, ids, target, removed, err, verdict>>
    <3>1. Picks' /\ Places'
      BY <2>2, <1>4, <1>a, <1>t, Types DEF Picks, Places, Exchanges, Loop
    <3>0. Numbers' /\ Progress' /\ Fits'
      BY <2>2, <1>4, <1>a DEF TypeOK, Numbers, Progress, Fits, Left, Chosen, Exchanges, Loop
    <3>2. Aimed'
      <4>1. marked' \subseteq {target'} \cup overlooked'
        BY <2>0, <2>2 DEF Unmarked
      <4> QED
        BY <2>2, <1>4, <1>a, <1>d, <1>l, <4>1 DEF Aimed, Asking, Progress, Chosen
    <3> QED
      BY <3>0, <3>1, <3>2, <1>t, TypesNext
  <2> QED
    BY <2>0, <2>1, <2>2 DEF Selected, Errors
<1>5. CASE at = "delete" /\ Asked
  <2>1. CASE \E e \in Errors : Leave(e)
    BY <2>1, <1>1, <1>5 DEF Loop
  <2>2. CASE at' = "confirm" /\ UNCHANGED <<count, ids, target, removed, err, verdict>>
    <3>1. Picks' /\ Places'
      BY <2>2, <1>5, <1>a, <1>t, Types DEF Picks, Places, Exchanges, Loop
    <3>0. Numbers' /\ Progress' /\ Fits'
      BY <2>2, <1>5, <1>a DEF TypeOK, Numbers, Progress, Fits, Left, Chosen, Exchanges, Loop
    <3>2. Aimed'
      <4>1. active' = active /\ marked' = marked
        BY <1>5, <1>m
      <4>2. marked \subseteq {target} \cup overlooked'
        BY <1>5, <1>o DEF Aimed
      <4> QED
        BY <2>2, <1>5, <1>a, <1>d, <1>l, <4>1, <4>2 DEF Aimed, Asking
    <3> QED
      BY <3>0, <3>1, <3>2, <1>t, TypesNext
  <2> QED
    BY <2>1, <2>2, <1>5 DEF Asked, Errors
<1>6. CASE at = "confirm" /\ Confirmed
  <2>1. CASE \E e \in Errors : Leave(e)
    BY <2>1, <1>1, <1>6 DEF Loop
  <2>2. CASE /\ at' = "refresh" /\ removed' = removed + 1
             /\ UNCHANGED <<count, ids, target, err, verdict>>
    <3>1. Picks' /\ Places'
      BY <2>2, <1>6, <1>a, <1>t, Types DEF Picks, Places, Exchanges, Loop
    <3>0. Numbers' /\ Progress' /\ Fits'
      BY <2>2, <1>6, <1>a DEF TypeOK, Numbers, Progress, Fits, Left, Chosen, Exchanges, Loop
    <3>2. Aimed'
      BY <2>2, <1>6, <1>a, <1>d, <1>l DEF Aimed, Asking
    <3> QED
      BY <3>0, <3>1, <3>2, <1>t, TypesNext
  <2> QED
    BY <2>1, <2>2, <1>6 DEF Confirmed, Errors
<1>7. CASE at = "refresh" /\ Refreshed
  BY <1>1, <1>2, <1>7 DEF Refreshed, Errors, TypeOK, Loop
<1>8. CASE at = "restore" /\ End(err)
  <2>1. Picks' /\ Places'
    BY <1>8, <1>a, <1>t, Types DEF End, Picks, Places
  <2>2. Numbers' /\ Progress' /\ Fits'
    BY <1>8, <1>a DEF End, TypeOK, Numbers, Progress, Fits, Chosen, Exchanges, Loop
  <2>3. Aimed'
    BY <1>8, <1>a, <1>d, <1>m, <1>o DEF End, Aimed, Asking
  <2> QED
    BY <2>1, <2>2, <2>3, <1>t, TypesNext
<1> QED
  BY <1>3, <1>4, <1>5, <1>6, <1>7, <1>8, <1>o

LEMMA FailKeepsInv == Inv /\ Fail => Inv'
<1> SUFFICES ASSUME Inv, Fail PROVE Inv'
  OBVIOUS
<1> USE DEF Inv
<1>a. /\ waiting /\ waiting' = FALSE
      /\ \/ (CarryOut(at) \/ UNCHANGED dynamics) /\ UNCHANGED late
         \/ late' = late \cup {at} /\ next' = next /\ UNCHANGED dynamics
      /\ next' = next \/ (next < MaxSeq /\ next' = next + 1)
      /\ UNCHANGED <<meddling, top, overlooked>>
  BY DEF Fail
<1>b. \E e \in Errors : \/ Leave(e) /\ at \in Loop \cup {"open"}
                        \/ End(e) /\ at \in {"open", "restore"}
  BY DEF Fail, ErrorClass, Errors, TypeOK
<1>t. Rows' /\ tab' \in {"Reports", "items"} /\ Flags'
  <2>1. CASE CarryOut(at)
    BY <2>1, <1>a, EffectTypes DEF Progress, Chosen, TypeOK, Flags
  <2>2. CASE UNCHANGED dynamics
    BY <2>2, <1>a DEF TypeOK, Rows, Flags, dynamics, grid
  <2> QED
    BY <1>a, <2>1, <2>2
<1>d. deleted' \subseteq Matching \cup overlooked'
  <2>1. CASE CarryOut(at)
    BY <1>a, <2>1, EffectOnMarks DEF Aimed, Asking
  <2>2. CASE UNCHANGED dynamics
    BY <1>a, <2>2 DEF Aimed, dynamics, grid
  <2> QED
    BY <1>a, <2>1, <2>2
<1>1. TypeOK'
  <2>1. Picks' /\ Places'
    BY <1>a, <1>b, <1>t, Types DEF Leave, End, Picks, Places, Exchanges, Loop
  <2>2. Numbers'
    BY <1>a, <1>b DEF Leave, End, TypeOK, Numbers
  <2> QED
    BY <2>1, <2>2, <1>t, TypesNext
<1>2. Progress' /\ Fits'
  BY <1>a, <1>b DEF TypeOK, Progress, Fits, Left, Headroom, Leave, End, Chosen, Exchanges, Loop
<1>3. Aimed'
  <2>1. at' \in {"restore", "done"} /\ target' = target
    BY <1>b DEF Leave, End
  <2>2. CASE UNCHANGED dynamics
    BY <2>1, <2>2, <1>a, <1>d DEF Aimed, Asking, Progress, Chosen, dynamics, grid, Loop
  <2>3. CASE CarryOut(at) /\ UNCHANGED late
    <3>1. CASE at = "restore"
      BY <3>1, <2>1, <2>3, <1>a, <1>d, EffectOnMarks DEF Aimed, Asking
    <3>2. CASE at # "restore"
      BY <3>2, <2>1, <2>3, <1>a, <1>d, <1>b DEF Aimed, Asking, Loop
    <3> QED
      BY <3>1, <3>2
  <2> QED
    BY <2>2, <2>3, <1>a
<1> QED
  BY <1>1, <1>2, <1>3

(* Every behaviour keeps the invariant.                                    *)
LEMMA Invariance == Spec => []Inv
<1>1. Inv /\ [Next]_vars => Inv'
  <2> SUFFICES ASSUME Inv, [Next]_vars PROVE Inv'
    OBVIOUS
  <2>1. CASE UNCHANGED vars
    BY <2>1 DEF Inv, TypeOK, Progress, Fits, Left, Aimed, Asking, vars, dynamics, grid, client
  <2>2. CASE Stop
    BY <2>1, <2>2 DEF Stop
  <2> QED
    BY <2>1, <2>2, MeddleKeepsInv, LateEffectKeepsInv, StartKeepsInv, PostKeepsInv,
       AnswerKeepsInv, FailKeepsInv DEF Next
<1> QED
  BY <1>1, Initially, PTL DEF Spec

-----------------------------------------------------------------------------
(* Variables keep their types; in particular no more rows are reported     *)
(* removed than were asked for (workspace_items.go:199, 257).              *)
THEOREM TypeCorrect == Spec => []TypeOK
<1>1. Inv => TypeOK
  BY DEF Inv
<1> QED
  BY <1>1, Invariance, PTL

(* The numbers reserved by withWorkspaceTab suffice for the largest        *)
(* deletion and the way back, from any number and with any failures.       *)
THEOREM ReservedNumbersSuffice == Spec => []HeadroomSuffices
<1>1. Inv => HeadroomSuffices
  BY DEF Inv, TypeOK, Progress, Fits, Left, Headroom, HeadroomSuffices, Exchanges, Loop, Chosen
<1> QED
  BY <1>1, Invariance, PTL

(* Only rows with the name asked for are deleted, by answered requests or  *)
(* by ones given up, but for rows marked before whose marks the client did *)
(* not look at, having selected nothing, or was not shown by the answer to *)
(* the selection.                                                          *)
THEOREM DeletionsMatch == Spec => []OnlyMatchingOrOverlooked
<1>1. Inv => OnlyMatchingOrOverlooked
  BY DEF Inv, Aimed, OnlyMatchingOrOverlooked
<1> QED
  BY <1>1, Invariance, PTL

-----------------------------------------------------------------------------
(* What the result says.                                                   *)

\* How many of the matching rows among g are not in S.
But(g, S) == Cardinality((g \cap Matching) \ S)

(* Rows gone do not come back.  Those last listed are there or gone, and   *)
(* of the matching ones that are not among them, as many are gone as       *)
(* were removed before: the refresh that finds one fewer adds one of them. *)
Found ==
  /\ listed \cap gone = {}
  /\ at \in Chosen \cup {"refresh"} => ids \subseteq listed \cup gone
  /\ at \in Chosen =>
       Cardinality(ids \cap Matching) + removed = count /\ removed <= But(gone, ids)
  /\ at = "refresh" =>
       Cardinality(ids \cap Matching) + removed = count + 1 /\ removed <= But(gone, ids) + 1
  /\ at \in {"restore", "done"} /\ err # "uncertain" => removed <= But(gone, {})

(* A row not overlooked is deleted for every one removed at most, unless   *)
(* the outcome of a confirmation is uncertain, which it is when given up.  *)
Own ==
  /\ err # "uncertain" => Cardinality(deleted \ overlooked) <= removed
  /\ "confirm" \in late => err = "uncertain"
  /\ at \notin {"restore", "done"} => err = "nil"
  /\ verdict # "pending" => at \in {"idle", "done"}
  /\ verdict \notin {"pending", "uncertain"} => err # "uncertain"

(* Without an error nothing is under way and no dialog open at the end.    *)
Outcome ==
  /\ at \in {"idle", "open", "select", "delete", "refresh"} => ~dialog
  /\ (at = "restore" /\ err = "nil") \/ verdict = "nil" =>
       removed = count /\ late = {} /\ ~dialog
  /\ verdict = "nil" => tab = "Reports" /\ at = "done"

Honest == Found /\ Own /\ Outcome

\* What happens to the rows in any step.
Passing ==
  listed' \cap gone' = {} /\ gone \subseteq gone' /\ listed \cup gone \subseteq listed' \cup gone'

LEMMA ButGrows ==
  ASSUME NEW g \in SUBSET Items, NEW h \in SUBSET Items, g \subseteq h, NEW S
  PROVE  /\ But(g, S) \in Nat /\ But(h, S) \in Nat /\ But(h, {}) \in Nat
         /\ But(g, S) <= But(h, S) /\ But(g, S) <= But(h, {})
<1> DEFINE s1 == (g \cap Matching) \ S
           s2 == (h \cap Matching) \ S
           s3 == (h \cap Matching) \ {}
<1>1. IsFiniteSet(s1) /\ IsFiniteSet(s2) /\ IsFiniteSet(s3)
  BY FS_Subset
<1>2. s1 \subseteq s2 /\ s1 \subseteq s3
  OBVIOUS
<1> HIDE DEF s1, s2, s3
<1>3. Cardinality(s1) \in Nat /\ Cardinality(s2) \in Nat /\ Cardinality(s3) \in Nat
  BY <1>1, FS_CardinalityType
<1>4. Cardinality(s1) <= Cardinality(s2) /\ Cardinality(s1) <= Cardinality(s3)
  BY <1>1, <1>2, FS_Subset
<1> QED
  BY <1>3, <1>4 DEF But, s1, s2, s3

\* Fewer of the rows match than among those listed before: one is gone.
LEMMA OneMoreGone ==
  ASSUME NEW g \in SUBSET Items, NEW l \in SUBSET Items, NEW old \in SUBSET Items,
         l \cap g = {}, old \subseteq l \cup g
  PROVE  /\ Cardinality(l \cap Matching) \in Nat /\ Cardinality(old \cap Matching) \in Nat
         /\ Cardinality(l \cap Matching) < Cardinality(old \cap Matching) =>
              But(g, old) + 1 <= But(g, l)
         /\ But(g, old) \in Nat /\ But(g, l) \in Nat /\ But(g, l) = But(g, {})
<1> DEFINE lm == l \cap Matching
           om == old \cap Matching
           s1 == (g \cap Matching) \ old
           s2 == (g \cap Matching) \ l
<1>1. IsFiniteSet(lm) /\ IsFiniteSet(om) /\ IsFiniteSet(s1) /\ IsFiniteSet(s2)
  BY FS_Subset
<1>2. s2 = (g \cap Matching) \ {}
  OBVIOUS
<1>3. ASSUME ~(om \subseteq lm) PROVE \E i : i \notin s1 /\ s1 \cup {i} \subseteq s2
  BY <1>3
<1> HIDE DEF lm, om, s1, s2
<1>4. /\ Cardinality(lm) \in Nat /\ Cardinality(om) \in Nat
      /\ Cardinality(s1) \in Nat /\ Cardinality(s2) \in Nat
  BY <1>1, FS_CardinalityType
<1>5. ASSUME Cardinality(lm) < Cardinality(om) PROVE Cardinality(s1) + 1 <= Cardinality(s2)
  <2>1. ~(om \subseteq lm)
    <3> SUFFICES ASSUME om \subseteq lm PROVE FALSE
      OBVIOUS
    <3>1. Cardinality(om) <= Cardinality(lm)
      BY <1>1, FS_Subset
    <3> QED
      BY <1>4, <1>5, <3>1
  <2>2. PICK i : i \notin s1 /\ s1 \cup {i} \subseteq s2
    BY <1>3, <2>1
  <2>3. Cardinality(s1 \cup {i}) = Cardinality(s1) + 1
    BY <1>1, <2>2, FS_AddElement
  <2>4. Cardinality(s1 \cup {i}) <= Cardinality(s2)
    BY <1>1, <2>2, FS_Subset
  <2> QED
    BY <2>3, <2>4
<1> QED
  BY <1>2, <1>4, <1>5 DEF But, lm, om, s1, s2

LEMMA EffectOnRows ==
  ASSUME TypeOK, Found, NEW step, CarryOut(step) \/ UNCHANGED dynamics
  PROVE  /\ Passing
         /\ step # "confirm" => UNCHANGED <<listed, gone, deleted>>
         /\ step \notin {"delete", "confirm"} => UNCHANGED dialog
<1>1. CASE CarryOut(step) /\ step = "confirm"
  <2>1. CASE dialog
    <3>1. listed' = listed \ Doomed /\ gone' = gone \cup Doomed /\ Doomed \subseteq listed
      BY <1>1, <2>1 DEF CarryOut, Yes, Doomed
    <3> QED
      BY <1>1, <3>1 DEF Passing, Found
  <2>2. CASE ~dialog
    BY <1>1, <2>2 DEF CarryOut, Yes, grid, Passing, Found
  <2> QED
    BY <2>1, <2>2
<1>2. CASE CarryOut(step) /\ step # "confirm"
  BY <1>2 DEF CarryOut, Select, dynamics, grid, Passing, Found
<1>3. CASE UNCHANGED dynamics
  BY <1>3 DEF dynamics, grid, Passing, Found
<1> QED
  BY <1>1, <1>2, <1>3

\* The confirmation deletes the row in question, if any, and overlooked ones.
LEMMA ConfirmedOne ==
  ASSUME TypeOK, CarryOut("confirm") \/ UNCHANGED dynamics, UNCHANGED overlooked,
         active = target, marked \subseteq {target} \cup overlooked
  PROVE  /\ Cardinality(deleted \ overlooked) \in Nat
         /\ Cardinality((deleted \ overlooked)') \in Nat
         /\ Cardinality((deleted \ overlooked)') <= Cardinality(deleted \ overlooked) + 1
<1> DEFINE S == deleted \ overlooked
<1>1. (deleted \ overlooked)' \subseteq S \cup {target}
  BY EffectOnMarks DEF dynamics, grid
<1>2. IsFiniteSet(S)
  BY FS_Subset DEF TypeOK
<1> HIDE DEF S
<1>3. /\ IsFiniteSet(S \cup {target}) /\ Cardinality(S) \in Nat
      /\ Cardinality(S \cup {target}) <= Cardinality(S) + 1
  <2>1. Cardinality(S) \in Nat
    BY <1>2, FS_CardinalityType
  <2>2. /\ IsFiniteSet(S \cup {target})
        /\ Cardinality(S \cup {target}) = IF target \in S THEN Cardinality(S) ELSE Cardinality(S) + 1
    BY <1>2, FS_AddElement
  <2>3. Cardinality(S \cup {target}) <= Cardinality(S) + 1
    BY <2>1, <2>2
  <2> QED
    BY <2>1, <2>2, <2>3
<1>4. /\ IsFiniteSet((deleted \ overlooked)')
      /\ Cardinality((deleted \ overlooked)') <= Cardinality(S \cup {target})
  BY <1>1, <1>3, FS_Subset
<1>5. Cardinality((deleted \ overlooked)') \in Nat /\ Cardinality(S \cup {target}) \in Nat
  BY <1>3, <1>4, FS_CardinalityType
<1>6. Cardinality((deleted \ overlooked)') <= Cardinality(S) + 1
  BY <1>3, <1>4, <1>5
<1> QED
  BY <1>3, <1>5, <1>6 DEF S

\* Fewer rows count when more are overlooked.
LEMMA OverlookedCountLess ==
  ASSUME TypeOK, UNCHANGED deleted, overlooked \subseteq overlooked'
  PROVE  /\ Cardinality((deleted \ overlooked)') \in Nat /\ Cardinality(deleted \ overlooked) \in Nat
         /\ Cardinality((deleted \ overlooked)') <= Cardinality(deleted \ overlooked)
<1>1. IsFiniteSet(deleted \ overlooked) /\ (deleted \ overlooked)' \subseteq deleted \ overlooked
  BY FS_Subset DEF TypeOK
<1>2. /\ IsFiniteSet((deleted \ overlooked)')
      /\ Cardinality((deleted \ overlooked)') <= Cardinality(deleted \ overlooked)
  BY <1>1, FS_Subset
<1> QED
  BY <1>1, <1>2, FS_CardinalityType

\* The rows as the client knows them stay found while others pass.
LEMMA StillFound ==
  ASSUME Inv, TypeOK', Found, Passing, UNCHANGED <<count, at, ids, removed, err>>
  PROVE  Found'
<1>1. gone \in SUBSET Items /\ gone' \in SUBSET Items /\ gone \subseteq gone' /\ removed \in Nat
  BY DEF Inv, TypeOK, Passing
<1>2. /\ But(gone, ids) \in Nat /\ But(gone', ids) \in Nat /\ But(gone, {}) \in Nat
      /\ But(gone', {}) \in Nat /\ But(gone, ids) <= But(gone', ids)
      /\ But(gone, {}) <= But(gone', {})
  BY <1>1, ButGrows
<1> QED
  BY <1>1, <1>2 DEF Found, Passing

LEMMA MeddleHonest == Inv /\ TypeOK' /\ Honest /\ Meddle => Honest'
<1> SUFFICES ASSUME Inv, TypeOK', Honest, Meddle PROVE Honest'
  OBVIOUS
<1>1. Passing
  BY DEF Meddle, Passing, Honest, Found
<1>2. UNCHANGED <<active, marked, deleted, tab, dialog, late, client, overlooked>>
  BY DEF Meddle
<1>3. Found'
  BY <1>1, <1>2, StillFound DEF Honest, client
<1>4. Own' /\ Outcome'
  BY <1>2 DEF Honest, Own, Outcome, client
<1> QED
  BY <1>3, <1>4 DEF Honest

LEMMA LateEffectHonest == Inv /\ TypeOK' /\ Honest /\ LateEffect => Honest'
<1> SUFFICES ASSUME Inv, TypeOK', Honest, LateEffect PROVE Honest'
  OBVIOUS
<1>1. PICK step \in late : CarryOut(step) /\ late' = late \ {step}
  BY DEF LateEffect
<1>2. UNCHANGED <<client, overlooked>>
  BY DEF LateEffect
<1>3. Passing /\ (step # "confirm" => UNCHANGED <<listed, gone, deleted>>)
  BY <1>1, EffectOnRows DEF Inv, Honest
<1>4. Found'
  BY <1>2, <1>3, StillFound DEF Honest, client
<1>5. at \in {"restore", "done"} /\ late # {}
  BY <1>1 DEF Inv, Aimed
<1>6. Own'
  BY <1>1, <1>2, <1>3 DEF Honest, Own, client
<1>7. Outcome'
  BY <1>2, <1>5 DEF Honest, Outcome, client
<1> QED
  BY <1>4, <1>6, <1>7 DEF Honest

LEMMA StartHonest == Inv /\ TypeOK' /\ Honest /\ Start => Honest'
<1> SUFFICES ASSUME Inv, TypeOK', Honest, Start PROVE Honest'
  OBVIOUS
<1>1. /\ at = "idle" /\ verdict = "pending"
      /\ (at' = "open" /\ verdict' = verdict) \/ (at' = at /\ verdict' = "other")
      /\ UNCHANGED <<dynamics, late, removed, err, overlooked>>
  BY DEF Start
<1>2. Found'
  BY <1>1 DEF Honest, Found, Chosen, dynamics, grid
<1>3. Own' /\ Outcome'
  BY <1>1 DEF Honest, Own, Outcome, dynamics, grid
<1> QED
  BY <1>2, <1>3 DEF Honest

LEMMA PostHonest == Inv /\ TypeOK' /\ Honest /\ Post => Honest'
<1> SUFFICES ASSUME Inv, TypeOK', Honest, Post PROVE Honest'
  OBVIOUS
<1>1. UNCHANGED <<dynamics, late, count, at, ids, removed, err, verdict, overlooked>>
  BY DEF Post
<1> QED
  BY <1>1 DEF Honest, Found, Own, Outcome, dynamics, grid

\* A row is chosen among those just listed.
LEMMA TargetFound ==
  ASSUME Inv, TypeOK', Found, Passing, UNCHANGED <<listed, gone>>, NEW current, Target(listed, current),
         UNCHANGED removed, at \in {"open", "refresh"},
         Cardinality(listed \cap Matching) + removed = count
  PROVE  Found' /\ at' \in {"select", "delete"}
<1>1. /\ at' \in {"select", "delete"} /\ ids' = listed /\ count' = count
  BY DEF Target
<1>2. listed \in SUBSET Items /\ gone \in SUBSET Items /\ ids \in SUBSET Items /\ removed \in Nat /\ count \in Nat
  BY DEF Inv, TypeOK
<1>3. listed \cap gone = {}
  BY DEF Found
<1>4. removed <= But(gone, listed)
  <2>1. CASE at = "open"
    <3>1. removed = 0 /\ But(gone, listed) \in Nat
      BY <1>2, <2>1, ButGrows DEF Inv, Progress
    <3> QED
      BY <3>1
  <2>2. CASE at = "refresh"
    <3>1. /\ ids \subseteq listed \cup gone /\ Cardinality(ids \cap Matching) + removed = count + 1
          /\ removed <= But(gone, ids) + 1
      BY <2>2 DEF Found
    <3>2. /\ Cardinality(listed \cap Matching) \in Nat /\ Cardinality(ids \cap Matching) \in Nat
          /\ Cardinality(listed \cap Matching) < Cardinality(ids \cap Matching) =>
               But(gone, ids) + 1 <= But(gone, listed)
          /\ But(gone, ids) \in Nat /\ But(gone, listed) \in Nat
      BY <1>2, <1>3, <3>1, OneMoreGone
    <3> QED
      BY <1>2, <3>1, <3>2
  <2> QED
    BY <2>1, <2>2
<1>5. Found'
  BY <1>1, <1>3, <1>4 DEF Found, Chosen
<1> QED
  BY <1>1, <1>5

\* The loop is left with an error, or none.
LEMMA LeaveHonest ==
  ASSUME Inv, TypeOK', Honest, at \in Loop \cup {"open"}, CarryOut(at) \/ UNCHANGED dynamics,
         overlooked \subseteq overlooked', at = "confirm" => UNCHANGED overlooked,
         late' \subseteq {at}, NEW e \in Errors, Leave(e),
         at = "confirm" => e = "uncertain",
         at = "refresh" /\ e # "uncertain" => removed <= But(gone, {}),
         e = "nil" => at \in {"open", "refresh"} /\ removed = count /\ late' = {}
  PROVE  Honest'
<1>1. /\ Passing /\ (at # "confirm" => UNCHANGED deleted)
      /\ at \notin {"delete", "confirm"} => UNCHANGED dialog
  BY EffectOnRows DEF Inv, Honest
<1>2. at' = "restore" /\ err' = e /\ UNCHANGED <<count, ids, target, removed, verdict>>
  BY DEF Leave
<1>3. at \notin {"idle", "done", "restore"} /\ verdict = "pending" /\ err = "nil"
  BY DEF Honest, Own, Loop
<1>4. e # "uncertain" => removed <= But(gone', {})
  <2>1. gone \in SUBSET Items /\ gone' \in SUBSET Items /\ gone \subseteq gone' /\ removed \in Nat
    BY <1>1 DEF Inv, TypeOK, Passing
  <2>2. /\ But(gone, ids) \in Nat /\ But(gone, {}) \in Nat /\ But(gone', {}) \in Nat
        /\ But(gone, ids) <= But(gone', {}) /\ But(gone, {}) <= But(gone', {})
    BY <2>1, ButGrows
  <2>3. CASE at = "open"
    BY <2>2, <2>3 DEF Inv, Progress
  <2>4. CASE at \in {"select", "delete"}
    BY <2>1, <2>2, <2>4 DEF Honest, Found, Chosen
  <2>5. CASE at \in {"confirm", "refresh"}
    BY <2>1, <2>2, <2>5
  <2> QED
    BY <2>3, <2>4, <2>5 DEF Loop
<1>5. Found'
  BY <1>1, <1>2, <1>4 DEF Found, Chosen, Passing
<1>6. Own'
  <2>1. e # "uncertain" => UNCHANGED deleted
    BY <1>1
  <2>2. e # "uncertain" => Cardinality((deleted \ overlooked)') <= removed
    <3> SUFFICES ASSUME e # "uncertain" PROVE Cardinality((deleted \ overlooked)') <= removed
      OBVIOUS
    <3>1. Cardinality(deleted \ overlooked) <= removed /\ removed \in Nat
      BY <1>3 DEF Honest, Own, Inv, TypeOK
    <3>2. /\ Cardinality((deleted \ overlooked)') \in Nat /\ Cardinality(deleted \ overlooked) \in Nat
          /\ Cardinality((deleted \ overlooked)') <= Cardinality(deleted \ overlooked)
      BY <2>1, OverlookedCountLess DEF Inv
    <3> QED
      BY <3>1, <3>2
  <2> QED
    BY <1>1, <1>2, <1>3, <2>2 DEF Honest, Own
<1>7. Outcome'
  BY <1>1, <1>2, <1>3 DEF Honest, Outcome
<1> QED
  BY <1>5, <1>6, <1>7 DEF Honest

LEMMA AnswerHonest == Inv /\ TypeOK' /\ Honest /\ Answer => Honest'
<1> SUFFICES ASSUME Inv, TypeOK', Honest, Answer PROVE Honest'
  OBVIOUS
<1>1. /\ CarryOut(at) \/ UNCHANGED dynamics
      /\ overlooked \subseteq overlooked' /\ (at \in {"confirm", "restore"} => UNCHANGED overlooked)
      /\ UNCHANGED late
      /\ at = "restore" => CarryOut(at)
  <2>1. /\ CarryOut(at) \/ UNCHANGED dynamics
        /\ UNCHANGED late
        /\ at = "restore" => CarryOut(at)
    BY DEF Answer, Loop
  <2>2. overlooked \subseteq overlooked' /\ (at' # "delete" => UNCHANGED overlooked)
    BY DEF Answer
  <2>3. at \in {"confirm", "restore"} => at' # "delete"
    BY AnswerOverlooks DEF Confirmed, Leave, End
  <2> QED
    BY <2>1, <2>2, <2>3
<1>2. at # "restore" /\ at \in Exchanges => late = {} /\ err = "nil" /\ verdict = "pending"
  BY DEF Inv, Aimed, Honest, Own, Exchanges, Loop
<1>3. /\ Passing /\ (at # "confirm" => UNCHANGED <<listed, gone, deleted>>)
      /\ at \notin {"delete", "confirm"} => UNCHANGED dialog
  BY <1>1, EffectOnRows DEF Inv, Honest
<1>4. /\ gone \in SUBSET Items /\ listed \in SUBSET Items /\ ids \in SUBSET Items
      /\ removed \in Nat /\ count \in Nat
  BY DEF Inv, TypeOK
<1>5. ASSUME at \in {"open", "refresh"}, NEW current, Target(listed, current), UNCHANGED removed,
             Cardinality(listed \cap Matching) + removed = count
      PROVE  Honest'
  <2>1. Found' /\ at' \in {"select", "delete"}
    BY <1>3, <1>5, TargetFound DEF Honest
  <2>2. Own'
    <3>1. Cardinality((deleted \ overlooked)') <= removed
      BY <1>1, <1>2, <1>3, <1>4, <1>5, OverlookedCountLess DEF Inv, Honest, Own, Exchanges, Loop
    <3> QED
      BY <1>1, <1>2, <1>3, <1>5, <2>1, <3>1 DEF Honest, Own, Target, Exchanges, Loop
  <2>3. Outcome'
    BY <1>1, <1>2, <1>3, <1>5, <2>1 DEF Honest, Outcome, Target, Exchanges, Loop
  <2> QED
    BY <2>1, <2>2, <2>3 DEF Honest
<1>6. CASE at = "open" /\ Opened
  <2>1. removed = 0
    BY <1>6 DEF Inv, Progress
  <2>2. CASE count = 0 /\ Leave("nil")
    BY <1>1, <1>2, <1>6, <2>1, <2>2, LeaveHonest DEF Errors, Exchanges
  <2>3. CASE Leave("other")
    BY <1>1, <1>2, <1>6, <2>3, LeaveHonest DEF Errors, Exchanges
  <2>4. CASE /\ Cardinality(listed \cap Matching) = count
             /\ \E current \in {active, NoItem} : Target(listed, current)
             /\ UNCHANGED removed
    BY <1>4, <1>5, <1>6, <2>1, <2>4
  <2> QED
    BY <1>6, <2>2, <2>3, <2>4 DEF Opened
<1>7. ASSUME at \in {"select", "delete"},
             UNCHANGED <<count, ids, target, removed, err, verdict>>,
             \/ at' = "delete" /\ at = "select"
             \/ at' = "confirm"
      PROVE  Honest'
  <2>1. Found'
    BY <1>3, <1>7 DEF Honest, Found, Chosen
  <2>2. Own'
    <3>1. Cardinality((deleted \ overlooked)') <= removed
      BY <1>1, <1>2, <1>3, <1>4, <1>7, OverlookedCountLess DEF Inv, Honest, Own, Exchanges, Loop
    <3> QED
      BY <1>1, <1>2, <1>3, <1>7, <3>1 DEF Honest, Own, Exchanges, Loop
  <2>3. Outcome'
    BY <1>1, <1>2, <1>3, <1>7 DEF Honest, Outcome, Exchanges, Loop
  <2> QED
    BY <2>1, <2>2, <2>3 DEF Honest
<1>8. CASE at = "select" /\ \E shown \in SUBSET listed : Selected(shown)
  <2>1. CASE Leave("other")
    BY <1>1, <1>2, <1>8, <2>1, LeaveHonest DEF Errors, Exchanges, Loop
  <2> QED
    BY <1>7, <1>8, <2>1 DEF Selected
<1>9. CASE at = "delete" /\ Asked
  <2>1. CASE Leave("uncertain")
    BY <1>1, <1>2, <1>9, <2>1, LeaveHonest DEF Errors, Exchanges, Loop
  <2> QED
    BY <1>7, <1>9, <2>1 DEF Asked
<1>10. CASE at = "confirm" /\ Confirmed
  <2>1. CASE Leave("uncertain")
    BY <1>1, <1>2, <1>10, <2>1, LeaveHonest DEF Errors, Exchanges, Loop
  <2>2. CASE /\ ~dialog' /\ at' = "refresh" /\ removed' = removed + 1
             /\ UNCHANGED <<count, ids, target, err, verdict>>
    <3>1. Found'
      <4>1. gone' \in SUBSET Items /\ gone \subseteq gone'
        BY <1>3 DEF TypeOK, Passing
      <4>2. /\ But(gone, ids) \in Nat /\ But(gone', ids) \in Nat
            /\ But(gone, ids) <= But(gone', ids)
        BY <1>4, <4>1, ButGrows
      <4>3. /\ Cardinality(ids \cap Matching) + removed = count /\ removed <= But(gone, ids)
            /\ ids \subseteq listed \cup gone /\ Cardinality(ids \cap Matching) \in Nat
        <5>1. IsFiniteSet(ids \cap Matching)
          BY <1>4, FS_Subset
        <5>2. Cardinality(ids \cap Matching) \in Nat
          BY <5>1, FS_CardinalityType
        <5> QED
          BY <1>10, <5>2 DEF Honest, Found, Chosen
      <4> QED
        BY <1>3, <1>4, <2>2, <4>2, <4>3 DEF Found, Chosen, Passing
    <3>2. Own'
      <4>1. /\ Cardinality(deleted \ overlooked) \in Nat
            /\ Cardinality((deleted \ overlooked)') \in Nat
            /\ Cardinality((deleted \ overlooked)') <= Cardinality(deleted \ overlooked) + 1
        BY <1>1, <1>10, ConfirmedOne DEF Inv, Aimed, Asking
      <4> QED
        BY <1>1, <1>2, <1>4, <1>10, <2>2, <4>1 DEF Honest, Own, Exchanges, Loop
    <3>3. Outcome'
      BY <1>2, <1>10, <2>2 DEF Outcome, Exchanges, Loop
    <3> QED
      BY <3>1, <3>2, <3>3 DEF Honest
  <2> QED
    BY <1>10, <2>1, <2>2 DEF Confirmed
<1>11. CASE at = "refresh" /\ Refreshed
  <2>1. CASE Leave("uncertain")
    BY <1>1, <1>2, <1>11, <2>1, LeaveHonest DEF Errors, Exchanges, Loop
  <2>2. CASE OneGone /\ removed = count /\ Leave("nil")
    <3>1. /\ ids \subseteq listed \cup gone /\ Cardinality(ids \cap Matching) + removed = count + 1
          /\ removed <= But(gone, ids) + 1 /\ listed \cap gone = {}
      BY <1>11 DEF Honest, Found
    <3>2. /\ Cardinality(listed \cap Matching) \in Nat /\ Cardinality(ids \cap Matching) \in Nat
          /\ Cardinality(listed \cap Matching) < Cardinality(ids \cap Matching) =>
               But(gone, ids) + 1 <= But(gone, listed)
          /\ But(gone, ids) \in Nat /\ But(gone, listed) \in Nat /\ But(gone, listed) = But(gone, {})
      BY <1>4, <3>1, OneMoreGone
    <3>3. Cardinality(listed \cap Matching) = 0
      BY <1>4, <2>2 DEF OneGone
    <3>4. removed <= But(gone, {})
      BY <1>4, <2>2, <3>1, <3>2, <3>3
    <3> QED
      BY <1>1, <1>2, <1>11, <2>2, <3>4, LeaveHonest DEF Errors, Exchanges, Loop
  <2>3. CASE /\ OneGone /\ removed < count
             /\ \E current \in {active, NoItem} : Target(listed, current)
             /\ UNCHANGED removed
    <3>1. Cardinality(listed \cap Matching) = count - removed
      BY <2>3 DEF OneGone
    <3>2. Cardinality(listed \cap Matching) + removed = count
      BY <1>4, <3>1
    <3> QED
      BY <1>5, <1>11, <2>3, <3>2
  <2> QED
    BY <1>11, <2>1, <2>2, <2>3 DEF Refreshed
<1>12. CASE at = "restore" /\ End(err)
  <2>1. at' = "done" /\ verdict' = err /\ UNCHANGED <<count, ids, target, removed, err>>
    BY <1>12 DEF End
  <2>2. tab' = "Reports" /\ UNCHANGED <<grid, dialog>>
    BY <1>1, <1>12 DEF CarryOut
  <2>3. Found'
    BY <1>12, <2>1, <2>2 DEF Honest, Found, Chosen, grid
  <2>4. Own'
    BY <1>1, <1>12, <2>1, <2>2 DEF Honest, Own, grid
  <2>5. Outcome'
    BY <1>1, <1>12, <2>1, <2>2 DEF Honest, Outcome
  <2> QED
    BY <2>3, <2>4, <2>5 DEF Honest
<1> QED
  BY <1>6, <1>8, <1>9, <1>10, <1>11, <1>12, AnswerOverlooks

LEMMA FailHonest == Inv /\ TypeOK' /\ Honest /\ Fail => Honest'
<1> SUFFICES ASSUME Inv, TypeOK', Honest, Fail PROVE Honest'
  OBVIOUS
<1>1. /\ CarryOut(at) \/ UNCHANGED dynamics
      /\ late' \in {late, late \cup {at}}
      /\ UNCHANGED overlooked
  BY DEF Fail
<1>2. at # "restore" /\ at \in Exchanges => late = {} /\ err = "nil" /\ verdict = "pending"
  BY DEF Inv, Aimed, Honest, Own, Exchanges, Loop
<1>3. CASE \E cause \in {"expired", "other"} : at \in Loop /\ Leave(ErrorClass(at, cause))
  <2>1. PICK cause \in {"expired", "other"} : at \in Loop /\ Leave(ErrorClass(at, cause))
    BY <1>3
  <2>2. PICK e \in Errors : /\ e = ErrorClass(at, cause) /\ e # "nil"
                            /\ at \in {"confirm", "refresh"} => e = "uncertain"
    BY DEF ErrorClass, Errors
  <2>3. late' \subseteq {at}
    BY <1>1, <1>2, <2>1 DEF Exchanges, Loop
  <2> QED
    BY <1>1, <2>1, <2>2, <2>3, LeaveHonest
<1>4. CASE \E cause \in {"expired", "other"} : at = "open" /\ Leave(cause)
  <2>1. PICK e \in Errors : Leave(e) /\ e # "nil" /\ at = "open"
    BY <1>4 DEF Errors
  <2>2. late' \subseteq {at}
    BY <1>1, <1>2, <2>1 DEF Exchanges
  <2> QED
    BY <1>1, <2>1, <2>2, LeaveHonest
<1>5. ASSUME at \in {"open", "restore"}, NEW e, End(e), e # "nil",
             e # "uncertain" => err # "uncertain"
      PROVE  Honest'
  <2>1. at' = "done" /\ verdict' = e /\ UNCHANGED <<count, ids, target, removed, err>>
    BY <1>5 DEF End
  <2>2. Passing /\ UNCHANGED <<listed, gone, deleted>>
    BY <1>1, <1>5, EffectOnRows DEF Inv, Honest
  <2>3. err # "uncertain" => removed <= But(gone, {})
    <3>1. CASE at = "open"
      <4>1. removed = 0 /\ gone \in SUBSET Items
        BY <3>1 DEF Inv, Progress, TypeOK
      <4>2. But(gone, {}) \in Nat
        BY <4>1, ButGrows
      <4> QED
        BY <4>1, <4>2
    <3>2. CASE at = "restore"
      BY <3>2 DEF Honest, Found
    <3> QED
      BY <1>5, <3>1, <3>2
  <2>4. Found'
    BY <2>1, <2>2, <2>3 DEF Found, Chosen, Passing
  <2>5. "confirm" \in late' => err = "uncertain"
    BY <1>1, <1>5 DEF Honest, Own
  <2>6. Own'
    BY <1>1, <1>5, <2>1, <2>2, <2>5 DEF Honest, Own
  <2>7. Outcome'
    BY <1>5, <2>1 DEF Outcome
  <2> QED
    BY <2>4, <2>6, <2>7 DEF Honest
<1>6. CASE \E cause \in {"expired", "other"} : at = "open" /\ End(cause)
  BY <1>2, <1>5, <1>6 DEF Exchanges
<1>7. CASE at = "restore" /\ End(IF err = "nil" THEN "uncertain" ELSE err)
  BY <1>5, <1>7
<1> QED
  BY <1>3, <1>4, <1>6, <1>7 DEF Fail

LEMMA HonestAlways == Spec => [](Inv /\ Honest)
<1>1. Init => Honest
  <2> SUFFICES ASSUME Init PROVE Honest
    OBVIOUS
  <2>1. deleted \ overlooked = {} /\ Cardinality(deleted \ overlooked) = 0
    BY FS_EmptySet DEF Init
  <2>2. Found /\ Own /\ Outcome
    BY <2>1 DEF Init, Found, Own, Outcome, Chosen
  <2> QED
    BY <2>2 DEF Honest
<1>2. Inv /\ Inv' /\ Honest /\ [Next]_vars => Honest'
  <2> SUFFICES ASSUME Inv, Inv', Honest, [Next]_vars PROVE Honest'
    OBVIOUS
  <2>1. TypeOK'
    BY DEF Inv
  <2>2. CASE UNCHANGED vars
    BY <2>2 DEF Honest, Found, Own, Outcome, vars, dynamics, grid, client
  <2>3. CASE Stop
    BY <2>2, <2>3 DEF Stop
  <2> QED
    BY <2>1, <2>2, <2>3, MeddleHonest, LateEffectHonest, StartHonest, PostHonest,
       AnswerHonest, FailHonest DEF Next
<1> QED
  BY <1>1, <1>2, Invariance, PTL DEF Spec

(* Unless the outcome is reported as uncertain, the number of rows the     *)
(* result says were removed is honest: this client deleted no more, but    *)
(* for marked rows it overlooked, nor will a request it gave up, and as    *)
(* many with the name asked for are gone.                                  *)
THEOREM RemovedIsTrue == Spec => []CountIsHonest
<1>1. Inv /\ Honest => CountIsHonest
  <2> SUFFICES ASSUME Inv, Honest, verdict \in {"nil", "expired", "other"}
               PROVE  /\ Cardinality(deleted \ overlooked) <= removed
                      /\ removed <= Cardinality(gone \cap Matching)
    BY DEF CountIsHonest
  <2>1. err # "uncertain" /\ at \in {"idle", "done"}
    BY DEF Honest, Own
  <2>2. But(gone, {}) = Cardinality(gone \cap Matching) /\ But(gone, {}) \in Nat
    <3>1. (gone \cap Matching) \ {} = gone \cap Matching /\ gone \in SUBSET Items
      BY DEF Inv, TypeOK
    <3> QED
      BY <3>1, ButGrows DEF But
  <2>3. removed <= But(gone, {})
    BY <2>1, <2>2 DEF Honest, Found, Inv, Progress
  <2> QED
    BY <2>1, <2>2, <2>3 DEF Honest, Own
<1> QED
  BY <1>1, HonestAlways, PTL

(* Success is complete: as many rows with the name as were asked for are   *)
(* gone, no confirmation is open or under way, and the workspace shows its *)
(* Reports tab, and goes on doing so, whatever requests were given up.     *)
THEOREM SuccessIsWhole == Spec => []SuccessIsComplete
<1>1. Inv /\ Honest => SuccessIsComplete
  <2> SUFFICES ASSUME Inv, Honest, verdict = "nil"
               PROVE  /\ count <= Cardinality(gone \cap Matching)
                      /\ tab = "Reports" /\ ~dialog
    BY DEF SuccessIsComplete
  <2>1. /\ err # "uncertain" /\ at = "done" /\ removed = count
        /\ tab = "Reports" /\ ~dialog
    BY DEF Honest, Own, Outcome
  <2>2. But(gone, {}) = Cardinality(gone \cap Matching)
    <3>1. (gone \cap Matching) \ {} = gone \cap Matching
      OBVIOUS
    <3> QED
      BY <3>1 DEF But
  <2> QED
    BY <2>1, <2>2 DEF Honest, Found
<1> QED
  BY <1>1, HonestAlways, PTL
=============================================================================
