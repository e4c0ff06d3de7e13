--------------------------- MODULE MCSessionStore ---------------------------
(* SessionStore on a few names and keys; names, keys and contents are      *)
(* interchangeable.                                                        *)
EXTENDS SessionStore, TLC

Symmetry == Permutations(Names) \cup Permutations(KeyIds) \cup Permutations(Data)

(* One session with up to three keys and two contents, or two sessions     *)
(* with two keys and a content between them.                               *)
InUse(n) == op[n] # Idle \/ onDisk[n] # {Absent(n)} \/ acked[n] # Unknown
Contents == UNION {{op[n].data} \cup {e.data : e \in onDisk[n]} : n \in Names}
Scope ==
  \/ Cardinality({n \in Names : InUse(n)}) <= 1
  \/ Cardinality(used) <= 2 /\ Cardinality(Contents \ {NoData}) <= 1
=============================================================================
