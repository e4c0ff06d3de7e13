------------------------- MODULE MCSessionExecution -------------------------
(* SessionExecution with interchangeable processes, operators, captures:   *)
(* used for safety, not where liveness is checked.                         *)
EXTENDS SessionExecution, TLC

Symmetry == Permutations(Procs) \cup Permutations(Captures) \cup Permutations(Operators)
=============================================================================
