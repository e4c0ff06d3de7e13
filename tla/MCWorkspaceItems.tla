-------------------------- MODULE MCWorkspaceItems --------------------------
(* WorkspaceItems with two rows that match and two that do not.            *)
EXTENDS WorkspaceItems, TLC

CONSTANTS m1, m2, o1, o2

MCItems == {m1, m2, o1, o2}
MCMatching == {m1, m2}
Symmetry == Permutations(MCMatching) \cup Permutations(MCItems \ MCMatching)
=============================================================================
