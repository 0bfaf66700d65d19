----------------------------- MODULE MCDescriptors -----------------------------
(* Descriptors for TLC: tables from nearly empty to nearly full, with and  *)
(* without stdio.                                                          *)
EXTENDS Descriptors, TLC

OpenBefore ==
  {Stdio, Stdio \cup {4, 6}, Stdio \cup (3..6), Stdio \cup (3..8), {1, 2}, {}}

MCTables == {[fd \in Fds |-> IF fd \in S THEN Own ELSE Closed] : S \in OpenBefore}

RunSymmetry == Permutations(Runs)
=============================================================================
