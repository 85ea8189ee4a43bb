---------------------------- MODULE MCSelfUpdate ----------------------------
(* SelfUpdate on small instances.                                          *)
EXTENDS SelfUpdate, TLC

Symmetry == Permutations(Procs) \cup Permutations(Inodes) \cup Permutations(Versions)
=============================================================================
