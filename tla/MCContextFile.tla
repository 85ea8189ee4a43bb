--------------------------- MODULE MCContextFile ---------------------------
(* ContextFile on small instances.                                         *)
EXTENDS ContextFile, TLC

Symmetry == Permutations(Procs) \cup Permutations(Inodes) \cup Permutations(Names)
=============================================================================
