------------------------- MODULE MCAuditPartitions -------------------------
(* AuditPartitions on small instances.  The replicas are interchangeable.  *)
EXTENDS AuditPartitions, TLC

ReplicaSymmetry == Permutations(Replicas)
=============================================================================
