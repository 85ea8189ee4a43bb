--------------------------- MODULE MCAuditWriter ---------------------------
(* AuditWriter on small instances.                                         *)
EXTENDS AuditWriter
=============================================================================
