----------------------------- MODULE MCQwproxy -----------------------------
(* Qwproxy on small instances.                                             *)
EXTENDS Qwproxy
=============================================================================
