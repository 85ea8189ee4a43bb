----------------------------- MODULE MCLoginFlow -----------------------------
(* LoginFlow on a small instance.                                           *)
EXTENDS LoginFlow, TLC
=============================================================================
