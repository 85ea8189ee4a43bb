-------------------------- MODULE MCProxyHandler --------------------------
(* ProxyHandler for every request of the model, and replies of two chunks. *)
EXTENDS ProxyHandler
=============================================================================
