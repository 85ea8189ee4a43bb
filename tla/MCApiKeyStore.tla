--------------------------- MODULE MCApiKeyStore ---------------------------
(* ApiKeyStore on small instances.  The keys are interchangeable.          *)
EXTENDS ApiKeyStore, TLC

KeySymmetry == Permutations(Keys)
=============================================================================
