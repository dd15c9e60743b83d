-------------------------- MODULE MCProviderItems --------------------------
(* ProviderItems on small instances.                                       *)
EXTENDS ProviderItems
=============================================================================
