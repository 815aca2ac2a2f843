------------------------- MODULE MCProviderCircuit -------------------------
(* Instances of ProviderCircuit for TLC. *)
EXTENDS ProviderCircuit
=============================================================================
