-------------------------- MODULE MCProviderControl --------------------------
(* Instances of ProviderControl.tla for TLC.                                *)
EXTENDS ProviderControl, TLC

SameOperators == Permutations(Operators) \cup Permutations(Incidents)
=============================================================================
