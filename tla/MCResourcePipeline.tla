------------------------- MODULE MCResourcePipeline -------------------------
(* Instances of ResourcePipeline for TLC. *)
EXTENDS ResourcePipeline, TLC

CONSTANTS alice, eve

\* alice may do everything the kind declares; eve may do nothing.
OnlyAlice == {<<alice, op>> : op \in Operations}

AllOperations == {"create", "update", "custom"}

Symmetry == Permutations(Requests) \cup Permutations(Keys) \cup Permutations(Bodies)
=============================================================================
