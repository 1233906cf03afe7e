-------------------------- MODULE MCEventSubscribers --------------------------
(* An instance of EventSubscribers for TLC. *)
EXTENDS EventSubscribers, TLC

Symmetry == Permutations(Requests) \cup Permutations(Members)
=============================================================================
