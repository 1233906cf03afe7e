---------------------------- MODULE MCCaseDiary ----------------------------
(* Instances of CaseDiary for TLC. *)
EXTENDS CaseDiary, TLC

AllOperations == {"schedule", "edit", "record", "amend", "lifecycle"}

Symmetry ==
    Permutations(Requests) \cup Permutations(Cases) \cup Permutations(Bodies)
=============================================================================
