----------------------------- MODULE MCCaseTeam -----------------------------
(* Instances of CaseTeam for TLC. *)
EXTENDS CaseTeam, TLC

Symmetry == Permutations(Requests) \cup Permutations(Cases)
            \cup Permutations(People) \cup Permutations(Opened)
=============================================================================
