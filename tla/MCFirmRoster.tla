---------------------------- MODULE MCFirmRoster ----------------------------
(* Instances of FirmRoster for TLC. *)
EXTENDS FirmRoster, TLC

Symmetry == Permutations(Requests) \cup Permutations(Members)
=============================================================================
