--------------------------- MODULE MCAuthzTuples ---------------------------
(* Instances of AuthzTuples for TLC. *)
EXTENDS AuthzTuples, TLC

CONSTANTS m1, m2, c1, u1, u2, u3, clerk, partner

\* An active member who leads the case and one who has been deactivated: any
\* change of a role, a user, a lead or an activation is one write away.
OneStart ==
    /\ Init
    /\ rows[m1] = [kind |-> "member", user |-> u1, role |-> partner, active |-> TRUE]
    /\ rows[m2] = [kind |-> "member", user |-> u2, role |-> clerk, active |-> FALSE]
    /\ rows[c1].lead = m1

MCFairSpec == OneStart /\ [][Next]_vars /\ Fairness

Symmetry ==
    Permutations(Writers) \cup Permutations(Replicas) \cup Permutations(Members)
      \cup Permutations(Users) \cup Permutations(Roles)
=============================================================================
