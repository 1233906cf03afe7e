SPECIFICATION Spec
CONSTANTS
    Requests = {r1, r2, r3, r4}
    Users = {ann, bob}
    Passwords = {p1}
    None = None
SYMMETRY Symmetry
INVARIANT OneLiveTokenPerSignIn
INVARIANT CodeRedeemedOnce
INVARIANT SpentCodeLeavesPassword
INVARIANT EndedStaysEnded
PROPERTY EvidenceStays
CHECK_DEADLOCK FALSE
