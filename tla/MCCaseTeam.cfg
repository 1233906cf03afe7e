SPECIFICATION Spec
CONSTANTS
    Requests = {r1, r2, r3}
    Cases = {c1}
    People = {p1, p2}
    Opened = {o1, o2}
    None = None
SYMMETRY Symmetry
CHECK_DEADLOCK FALSE
PROPERTIES NextCaseWriteHeals
INVARIANTS LeadIsMemberUnlessRaced
