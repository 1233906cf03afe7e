SPECIFICATION Spec
CONSTANTS
    Requests = {r1, r2}
    Members = {m1, m2}
    Operator = Operator
    None = None
SYMMETRY Symmetry
PROPERTIES LoneChangeKeepsAdministrator
INVARIANTS DeactivatedStaysOut
CHECK_DEADLOCK FALSE
