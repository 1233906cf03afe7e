SPECIFICATION Spec
CONSTANTS
    Requests = {r1, r2}
    Members = {m1, m2}
    Operator = Operator
    None = None
SYMMETRY Symmetry
INVARIANT FirmIsAdministered
CHECK_DEADLOCK FALSE
