SPECIFICATION Spec
CONSTANTS
    Requests = {r1, r2}
    Cases = {c1, c2}
    Booked = {h1}
    Bodies = {b1}
    Operations <- AllOperations
    LastDay = 3
    None = None
SYMMETRY Symmetry
PROPERTY FrozenUnlessRaced NextWriteHeals
CHECK_DEADLOCK FALSE
