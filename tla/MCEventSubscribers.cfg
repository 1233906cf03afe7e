SPECIFICATION Spec
CONSTANTS
    Requests = {r1, r2, r3}
    Members = {alice, bob}
    None = None
SYMMETRY Symmetry
INVARIANTS AssignmentsAreTold ChangesHaveTheirLine HistoryReplays
CHECK_DEADLOCK FALSE
