SPECIFICATION MCFairSpec
CONSTANTS
    m1 = m1
    m2 = m2
    c1 = c1
    u1 = u1
    u2 = u2
    u3 = u3
    clerk = clerk
    partner = partner
    Writers = {w1}
    Replicas = {k1, k2}
    Members = {m1, m2}
    Cases = {c1}
    Periods = {p1}
    Users = {u1, u2, u3}
    Roles = {clerk, partner}
    MaxFailures = 1
    None = None
INVARIANT TypeOK
PROPERTIES SyncKeepsInStep ReconcileHeals EngineConverges
CHECK_DEADLOCK FALSE
