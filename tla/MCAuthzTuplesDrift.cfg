SPECIFICATION FairSpec
CONSTANTS
    m1 = m1
    m2 = m2
    c1 = c1
    u1 = u1
    u2 = u2
    u3 = u3
    clerk = clerk
    partner = partner
    Writers = {w1, w2}
    Replicas = {}
    Members = {m1, m2}
    Cases = {c1}
    Periods = {p1}
    Users = {u1, u2}
    Roles = {partner, clerk}
    MaxFailures = 0
    None = None
SYMMETRY Symmetry
INVARIANT OnlyMissedSyncsDrift
CHECK_DEADLOCK FALSE
