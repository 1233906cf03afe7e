SPECIFICATION RSFairSpec
CONSTANTS
    Replicas = {k1, k2}
    Deadlines = {d1}
    Hearings = {h1}
    Members = {m1, m2}
    Dates <- TwoDays
    LastDay = 2
    Page = 2
    MaxUpsets = 1
    Nothing = Nothing
    m1 = m1
    m2 = m2
    OwnerAtFirst <- Owner
    LeadOf <- Lead
    TeamOf <- Team
INVARIANTS RSTypeOK NoticesAreTimely
PROPERTIES FullTicksTellEverybody NothingStaysOwed
CHECK_DEADLOCK FALSE
