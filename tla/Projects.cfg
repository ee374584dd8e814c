SPECIFICATION MCSpec
CONSTANTS
    Campaigns = {p1}
    Titles = {t1}
    Plans = {m1, m2, m3}
    Requests = {r1, r2}
    KycBypass = FALSE
SYMMETRY Symmetric
INVARIANTS MilestonesOfOnePlan PlansBounded
PROPERTIES SubmittedIsComplete DecisionsStand
CHECK_DEADLOCK FALSE
