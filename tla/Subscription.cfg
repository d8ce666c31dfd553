CONSTANTS
    Workers = {p1, p2}
    Keys = {k1, k2}
    PlanKeys = {k}
    Behaviors = {"suspend", "retain"}
    Variants = {a, b}
    MaxSource = 2
    MaxRevision = 2
    MaxTime = 2
SPECIFICATION Spec
SYMMETRY Symmetry
INVARIANTS TypeOK ProjectionIsNewest AccessAccounted OnePlanChange
