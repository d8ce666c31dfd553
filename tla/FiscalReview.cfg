CONSTANTS
    Orders = {o1}
    Proofs = {f1}
    Keys = {k1}
    Details = {d1, d2}
    Invalid = bad
    Actions = {"markNeedsCorrection", "markReady", "markDelivered", "cancel", "correct"}
    Events = {"succeeded"}
    MaxAttempts = 1
    Window = 1
    PaymentPeriod = 1
    Workers = {p1, p2}
    MaxTime = 0
    MaxRevision = 4
SPECIFICATION Spec
SYMMETRY Symmetry
PROPERTIES ReviewedStaysReviewed
\* The order is settled and the revisions are bounded: the instance may come to rest.
CHECK_DEADLOCK FALSE
